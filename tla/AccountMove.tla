----------------------------- MODULE AccountMove -----------------------------
(***************************************************************************)
(* A move of an event between two accounts: Daemon::onEventsMove and       *)
(* Database::moveEventAcrossAccounts on top of the event store.  One       *)
(* transaction queues a Create in the target account and a Remove in the   *)
(* source account that waits for it (dependency_id).  The two accounts are *)
(* drained by two engines that know nothing of each other, so the order is *)
(* kept by the outbox alone, while the user edits or deletes the copy,     *)
(* retries and discards operations, or removes the target.                 *)
(*                                                                         *)
(* The accounts are remote or device-only (LocalProvider).  A remote       *)
(* engine is reduced to the life of one request: GoogleDrain and           *)
(* CalDavDrain model the engines themselves, other clients and pulls.      *)
(***************************************************************************)
EXTENDS OutboxStore

CONSTANTS
    Source, Target,     \* the event in the source calendar, its copy
    MaxFaults,          \* bound: lost replies, refusals, failures, crashes
    MaxCommands         \* bound: retries and discards

ASSUME MoveAssumption ==
    /\ Source # Target /\ EventIds = {Source, Target}
    /\ Contents # {} /\ NumForeign > 0 /\ MaxEtag > 0  \* the event to be moved
    /\ MaxFaults \in Nat /\ MaxCommands \in Nat

VARIABLES
    remote,     \* the events whose account is at a provider
    target,     \* whether the target calendar still exists
    held,       \* the events their provider's server holds
    flight,     \* the request of each engine: event -> operation and outcome
    arrived,    \* history: the copy was created where it was to go
    released,   \* history: what the user did that gives the copy up
    faults, commands    \* bounds only

moveVars ==
    <<remote, target, held, flight, arrived, released, faults, commands>>
vars == <<storeVars, moveVars>>

Outcomes == {"travelling", "applied", "failed", "refused"}

\* The two accounts differ, and there is one device-only account.
Init ==
    /\ remote \in (SUBSET EventIds) \ {{}}
    /\ events = [e \in {Source} |->
                    [rid |-> IF Source \in remote THEN MaxOps + 1 ELSE None,
                     etag |-> IF Source \in remote THEN 1 ELSE None,
                     content |-> CHOOSE c \in Contents : TRUE,
                     dirty |-> FALSE, deleted |-> FALSE]]
    /\ outbox = Empty /\ conflicts = Empty /\ nextOp = 1 /\ edits = 0
    /\ target = TRUE
    /\ held = remote \cap {Source}
    /\ flight = Empty
    /\ arrived = FALSE /\ released = {}
    /\ faults = 0 /\ commands = 0
-----------------------------------------------------------------------------
(* The move.                                                               *)

\* What both queue: an event without the provider's identity, and the source
\* marked deleted.  Neither removal waits the ten seconds of a plain one.
Copy == [rid |-> None, etag |-> None, content |-> events[Source].content,
         dirty |-> TRUE, deleted |-> FALSE]

Leaving == [events[Source] EXCEPT !.dirty = TRUE, !.deleted = TRUE]

\* Daemon::onEventsMove: the checks made before the database is asked.
MoveAccepted == Source \in DOMAIN events /\ target

MoveRows(dependency) ==
    /\ ActiveOps(Source) = {}
    /\ Target \notin DOMAIN events
    /\ nextOp + 1 <= MaxOps
    /\ events' = Put(Put(events, Target, Copy), Source, Leaving)
    /\ outbox' = Put(Put(outbox, nextOp, QueueRow(Target, "create", Copy, None)),
                     nextOp + 1,
                     [QueueRow(Source, "remove", Leaving, dependency)
                        EXCEPT !.grace = FALSE])
    /\ nextOp' = nextOp + 2
    /\ UNCHANGED conflicts

\* Mutant of MoveEventAcrossAccounts: the removal depends on nothing.
MoveUnordered == MoveRows(None)

\* Mutant of MoveEventAcrossAccounts: the dependency is looked up after the
\* removal was queued and finds it.
MoveWaitingForItself == MoveRows(nextOp + 1)

\* The savepoint of Database::moveEventAcrossAccounts.  An unfinished mutation
\* of the source refuses the move.
MoveEventAcrossAccounts == MoveRows(nextOp)

Move ==
    /\ EditAllowed
    /\ MoveAccepted
    /\ MoveEventAcrossAccounts
    /\ UNCHANGED moveVars
-----------------------------------------------------------------------------
(* The user.                                                               *)

\* saveLocalEvent on a device-only calendar writes the event and queues
\* nothing; the payload of a queued Create stays the old one.  Only an event
\* that is shown is edited here (OutboxStore has the other edits).
EditCopy ==
    /\ Target \in DOMAIN events /\ ~events[Target].deleted
    /\ EditAllowed
    /\ \E c \in Contents :
        LET row == [events[Target] EXCEPT !.content = c,
                                          !.dirty = Target \in remote]
        IN  IF Target \in remote
            THEN SaveLocalEvent(Target, row, "update")
            ELSE /\ events' = Put(events, Target, row)
                 /\ UNCHANGED <<outbox, conflicts, nextOp>>
    /\ UNCHANGED moveVars

\* The removal of a copy that was not sent yet deletes its Create with it.
DeleteCopy ==
    /\ Target \in DOMAIN events
    /\ EditAllowed
    /\ SaveLocalEvent(Target, [events[Target] EXCEPT !.dirty = Target \in remote,
                                                     !.deleted = TRUE], "remove")
    /\ released' = released \cup {"deleted"}
    /\ UNCHANGED <<remote, target, held, flight, arrived, faults, commands>>

CommandAllowed == commands < MaxCommands /\ commands' = commands + 1

\* Mutant of DiscardOp: a discarded removal does not show its event again.
DiscardOpHidden(o) ==
    /\ o \in DOMAIN outbox /\ outbox[o].state # "sending"
    /\ outbox' =
        [p \in DOMAIN outbox |->
            IF p = o THEN [outbox[p] EXCEPT !.state = "done"]
            ELSE IF outbox[p].dep = o /\ outbox[p].state \in ActiveStates
            THEN [outbox[p] EXCEPT !.state = "blocked"] ELSE outbox[p]]
    /\ UNCHANGED <<events, conflicts, nextOp, edits>>

DiscardOp(o) == Discard(o)

DiscardMoved(o) ==
    /\ CommandAllowed
    /\ DiscardOp(o)
    /\ UNCHANGED <<remote, target, held, flight, arrived, released, faults>>

\* The panel offers a retry for a row that waits or is blocked.
Retriable(o) ==
    o \in DOMAIN outbox /\ outbox[o].state \in {"retry_wait", "blocked"}

\* operations.retry of the removal after its prerequisite was discarded is the
\* user's decision to go on without the copy.
RetryMoved(o) ==
    /\ CommandAllowed
    /\ Retriable(o)
    /\ SetState(o, "pending")
    /\ released' = IF outbox[o].event = Source /\ DependencyMet(o)
                   THEN released \cup {"retried"} ELSE released
    /\ UNCHANGED <<remote, target, held, flight, arrived, faults>>

\* Mutant of CascadeTarget: foreign keys are not enforced on this connection.
KeepTargetQueue ==
    IF Target \in DOMAIN events
    THEN DeleteEventWithoutCascade(Target)
    ELSE UNCHANGED <<events, outbox, conflicts>>

\* DELETE FROM accounts or calendars: events and outbox rows are cascaded.
CascadeTarget ==
    IF Target \in DOMAIN events
    THEN DeleteEvent(Target)
    ELSE UNCHANGED <<events, outbox, conflicts>>

TargetRemoved(what) ==
    /\ target /\ target' = FALSE
    /\ CascadeTarget
    /\ released' = released \cup {what}
    /\ UNCHANGED <<nextOp, edits, remote, arrived, faults, commands>>

\* accounts.remove with its cached data: the engine aborts its request, and the
\* server keeps its events.  The device-only account cannot be removed.
RemoveTargetAccount ==
    /\ Target \in remote
    /\ TargetRemoved("account")
    /\ flight' = Restrict(flight, DOMAIN flight \ {Target})
    /\ UNCHANGED held

\* calendars.remove of a device-only calendar, or of a Google one whose server
\* has just deleted it; a request about it is still answered.
RemoveTargetCalendar ==
    /\ TargetRemoved("calendar")
    /\ held' = held \ {Target}
    /\ UNCHANGED flight
-----------------------------------------------------------------------------
(* The engines.                                                            *)

ReadyRows == {o \in DOMAIN outbox : Ready(o)}

Fault == faults < MaxFaults /\ faults' = faults + 1

\* The engine of a remote account sends one of its ready rows.
Send(o) ==
    /\ o \in ReadyRows
    /\ LET e == outbox[o].event IN
        /\ e \in remote /\ e \notin DOMAIN flight
        /\ flight' = Put(flight, e, [op |-> o, removal |-> outbox[o].op = "remove",
                                  outcome |-> "travelling"])
    /\ SetState(o, "sending")
    /\ UNCHANGED <<remote, target, held, arrived, released, faults, commands>>

Travelling(e) ==
    e \in DOMAIN flight /\ flight[e].outcome = "travelling"

\* The server executes the request; a repeated create finds its own resource.
Execute(e) ==
    /\ Travelling(e)
    /\ held' = IF flight[e].removal THEN held \ {e} ELSE held \cup {e}
    /\ arrived' = (arrived \/ (e = Target /\ ~flight[e].removal))
    /\ flight' = [flight EXCEPT ![e].outcome = "applied"]
    /\ UNCHANGED <<storeVars, remote, target, released, faults, commands>>

\* The server refuses, or the request or its reply is lost on the way.
Disturb(e) ==
    /\ e \in DOMAIN flight
    /\ Fault
    /\ \E outcome \in {"failed", "refused"} :
        /\ outcome = "refused" => Travelling(e)
        /\ flight' = [flight EXCEPT ![e].outcome = outcome]
    /\ UNCHANGED <<storeVars, remote, target, held, arrived, released, commands>>

\* The engine takes the answer: done, another attempt later, or blocked until
\* the user decides.  The row may have been deleted meanwhile.
Answer(e) ==
    /\ e \in DOMAIN flight
    /\ LET o == flight[e].op
           answer == flight[e].outcome
       IN  \/ /\ answer = "applied" /\ flight[e].removal
              /\ AcknowledgeRemoval(o)
           \/ /\ answer = "applied" /\ ~flight[e].removal
              /\ \E c \in Contents :
                    /\ o \in DOMAIN outbox => c = outbox[o].content
                    /\ Acknowledge(o, [rid |-> o, etag |-> 1, content |-> c])
           \/ answer = "failed" /\ SetState(o, "retry_wait")
           \/ answer = "refused" /\ SetState(o, "blocked")
           \/ o \notin DOMAIN outbox /\ UNCHANGED storeVars
    /\ flight' = Restrict(flight, DOMAIN flight \ {e})
    /\ UNCHANGED <<remote, target, held, arrived, released, faults, commands>>

\* LocalProvider::drain of one ready row: sending and acknowledged at once, or
\* kept for another attempt when the database fails.
DrainLocal(o) ==
    /\ o \in ReadyRows
    /\ outbox[o].event \notin remote
    /\ \/ /\ AcknowledgeRemoval(o)
          /\ arrived' = (arrived \/ outbox[o].op = "create")
          /\ UNCHANGED faults
       \/ /\ Fault
          /\ SetState(o, "retry_wait")
          /\ UNCHANGED arrived
    /\ UNCHANGED <<remote, target, held, flight, released, commands>>

TimePasses(o) ==
    /\ GraceOver(o) \/ BackoffOver(o)
    /\ UNCHANGED moveVars

\* The daemon dies and is started again.
Restart ==
    /\ Fault
    /\ Recover
    /\ flight' = Empty
    /\ UNCHANGED <<remote, target, held, arrived, released, commands>>
-----------------------------------------------------------------------------
EngineRuns ==
    \/ \E o \in OpIds : Send(o) \/ DrainLocal(o) \/ TimePasses(o)
    \/ \E e \in EventIds : Execute(e) \/ Answer(e)

Next ==
    \/ Move \/ EditCopy \/ DeleteCopy \/ Restart
    \/ RemoveTargetAccount \/ RemoveTargetCalendar
    \/ \E o \in OpIds : DiscardMoved(o) \/ RetryMoved(o)
    \/ \E e \in EventIds : Disturb(e)
    \/ EngineRuns

Spec == Init /\ [][Next]_vars

\* Both engines are woken again and again (SyncCoordinator's timer, the drain
\* timer of LocalProvider), requests end, and deadlines pass.
Fairness ==
    /\ \A o \in OpIds :
        WF_vars(Send(o)) /\ WF_vars(DrainLocal(o)) /\ WF_vars(TimePasses(o))
    /\ \A e \in EventIds : WF_vars(Execute(e)) /\ WF_vars(Answer(e))

FairSpec == Spec /\ Fairness
-----------------------------------------------------------------------------
(* Properties.                                                             *)

\* The tables of the store keep their types, and an operation belongs to an
\* event that exists.
MoveTypeOK ==
    /\ TypeOK
    /\ remote \subseteq EventIds /\ held \subseteq remote
    /\ target \in BOOLEAN /\ arrived \in BOOLEAN
    /\ released \subseteq {"deleted", "retried", "calendar", "account"}
    /\ DOMAIN flight \subseteq remote
    /\ \A e \in DOMAIN flight :
        flight[e] \in [op : OpIds, removal : BOOLEAN, outcome : Outcomes]
    /\ faults \in 0 .. MaxFaults /\ commands \in 0 .. MaxCommands

SourceStands ==
    IF Source \in remote THEN Source \in held ELSE Source \in DOMAIN events

\* The two-account move of moveEventAcrossAccounts never destroys the source
\* before the copy exists at its destination, whatever fails or restarts in
\* either engine; only the user can give the copy up.
SourceOutlivesMove == arrived \/ released # {} \/ SourceStands

\* docs/IPC.md: "deletion of the source depends on destination acknowledgment,
\* so a destination failure cannot silently discard the source event".  Here
\* disconnecting the target account does not count as giving the event up.
SourceNeedsArrival == arrived \/ released \ {"account"} # {} \/ SourceStands

\* An event hidden from the user (deleted = 1) always has an unfinished
\* operation that will remove it or that the user can decide about: neither a
\* discard nor a lost prerequisite leaves an invisible event behind.
HiddenHasOperation ==
    \A e \in DOMAIN events : events[e].deleted => ActiveOps(e) # {}

\* The removal and its copy do not wait for each other for ever: a move ends
\* with the source gone and the copy made or given up, with the source restored
\* by the user, or with an operation that waits for the user's decision.
MoveSettles ==
    <>[](\/ nextOp = 1
         \/ Source \notin DOMAIN events /\ (arrived \/ released # {})
         \/ Source \in DOMAIN events /\ ~events[Source].deleted
         \/ \E o \in DOMAIN outbox : outbox[o].state = "blocked")
=============================================================================
