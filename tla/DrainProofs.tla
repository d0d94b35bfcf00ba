----------------------------- MODULE DrainProofs -----------------------------
(***************************************************************************)
(* Proofs about the Google engine on top of the event store, for every     *)
(* number of events, contents, operations, versions and faults, and for    *)
(* every choice of commands and faults. The first three parts hold of      *)
(* every behaviour (Spec), the last two until a command comes that their   *)
(* specification excludes (CalmSpec, OrderlySpec).                         *)
(*                                                                         *)
(*   EngineInv is inductive: the types of the tables, of the server and    *)
(*     of the job, and what the job's phase says of its other fields.      *)
(*   Given EngineInv every step of the engine is a step of the store, so   *)
(*     the theorems of OutboxProofs hold of the engine.                    *)
(*   HomeInv is inductive given EngineInv: of the creates that were ever   *)
(*     queued for an event all but one are gone at the server, and the     *)
(*     event's identity comes from that one; hence NoDuplicateRemote.      *)
(*   CalmInv is inductive given these until a command meets the job        *)
(*     (CalmSpec): the queue of each event agrees with the event and with  *)
(*     the job's copies, and each row, conflict and staged change with the *)
(*     version of the server it names; hence CleanIsFaithful, Converged,   *)
(*     LocalEditRemainsVisible and QueuedIsDirty.                          *)
(*   BaseInv is inductive given EngineInv and HomeInv until a finished row *)
(*     is sent again or a conflict is decided under the job (OrderlySpec): *)
(*     every request that may be sent, stale copies included, names the    *)
(*     revision its event has, or one that is no longer at the server;     *)
(*     hence NoSilentOverwrite.                                            *)
(***************************************************************************)
EXTENDS GoogleDrain, OutboxProofs

\* What DrainTypeOK says of the job, of any job j.
JobOK(j) ==
    /\ j \in [phase : Phases, todo : {j.todo}, cursor : 0 .. MaxEtag,
              snap : {j.snap}, item : OpIds \cup {None}, refreshed : BOOLEAN,
              open : SUBSET EventIds]
    /\ DOMAIN j.todo \subseteq RemoteIds
    /\ \A r \in DOMAIN j.todo : j.todo[r] \in Resources
    /\ DOMAIN j.snap \subseteq OpIds
    /\ \A o \in DOMAIN j.snap : j.snap[o] \in OutboxRows

\* A staged change is one the server has published, with a version.
StagedOK(j) ==
    \A r \in DOMAIN j.todo :
        j.todo[r].state # "never" /\ j.todo[r].etag # None

\* Between the dispatch of a row and its completion the row is in the
\* snapshot; a refusal is looked into only for an event the server has.
ItemOK(j) ==
    /\ j.phase \in {"mutate", "hydrate", "reconcile", "settle"}
            => j.item \in DOMAIN j.snap
    /\ j.phase = "hydrate" => j.snap[j.item].rid \in RemoteIds

\* The remote calendar and its version counter.
ServerOK ==
    /\ server \in [RemoteIds -> Resources]
    /\ clock \in 0 .. MaxEtag
    /\ applied \in [OpIds -> Nat]
    /\ \A r \in RemoteIds : server[r].state # "never" => server[r].etag # None

\* What the engine keeps beside the store.
EngineOK ==
    /\ ServerOK
    /\ token \in 0 .. MaxEtag /\ connected \in BOOLEAN /\ faults \in 0 .. MaxFaults
    /\ JobOK(job) /\ StagedOK(job) /\ ItemOK(job)

\* The inductive invariant of the engine.
EngineInv == TypeOK /\ EngineOK

-----------------------------------------------------------------------------
(* What the engine does to the store.                                      *)

\* A row's state that updateOutboxState writes is a step of the store.
LEMMA SetStateStep ==
    ASSUME TypeOK, NEW o, NEW state \in ActiveStates, SetState(o, state)
    PROVE  StoreNext
<1>1. o \in OpIds
  BY DEF SetState, TypeOK, OutboxOK
<1> QED
  BY <1>1 DEF StoreNext, EngineStep

\* The end of a row's attempt (updateOutboxState, then the next row) is a step
\* of the store.
LEMMA SettleStep ==
    ASSUME TypeOK, NEW state \in ActiveStates, Settle(state)
    PROVE  [StoreNext]_storeVars
  BY SetStateStep DEF Settle

\* The completion of a removal is a step of the store.
LEMMA AcknowledgeRemovalStep ==
    ASSUME TypeOK, NEW o, AcknowledgeRemoval(o)
    PROVE  StoreNext
<1>1. o \in OpIds
  BY DEF AcknowledgeRemoval, TypeOK, OutboxOK
<1> QED
  BY <1>1 DEF StoreNext, EngineStep

\* The completion of a removal is a step of the store.
LEMMA CompleteRemovalStep ==
    ASSUME TypeOK, CompleteRemoval
    PROVE  [StoreNext]_storeVars
  BY AcknowledgeRemovalStep DEF CompleteRemoval

\* The completion of a create or an update with the server's copy is a step
\* of the store.
LEMMA CompleteStep ==
    ASSUME TypeOK, NEW v, job.item \in DOMAIN outbox => v \in Versions, Complete(v)
    PROVE  [StoreNext]_storeVars
<1>1. CASE job.item \in DOMAIN outbox /\ ~AckCollides(job.item, v)
  <2>1. job.item \in OpIds
    BY <1>1 DEF TypeOK, OutboxOK
  <2> QED
    BY <1>1, <2>1 DEF Complete, StoreNext, EngineStep
<1> QED
  BY <1>1 DEF Complete

\* Applying what the server has under an id is a step of the store.
LEMMA ApplyStep ==
    ASSUME NEW r \in RemoteIds, NEW res \in Resources,
           res.state = "live" => res.etag # None,
           IF res.state = "live" THEN ApplyRemote(r, res.etag, res.content)
                                 ELSE RemoveRemote(r)
    PROVE  StoreNext
<1>1. res.etag \in Etags \cup {None} /\ res.content \in Contents
  BY DEF Resources
<1> QED
  BY <1>1 DEF StoreNext, EngineStep

\* What the server publishes keeps the server's tables well typed.
LEMMA PublishOK ==
    ASSUME StoreAssumption, ServerOK, NEW r \in RemoteIds,
           NEW state \in {"live", "gone"}, NEW c \in Contents, Publish(r, state, c),
           \/ UNCHANGED applied
           \/ \E o \in OpIds : applied' = [applied EXCEPT ![o] = @ + 1]
    PROVE  ServerOK' /\ clock + 1 \in Etags
<1>1. clock' = clock + 1 /\ clock + 1 \in Etags /\ clock + 1 \in 0 .. MaxEtag
  BY DEF Publish, ServerOK, StoreAssumption, Etags
<1>2. [state |-> state, etag |-> clock + 1, content |-> c] \in Resources
  BY <1>1 DEF Resources
<1>3. server' = [server EXCEPT ![r] = [state |-> state, etag |-> clock + 1,
                                       content |-> c]]
  BY DEF Publish
<1>4. server' \in [RemoteIds -> Resources]
  BY <1>2, <1>3 DEF ServerOK
<1>5. \A q \in RemoteIds : server'[q].state # "never" => server'[q].etag # None
  BY <1>1, <1>3 DEF ServerOK, Etags, None
<1>6. applied' \in [OpIds -> Nat]
  BY DEF ServerOK
<1> QED
  BY <1>1, <1>4, <1>5, <1>6 DEF ServerOK

\* Ids of operations are ids at the server.
LEMMA OpIdsAreRemoteIds ==
    ASSUME StoreAssumption PROVE OpIds \subseteq RemoteIds
  BY DEF StoreAssumption, OpIds, RemoteIds

\* What an accepted mutation does at the server, and the version the client
\* is told of.
LEMMA AcceptedOK ==
    ASSUME StoreAssumption, EngineInv, Mutating,
           Accepts(job.item, Sent), ServerApplies(job.item, Sent)
    PROVE  /\ ServerOK'
           /\ [rid |-> Target(job.item, Sent), etag |-> clock + 1,
               content |-> Sent.content] \in Versions
<1>1. job.item \in DOMAIN job.snap /\ job.item \in OpIds /\ Sent \in OutboxRows
  BY DEF EngineInv, EngineOK, ItemOK, JobOK, Mutating, Sent
<1>2. Target(job.item, Sent) \in RemoteIds
  BY <1>1, OpIdsAreRemoteIds DEF Target, Accepts, IsLive
<1>3. Sent.content \in Contents
  BY <1>1 DEF OutboxRows
<1> DEFINE state == IF Sent.op = "remove" \/ Sent.deleted THEN "gone" ELSE "live"
<1>4. Publish(Target(job.item, Sent), state, Sent.content)
  BY DEF ServerApplies
<1>5. \E o \in OpIds : applied' = [applied EXCEPT ![o] = @ + 1]
  BY <1>1 DEF ServerApplies
<1>6. state \in {"live", "gone"}
  OBVIOUS
<1> HIDE DEF state
<1>7. ServerOK' /\ clock + 1 \in Etags
  BY <1>2, <1>3, <1>4, <1>5, <1>6, PublishOK DEF EngineInv, EngineOK
<1> QED
  BY <1>2, <1>3, <1>7 DEF Versions

-----------------------------------------------------------------------------
(* What the engine does to its job.                                        *)

\* The idle job, and one that begins with any phase that needs no row.
LEMMA IdleJobOK ==
    ASSUME NEW phase \in Phases \ {"mutate", "hydrate", "reconcile", "settle"},
           NEW open \in SUBSET EventIds, NEW j,
           j = IdleJob \/ j = [IdleJob EXCEPT !.phase = phase]
             \/ j = [IdleJob EXCEPT !.phase = phase, !.open = open]
    PROVE  JobOK(j) /\ StagedOK(j) /\ ItemOK(j)
<1> DEFINE Fresh == [phase : Phases \ {"mutate", "hydrate", "reconcile", "settle"},
                     todo : {Empty}, cursor : {None}, snap : {Empty}, item : {None},
                     refreshed : {FALSE}, open : SUBSET EventIds]
<1>1. IdleJob \in Fresh
  BY DEF IdleJob, Phases
<1>2. \A k \in Fresh : [k EXCEPT !.phase = phase] \in Fresh
  OBVIOUS
<1>3. \A k \in Fresh : [k EXCEPT !.phase = phase, !.open = open] \in Fresh
  OBVIOUS
<1>4. j \in Fresh
  <2> HIDE DEF Fresh
  <2> QED
    BY <1>1, <1>2, <1>3
<1>5. DOMAIN Empty = {}
  BY DEF Empty
<1> QED
  <2>1. /\ j.phase \in Phases \ {"mutate", "hydrate", "reconcile", "settle"}
        /\ j.todo = Empty /\ j.snap = Empty
    BY <1>4
  <2>2. JobOK(j)
    <3>1. j \in [phase : Phases, todo : {j.todo}, cursor : 0 .. MaxEtag,
                snap : {j.snap}, item : OpIds \cup {None}, refreshed : BOOLEAN,
                open : SUBSET EventIds]
      <4>1. 0 \in 0 .. MaxEtag
        BY StoreAssumption DEF StoreAssumption
      <4> QED
        BY <1>4, <4>1 DEF None
    <3> QED
      BY <1>5, <2>1, <3>1 DEF JobOK
  <2> QED
    BY <1>5, <2>1, <2>2 DEF StagedOK, ItemOK

\* Each change the engine makes to its job keeps it well formed.
LEMMA GotoOK ==
    ASSUME JobOK(job), StagedOK(job), NEW phase \in Phases, Goto(phase),
           phase \in {"mutate", "hydrate", "reconcile", "settle"}
                => job.item \in DOMAIN job.snap,
           phase = "hydrate" => Sent.rid \in RemoteIds
    PROVE  JobOK(job') /\ StagedOK(job') /\ ItemOK(job')
<1>1. /\ job'.phase = phase /\ job'.todo = job.todo /\ job'.cursor = job.cursor
      /\ job'.snap = job.snap /\ job'.item = job.item
      /\ job'.refreshed = job.refreshed /\ job'.open = job.open
  BY DEF Goto, JobOK
<1>2. job' \in [phase : Phases, todo : {job'.todo}, cursor : 0 .. MaxEtag,
               snap : {job'.snap}, item : OpIds \cup {None}, refreshed : BOOLEAN,
               open : SUBSET EventIds]
  BY <1>1 DEF Goto, JobOK
<1> QED
  BY <1>1, <1>2 DEF JobOK, StagedOK, ItemOK, Sent

\* A row that was dealt with leaves the snapshot.
LEMMA NextItemOK ==
    ASSUME JobOK(job), StagedOK(job), NextItem
    PROVE  JobOK(job') /\ StagedOK(job') /\ ItemOK(job')
<1> DEFINE rest == Restrict(job.snap, DOMAIN job.snap \ {job.item})
<1>1. /\ DOMAIN rest \subseteq DOMAIN job.snap
      /\ \A o \in DOMAIN rest : rest[o] = job.snap[o]
  BY DEF Restrict
<1>2. job' = [job EXCEPT !.phase = "dispatch", !.item = None, !.snap = rest]
  BY DEF NextItem
<1> HIDE DEF rest
<1>3. /\ job'.phase = "dispatch" /\ job'.todo = job.todo /\ job'.cursor = job.cursor
      /\ job'.snap = rest /\ job'.item = None
      /\ job'.refreshed = job.refreshed /\ job'.open = job.open
  BY <1>2 DEF JobOK
<1>4. job' \in [phase : Phases, todo : {job'.todo}, cursor : 0 .. MaxEtag,
               snap : {job'.snap}, item : OpIds \cup {None}, refreshed : BOOLEAN,
               open : SUBSET EventIds]
  BY <1>2, <1>3 DEF JobOK, Phases
<1> QED
  BY <1>1, <1>3, <1>4 DEF JobOK, StagedOK, ItemOK

\* The job after each of the engine's completions: the next row, or the end.
LEMMA JobAfterRow ==
    ASSUME JobOK(job), StagedOK(job), Finish \/ NextItem
    PROVE  JobOK(job') /\ StagedOK(job') /\ ItemOK(job')
<1>1. CASE Finish
  <2>1. "idle" \in Phases \ {"mutate", "hydrate", "reconcile", "settle"}
        /\ {} \in SUBSET EventIds
    BY DEF Phases
  <2> QED
    BY <1>1, <2>1, IdleJobOK DEF Finish
<1>2. CASE NextItem
  BY <1>2, NextItemOK
<1> QED
  BY <1>1, <1>2

-----------------------------------------------------------------------------
(* Each action of the engine: what it is to the store, and EngineOK'.      *)

\* EngineOK', put together from its parts.
LEMMA EngineOKNext ==
    ASSUME ServerOK', JobOK(job'), StagedOK(job'), ItemOK(job'),
           token' \in 0 .. MaxEtag, connected' \in BOOLEAN,
           faults' \in 0 .. MaxFaults
    PROVE  EngineOK'
  BY DEF EngineOK, JobOK, StagedOK, ItemOK

\* A step that leaves the server alone keeps what is said of it.
LEMMA ServerKept ==
    ASSUME ServerOK, UNCHANGED remoteVars
    PROVE  ServerOK'
  BY DEF ServerOK, remoteVars

\* The bound on faults.
LEMMA FaultKept ==
    ASSUME DrainAssumption, EngineOK, NEW f, Fault(f)
    PROVE  faults' \in 0 .. MaxFaults
  BY DEF Fault, EngineOK, DrainAssumption

\* The pull: nothing of the store changes, except that a chunk applies one
\* staged change.
LEMMA PullStep ==
    ASSUME EngineInv, Pull
    PROVE  [StoreNext]_storeVars /\ EngineOK'
<1> USE DEF EngineInv, EngineOK
<1>1. /\ ServerOK' /\ connected' \in BOOLEAN /\ faults' \in 0 .. MaxFaults
  BY ServerKept DEF Pull, ListReply, ApplyChunk, ApplyNothing
<1>2. CASE ListReply
  <2> DEFINE listed == [r \in {r \in RemoteIds : Changed(r)} |-> server[r]]
  <2>1. job' = [job EXCEPT !.phase = "apply", !.cursor = clock, !.todo = listed]
    BY <1>2 DEF ListReply
  <2>2. /\ DOMAIN listed \subseteq RemoteIds
        /\ \A r \in DOMAIN listed :
            /\ listed[r] \in Resources
            /\ listed[r].state # "never" /\ listed[r].etag # None
    BY DEF ServerOK, Changed
  <2> HIDE DEF listed
  <2>3. clock \in 0 .. MaxEtag
    BY DEF ServerOK
  <2>4. /\ job'.phase = "apply" /\ job'.todo = listed /\ job'.snap = job.snap
        /\ job'.item = job.item
    BY <2>1 DEF JobOK
  <2>5. job' \in [phase : Phases, todo : {job'.todo}, cursor : 0 .. MaxEtag,
                 snap : {job'.snap}, item : OpIds \cup {None}, refreshed : BOOLEAN,
                 open : SUBSET EventIds]
    BY <2>1, <2>3, <2>4 DEF JobOK, Phases
  <2>6. JobOK(job') /\ StagedOK(job') /\ ItemOK(job')
    BY <2>2, <2>4, <2>5 DEF JobOK, StagedOK, ItemOK
  <2> QED
    BY <1>1, <1>2, <2>6, EngineOKNext DEF ListReply
<1>3. ASSUME NEW r \in RemoteIds, ApplyChunk(r)
      PROVE  [StoreNext]_storeVars /\ EngineOK'
  <2> DEFINE rest == Restrict(job.todo, DOMAIN job.todo \ {r})
             phase == IF DOMAIN job.todo = {r} THEN "drain" ELSE "apply"
  <2>1. StoreNext
    <3>1. job.todo[r] \in Resources /\ job.todo[r].etag # None
      BY <1>3 DEF ApplyChunk, JobOK, StagedOK
    <3> QED
      BY <1>3, <3>1, ApplyStep DEF ApplyChunk
  <2>2. job' = [job EXCEPT !.todo = rest, !.phase = phase]
    BY <1>3 DEF ApplyChunk
  <2>3. DOMAIN rest \subseteq DOMAIN job.todo /\ \A q \in DOMAIN rest : rest[q] = job.todo[q]
    BY DEF Restrict
  <2>4. phase \in {"drain", "apply"}
    OBVIOUS
  <2> HIDE DEF rest, phase
  <2>5. /\ job'.phase = phase /\ job'.todo = rest /\ job'.snap = job.snap
        /\ job'.item = job.item
    BY <2>2 DEF JobOK
  <2>6. job' \in [phase : Phases, todo : {job'.todo}, cursor : 0 .. MaxEtag,
                 snap : {job'.snap}, item : OpIds \cup {None}, refreshed : BOOLEAN,
                 open : SUBSET EventIds]
    BY <2>2, <2>4, <2>5 DEF JobOK, Phases
  <2>7. JobOK(job') /\ StagedOK(job') /\ ItemOK(job')
    BY <2>3, <2>4, <2>5, <2>6 DEF JobOK, StagedOK, ItemOK
  <2>8. token' \in 0 .. MaxEtag
    BY <1>3 DEF ApplyChunk, JobOK
  <2> QED
    BY <1>1, <2>1, <2>7, <2>8, EngineOKNext
<1>4. CASE ApplyNothing
  <2>1. JobOK(job') /\ StagedOK(job') /\ ItemOK(job')
    BY <1>4, GotoOK DEF ApplyNothing, Phases
  <2>2. token' \in 0 .. MaxEtag
    BY <1>4 DEF ApplyNothing, JobOK
  <2> QED
    BY <1>1, <1>4, <2>1, <2>2, EngineOKNext DEF ApplyNothing
<1> QED
  BY <1>2, <1>3, <1>4 DEF Pull

\* Taking the snapshot, dispatching its first row, ending the job, and the
\* removal that needs no request.
LEMMA DispatchStep ==
    ASSUME EngineInv, Dispatch
    PROVE  [StoreNext]_storeVars /\ EngineOK'
<1> USE DEF EngineInv, EngineOK
<1>1. /\ ServerOK' /\ token' \in 0 .. MaxEtag
      /\ connected' \in BOOLEAN /\ faults' \in 0 .. MaxFaults
  BY ServerKept
     DEF Dispatch, DrainOutbox, DispatchDone, CompleteLocally, DispatchNext, DispatchMissing
<1>2. CASE DrainOutbox
  <2> DEFINE ready == [o \in {o \in OpIds : Ready(o)} |-> outbox[o]]
  <2>1. job' = [job EXCEPT !.phase = "dispatch", !.snap = ready]
    BY <1>2 DEF DrainOutbox
  <2>2. DOMAIN ready \subseteq OpIds /\ \A o \in DOMAIN ready : ready[o] \in OutboxRows
    BY DEF Ready, TypeOK, OutboxOK
  <2> HIDE DEF ready
  <2>3. /\ job'.phase = "dispatch" /\ job'.todo = job.todo /\ job'.snap = ready
    BY <2>1 DEF JobOK
  <2>4. job' \in [phase : Phases, todo : {job'.todo}, cursor : 0 .. MaxEtag,
                 snap : {job'.snap}, item : OpIds \cup {None}, refreshed : BOOLEAN,
                 open : SUBSET EventIds]
    BY <2>1, <2>3 DEF JobOK, Phases
  <2>5. JobOK(job') /\ StagedOK(job') /\ ItemOK(job')
    BY <2>2, <2>3, <2>4 DEF JobOK, StagedOK, ItemOK
  <2> QED
    BY <1>1, <1>2, <2>5, EngineOKNext DEF DrainOutbox
<1>3. CASE DispatchDone
  <2>1. DOMAIN conflicts \in SUBSET EventIds
    BY DEF TypeOK, ConflictsOK, EventsOK
  <2>2. "resolve" \in Phases \ {"mutate", "hydrate", "reconcile", "settle"}
    BY DEF Phases
  <2>3. JobOK(job') /\ StagedOK(job') /\ ItemOK(job')
    BY <1>3, <2>1, <2>2, IdleJobOK DEF DispatchDone
  <2> QED
    BY <1>1, <1>3, <2>3, EngineOKNext DEF DispatchDone
<1>4. CASE CompleteLocally
  BY <1>1, <1>4, AcknowledgeRemovalStep, JobAfterRow, EngineOKNext DEF CompleteLocally
<1>5. ASSUME NEW o \in OpIds, DispatchNext(o)
      PROVE  [StoreNext]_storeVars /\ EngineOK'
  <2> DEFINE phase == IF job.snap[o].op = "remove" /\ job.snap[o].rid = None
                      THEN "complete" ELSE "mutate"
  <2>1. StoreNext
    BY <1>5, SetStateStep DEF DispatchNext, ActiveStates
  <2>2. job' = [job EXCEPT !.item = o, !.phase = phase]
    BY <1>5 DEF DispatchNext
  <2>3. phase \in {"complete", "mutate"}
    OBVIOUS
  <2> HIDE DEF phase
  <2>4. /\ job'.phase = phase /\ job'.todo = job.todo /\ job'.snap = job.snap
        /\ job'.item = o
    BY <2>2 DEF JobOK
  <2>5. job' \in [phase : Phases, todo : {job'.todo}, cursor : 0 .. MaxEtag,
                 snap : {job'.snap}, item : OpIds \cup {None}, refreshed : BOOLEAN,
                 open : SUBSET EventIds]
    BY <2>2, <2>3, <2>4 DEF JobOK, Phases
  <2>6. o \in DOMAIN job.snap
    BY <1>5 DEF DispatchNext
  <2>7. JobOK(job') /\ StagedOK(job') /\ ItemOK(job')
    BY <2>3, <2>4, <2>5, <2>6 DEF JobOK, StagedOK, ItemOK
  <2> QED
    BY <1>1, <2>1, <2>7, EngineOKNext
<1>6. ASSUME NEW o \in OpIds, DispatchMissing(o)
      PROVE  [StoreNext]_storeVars /\ EngineOK'
  BY <1>1, <1>6, JobAfterRow, EngineOKNext DEF DispatchMissing
<1> QED
  BY <1>2, <1>3, <1>4, <1>5, <1>6 DEF Dispatch

\* A row's completion or its next state: a step of the store, and the job goes
\* on with the next row or ends.
LEMMA RowEnds ==
    ASSUME EngineInv,
           \/ CompleteRemoval
           \/ \E state \in ActiveStates : Settle(state)
           \/ \E v : (job.item \in DOMAIN outbox => v \in Versions) /\ Complete(v)
    PROVE  /\ [StoreNext]_storeVars
           /\ JobOK(job') /\ StagedOK(job') /\ ItemOK(job')
<1> USE DEF EngineInv, EngineOK
<1>1. CASE CompleteRemoval
  BY <1>1, CompleteRemovalStep, JobAfterRow DEF CompleteRemoval
<1>2. CASE \E state \in ActiveStates : Settle(state)
  BY <1>2, SettleStep, JobAfterRow DEF Settle
<1>3. CASE \E v : (job.item \in DOMAIN outbox => v \in Versions) /\ Complete(v)
  BY <1>3, CompleteStep, JobAfterRow DEF Complete
<1> QED
  BY <1>1, <1>2, <1>3

\* What handleMutationResult makes of each reply.
LEMMA MutationStep ==
    ASSUME EngineInv, MutationResult
    PROVE  [StoreNext]_storeVars /\ EngineOK'
<1> USE DEF EngineInv, EngineOK
<1>1. /\ token' \in 0 .. MaxEtag /\ connected' \in BOOLEAN /\ faults' \in 0 .. MaxFaults
  BY DEF MutationResult, MutationAccepted, RemovalAlreadyDone, UpdateTargetGone,
         Refused, Hydrate, BlockRow, Reconcile, TokenRefreshed, ReconcilePending
<1>2. CASE MutationAccepted
  <2>1. /\ ServerOK'
        /\ [rid |-> Target(job.item, Sent), etag |-> clock + 1,
            content |-> Sent.content] \in Versions
    BY <1>2, AcceptedOK, StoreAssumption DEF MutationAccepted
  <2>2. CompleteRemoval \/ Complete([rid |-> Target(job.item, Sent), etag |-> clock + 1,
                                     content |-> Sent.content])
    BY <1>2 DEF MutationAccepted
  <2> QED
    BY <1>1, <2>1, <2>2, RowEnds, EngineOKNext
<1>3. ServerOK' \/ MutationAccepted
  BY ServerKept DEF MutationResult, RemovalAlreadyDone, UpdateTargetGone,
         Refused, Hydrate, BlockRow, Reconcile, TokenRefreshed, ReconcilePending
<1>4. CASE RemovalAlreadyDone
  BY <1>1, <1>2, <1>3, <1>4, RowEnds, EngineOKNext DEF RemovalAlreadyDone
<1>5. CASE BlockRow \/ \E state \in {"retry_wait", "blocked"} : ReconcilePending(state)
  <2>1. \E state \in ActiveStates : Settle(state)
    BY <1>5 DEF BlockRow, ReconcilePending, ActiveStates
  <2> QED
    BY <1>1, <1>2, <1>3, <2>1, RowEnds, EngineOKNext
<1>6. CASE UpdateTargetGone
  <2>1. job.item \in DOMAIN job.snap /\ Sent \in OutboxRows
    BY <1>6 DEF UpdateTargetGone, Mutating, ItemOK, JobOK, Sent
  <2>2. Sent.rid \in RemoteIds \/ Sent.rid = None
    BY <2>1 DEF OutboxRows
  <2>3. [StoreNext]_storeVars
    BY <1>6, <2>2 DEF UpdateTargetGone, StoreNext, EngineStep
  <2>4. JobOK(job') /\ StagedOK(job') /\ ItemOK(job')
    BY <1>6, <2>1, GotoOK DEF UpdateTargetGone, Phases
  <2> QED
    BY <1>1, <1>2, <1>3, <2>3, <2>4, EngineOKNext
<1>7. CASE Refused
  <2>1. job.item \in DOMAIN job.snap
    BY <1>7 DEF Refused, Mutating, ItemOK
  <2>2. Sent.op # "create" => Sent.rid \in RemoteIds
    BY <1>7 DEF Refused, IsLive
  <2>3. JobOK(job') /\ StagedOK(job') /\ ItemOK(job')
    BY <1>7, <2>1, <2>2, GotoOK DEF Refused, Phases
  <2> QED
    BY <1>1, <1>2, <1>3, <1>7, <2>3, EngineOKNext DEF Refused
<1>8. CASE Hydrate
  <2>1. job.item \in DOMAIN job.snap /\ Sent.rid \in RemoteIds
    BY <1>8 DEF Hydrate, ItemOK, Sent
  <2>2. /\ server[Sent.rid] \in Resources
        /\ server[Sent.rid].state = "live" => server[Sent.rid].etag # None
    BY <2>1 DEF ServerOK
  <2>3. StoreNext
    BY <1>8, <2>1, <2>2, ApplyStep DEF Hydrate, IsLive
  <2>4. JobOK(job') /\ StagedOK(job') /\ ItemOK(job')
    BY <1>8, <2>1, GotoOK DEF Hydrate, Phases
  <2> QED
    BY <1>1, <1>2, <1>3, <2>3, <2>4, EngineOKNext
<1>9. CASE Reconcile
  <2> DEFINE v == [rid |-> job.item, etag |-> server[job.item].etag,
                   content |-> server[job.item].content]
  <2>1. v \in Versions
    <3>1. job.item \in RemoteIds /\ server[job.item].etag # None
          /\ server[job.item] \in Resources
      BY <1>9 DEF Reconcile, IsLive, ServerOK
    <3> QED
      BY <3>1 DEF Versions, Resources
  <2> QED
    BY <1>1, <1>2, <1>3, <1>9, <2>1, RowEnds, EngineOKNext DEF Reconcile
<1>10. CASE TokenRefreshed
  <2>1. JobOK(job') /\ StagedOK(job') /\ ItemOK(job')
    BY <1>10, GotoOK DEF TokenRefreshed, Phases
  <2> QED
    BY <1>1, <1>2, <1>3, <1>10, <2>1, EngineOKNext DEF TokenRefreshed
<1> QED
  BY <1>2, <1>4, <1>5, <1>6, <1>7, <1>8, <1>9, <1>10 DEF MutationResult

\* resolveNewestConflicts after a job.
LEMMA ResolutionStep ==
    ASSUME EngineInv, Resolution
    PROVE  [StoreNext]_storeVars /\ EngineOK'
<1> USE DEF EngineInv, EngineOK
<1>1. /\ ServerOK' /\ token' \in 0 .. MaxEtag
      /\ connected' \in BOOLEAN /\ faults' \in 0 .. MaxFaults
  BY ServerKept DEF Resolution, ResolveNewest, ResolveDone
<1>2. ASSUME NEW e \in EventIds, ResolveNewest(e)
      PROVE  [StoreNext]_storeVars /\ EngineOK'
  <2>1. [StoreNext]_storeVars
    BY <1>2 DEF ResolveNewest, StoreNext, EngineStep
  <2>2. job' = [job EXCEPT !.open = @ \ {e}] /\ job.phase = "resolve"
    BY <1>2 DEF ResolveNewest
  <2>3. /\ job'.phase = job.phase /\ job'.todo = job.todo /\ job'.snap = job.snap
    BY <2>2 DEF JobOK
  <2>4. job' \in [phase : Phases, todo : {job'.todo}, cursor : 0 .. MaxEtag,
                 snap : {job'.snap}, item : OpIds \cup {None}, refreshed : BOOLEAN,
                 open : SUBSET EventIds]
    <3>1. job.open \ {e} \in SUBSET EventIds
      BY DEF JobOK
    <3> QED
      BY <2>2, <2>3, <3>1 DEF JobOK
  <2>5. JobOK(job') /\ StagedOK(job') /\ ItemOK(job')
    BY <2>2, <2>3, <2>4 DEF JobOK, StagedOK, ItemOK
  <2> QED
    BY <1>1, <2>1, <2>5, EngineOKNext
<1>3. CASE ResolveDone
  BY <1>1, <1>3, JobAfterRow, EngineOKNext DEF ResolveDone
<1> QED
  BY <1>2, <1>3 DEF Resolution

\* 401: a job that may refresh its token goes on, any other one ends.
LEMMA RefreshingJobOK ==
    ASSUME JobOK(job), StagedOK(job), ItemOK(job),
           \/ job' = [job EXCEPT !.refreshed = TRUE]
           \/ job' = [job EXCEPT !.phase = "refresh", !.item = None, !.refreshed = TRUE]
    PROVE  JobOK(job') /\ StagedOK(job') /\ ItemOK(job')
<1>1. CASE job' = [job EXCEPT !.refreshed = TRUE]
  <2>1. /\ job'.phase = job.phase /\ job'.todo = job.todo /\ job'.snap = job.snap
        /\ job'.item = job.item
    BY <1>1 DEF JobOK
  <2>2. job' \in [phase : Phases, todo : {job'.todo}, cursor : 0 .. MaxEtag,
                 snap : {job'.snap}, item : OpIds \cup {None}, refreshed : BOOLEAN,
                 open : SUBSET EventIds]
    BY <1>1, <2>1 DEF JobOK
  <2> QED
    BY <2>1, <2>2 DEF JobOK, StagedOK, ItemOK
<1>2. CASE job' = [job EXCEPT !.phase = "refresh", !.item = None, !.refreshed = TRUE]
  <2>1. /\ job'.phase = "refresh" /\ job'.todo = job.todo /\ job'.snap = job.snap
    BY <1>2 DEF JobOK
  <2>2. job' \in [phase : Phases, todo : {job'.todo}, cursor : 0 .. MaxEtag,
                 snap : {job'.snap}, item : OpIds \cup {None}, refreshed : BOOLEAN,
                 open : SUBSET EventIds]
    BY <1>2, <2>1 DEF JobOK, Phases
  <2> QED
    BY <2>1, <2>2 DEF JobOK, StagedOK, ItemOK
<1> QED
  BY <1>1, <1>2

\* Failures, lost replies, refused tokens and crashes.
LEMMA FaultStepOK ==
    ASSUME EngineInv, FaultStep
    PROVE  [StoreNext]_storeVars /\ EngineOK'
<1> USE DEF EngineInv, EngineOK
<1>1. /\ token' \in 0 .. MaxEtag /\ connected' \in BOOLEAN /\ faults' \in 0 .. MaxFaults
  <2>1. \E f : Fault(f)
    BY DEF FaultStep, ListFails, ListRefused, ReplyLost, AuthRefused, RefreshRejected,
           Crash, RequestFails
  <2>2. faults' \in 0 .. MaxFaults
    BY <2>1, FaultKept, DrainAssumption
  <2> QED
    BY <2>2 DEF FaultStep, ListFails, ListRefused, ReplyLost, AuthRefused,
                RefreshRejected, Crash, RequestFails, Reauthorize
<1>2. CASE ListFails
  BY <1>1, <1>2, ServerKept, JobAfterRow, EngineOKNext DEF ListFails
<1>3. CASE ListRefused
  <2>1. JobOK(job') /\ StagedOK(job') /\ ItemOK(job')
    BY <1>3, JobAfterRow, RefreshingJobOK DEF ListRefused, Reauthorize
  <2> QED
    BY <1>1, <1>3, <2>1, ServerKept, EngineOKNext DEF ListRefused
<1>4. CASE ReplyLost
  <2>1. ServerOK'
    BY <1>4, AcceptedOK, StoreAssumption DEF ReplyLost
  <2>2. \E state \in ActiveStates : Settle(state)
    BY <1>4 DEF ReplyLost, ActiveStates
  <2> QED
    BY <1>1, <2>1, <2>2, RowEnds, EngineOKNext
<1>5. ASSUME NEW state \in {"retry_wait", "blocked"}, RequestFails(state)
      PROVE  [StoreNext]_storeVars /\ EngineOK'
  <2>1. ServerOK'
    BY <1>5, ServerKept DEF RequestFails
  <2>2. Settle(state) /\ state \in ActiveStates
    BY <1>5 DEF RequestFails, ActiveStates
  <2> QED
    BY <1>1, <2>1, <2>2, RowEnds, EngineOKNext
<1>6. CASE AuthRefused
  <2>1. ServerOK'
    BY <1>6, ServerKept DEF AuthRefused
  <2>2. [StoreNext]_storeVars
    BY <1>6, SetStateStep DEF AuthRefused, ActiveStates
  <2>3. JobOK(job') /\ StagedOK(job') /\ ItemOK(job')
    BY <1>6, JobAfterRow, RefreshingJobOK DEF AuthRefused, Reauthorize
  <2> QED
    BY <1>1, <2>1, <2>2, <2>3, EngineOKNext
<1>7. CASE RefreshRejected
  BY <1>1, <1>7, ServerKept, JobAfterRow, EngineOKNext DEF RefreshRejected, Reauthorize
<1>8. CASE Crash
  <2>1. ServerOK'
    BY <1>8, ServerKept, AcceptedOK, StoreAssumption DEF Crash
  <2> QED
    BY <1>1, <1>8, <2>1, JobAfterRow, EngineOKNext DEF Crash, StoreNext
<1> QED
  BY <1>2, <1>3, <1>4, <1>5, <1>6, <1>7, <1>8 DEF FaultStep

\* Other clients change the server only, the user and time the store only.
LEMMA OthersStep ==
    ASSUME EngineInv,
           \/ UserTurn \/ StartSync \/ Reconnect \/ Foreign
           \/ \E o \in OpIds : DeadlinePasses(o)
           \/ UNCHANGED drainVars
    PROVE  [StoreNext]_storeVars /\ EngineOK'
<1> USE DEF EngineInv, EngineOK
<1>1. CASE UserTurn
  BY <1>1, ServerKept, EngineOKNext DEF UserTurn, StoreNext
<1>2. CASE StartSync
  <2>1. "list" \in Phases \ {"mutate", "hydrate", "reconcile", "settle"}
        /\ {} \in SUBSET EventIds
    BY DEF Phases
  <2>2. JobOK(job') /\ StagedOK(job') /\ ItemOK(job')
    BY <1>2, <2>1, IdleJobOK DEF StartSync
  <2> QED
    BY <1>2, <2>2, ServerKept, EngineOKNext DEF StartSync
<1>3. CASE Reconnect
  BY <1>3, ServerKept, EngineOKNext DEF Reconnect
<1>4. CASE Foreign
  <2>1. PICK r \in RemoteIds, state \in {"live", "gone"}, c \in Contents :
            ForeignChange(r, state, c)
    BY <1>4 DEF Foreign
  <2>2. ServerOK'
    BY <2>1, PublishOK, StoreAssumption DEF ForeignChange
  <2> QED
    BY <2>1, <2>2, EngineOKNext DEF ForeignChange
<1>5. ASSUME NEW o \in OpIds, DeadlinePasses(o)
      PROVE  [StoreNext]_storeVars /\ EngineOK'
  BY <1>5, ServerKept, EngineOKNext DEF DeadlinePasses, StoreNext, TimeStep
<1>6. CASE UNCHANGED drainVars
  BY <1>6, ServerKept, EngineOKNext DEF drainVars
<1> QED
  BY <1>1, <1>2, <1>3, <1>4, <1>5, <1>6

-----------------------------------------------------------------------------
\* Every step of the engine is a step of the store, and keeps EngineInv.
LEMMA DrainStep ==
    ASSUME EngineInv, [Next]_drainVars
    PROVE  [StoreNext]_storeVars /\ EngineInv'
<1>1. [StoreNext]_storeVars /\ EngineOK'
  BY PullStep, DispatchStep, MutationStep, ResolutionStep, FaultStepOK, OthersStep
     DEF Next, JobStep
<1>2. TypeOK'
  BY <1>1, NextType, StoreAssumption DEF EngineInv
<1> QED
  BY <1>1, <1>2 DEF EngineInv

\* The engine begins in EngineInv, with an empty store.
LEMMA DrainInit ==
    ASSUME Init PROVE StoreInit /\ EngineInv
<1>1. StoreInit
  BY DEF Init
<1>2. TypeOK
  BY <1>1, StoreAssumption
     DEF StoreInit, Empty, TypeOK, EventsOK, OutboxOK, ConflictsOK, CountersOK
<1>3. ServerOK
  <2>1. PICK c \in Contents :
            server = [r \in RemoteIds |->
                        IF r > MaxOps
                        THEN [state |-> "live", etag |-> r - MaxOps, content |-> c]
                        ELSE [state |-> "never", etag |-> None, content |-> c]]
    BY DEF Init
  <2>2. \A r \in RemoteIds : r > MaxOps => r - MaxOps \in Etags /\ r - MaxOps # None
    BY StoreAssumption, DrainAssumption
       DEF StoreAssumption, DrainAssumption, RemoteIds, Etags, None
  <2>3. \A r \in RemoteIds : server[r] \in Resources
    BY <2>1, <2>2 DEF Resources
  <2>4. server \in [RemoteIds -> Resources]
    BY <2>1, <2>3
  <2>5. NumForeign \in 0 .. MaxEtag
    BY StoreAssumption, DrainAssumption DEF StoreAssumption, DrainAssumption
  <2> QED
    BY <2>1, <2>2, <2>4, <2>5 DEF Init, ServerOK
<1>4. JobOK(job) /\ StagedOK(job) /\ ItemOK(job)
  <2>1. "idle" \in Phases \ {"mutate", "hydrate", "reconcile", "settle"}
        /\ {} \in SUBSET EventIds
    BY DEF Phases
  <2> QED
    BY <2>1, IdleJobOK DEF Init
<1> QED
  BY <1>1, <1>2, <1>3, <1>4, StoreAssumption, DrainAssumption
     DEF Init, EngineInv, EngineOK, None, StoreAssumption, DrainAssumption

\* The tables of the store, the job and the server keep their types, and the
\* job's phase agrees with its snapshot.
THEOREM EngineCorrect == Spec => []EngineInv
<1> QED
  BY DrainInit, DrainStep, PTL DEF Spec

\* The type invariant of the run: tables, server, job and counters.
THEOREM DrainTypeCorrect == Spec => []DrainTypeOK
<1>1. EngineInv => DrainTypeOK
  BY DEF EngineInv, EngineOK, ServerOK, JobOK, DrainTypeOK
<1> QED
  BY <1>1, EngineCorrect, PTL

\* GoogleDrain implements OutboxStore: whatever replies, failures, crashes and
\* commands come, every transaction of the engine is one the store offers.
THEOREM EngineRefinesStore == Spec => StoreRefinement
<1> QED
  BY DrainInit, DrainStep, EngineCorrect, PTL DEF Spec, StoreRefinement, StoreSpec

\* So what was proved of the store holds of the engine.
THEOREM EngineNeverDeadlocked == Spec => []NoDependencyDeadlock
  BY EngineRefinesStore, NeverDeadlocked, PTL DEF StoreRefinement

\* completeOutbox and applyRemoteEventInternal as this engine calls them never give
\* one remote id to two events.
THEOREM EngineIdentityCorrect == Spec => []RemoteIdentityUnique
  BY EngineRefinesStore, IdentityCorrect, PTL DEF StoreRefinement

-----------------------------------------------------------------------------
(* One live event at the server for each local one.                        *)
(*                                                                         *)
(* The property speaks of pairs of creates; what keeps it is that every    *)
(* create of an event except one is gone at the server, that an event's    *)
(* remote id is that of a create which is not, and that a row, a snapshot  *)
(* or a conflict "deleted" never speaks of a live event which is not its   *)
(* event's.                                                                *)

\* Short names for what is said most often of a remote event and of a row.
Gone(r) == server[r].state = "gone"
Created(o) == outbox[o].op = "create"
HomeOf(o) == events[outbox[o].event].rid

\* The create that an event's identity does not come from is gone.
CreateAtHome ==
    \A o \in DOMAIN outbox : Created(o) => Gone(o) \/ HomeOf(o) \in {None, o}

\* Of two creates of one event one is gone.
OneCreate ==
    \A o, p \in DOMAIN outbox :
        Created(o) /\ Created(p) /\ outbox[o].event = outbox[p].event /\ o # p
            => Gone(o) \/ Gone(p)

\* Any other row is about its event, or about one that is gone.
RowAtHome ==
    \A o \in DOMAIN outbox :
        ~Created(o) /\ outbox[o].rid # None
            => Gone(outbox[o].rid) \/ HomeOf(o) = outbox[o].rid

\* So is its copy in the snapshot.
SnapAtHome ==
    \A o \in DOMAIN job.snap :
        /\ o < nextOp
        /\ o \in DOMAIN outbox =>
            /\ job.snap[o].event = outbox[o].event
            /\ job.snap[o].op = "create" <=> Created(o)
            /\ job.snap[o].op # "create" /\ job.snap[o].rid # None
                    => Gone(job.snap[o].rid) \/ HomeOf(o) = job.snap[o].rid

\* A conflict "deleted" is about an event that is gone.
ConflictGone ==
    \A e \in DOMAIN conflicts :
        conflicts[e].rev = None => events[e].rid # None /\ Gone(events[e].rid)

\* An event's identity is one the server has published.
IdentityKnown ==
    \A e \in DOMAIN events :
        events[e].rid # None => server[events[e].rid].state # "never"

\* A staged deletion is one; the event looked for after 409 is a created one.
JobKnows ==
    /\ \A r \in DOMAIN job.todo :
        server[r].state # "never" /\ (job.todo[r].state = "gone" => Gone(r))
    /\ job.phase = "reconcile" => job.snap[job.item].op = "create"

\* The inductive invariant behind NoDuplicateRemote.
HomeInv ==
    /\ CreateAtHome /\ OneCreate /\ RowAtHome /\ SnapAtHome
    /\ ConflictGone /\ IdentityKnown /\ JobKnows

\* The server's state after a step, under an id of before or after.
GoneAfter(r) == server'[r].state = "gone"

\* The server forgets neither a publication nor a deletion.
ServerGrows ==
    \A r \in RemoteIds :
        /\ server[r].state # "never" => server'[r].state # "never"
        /\ Gone(r) => GoneAfter(r)

(* What a step of the store may do, so that HomeInv is kept.               *)

\* An event's identity stays, is dropped with an event that is gone, or is
\* given by a create that is not. A new event has one the server knows.
IdentityMoves ==
    \A e \in DOMAIN events' :
        LET new == events'[e].rid IN
        IF e \notin DOMAIN events
        THEN new # None => server[new].state # "never"
        ELSE \/ new = events[e].rid
             \/ new = None /\ Gone(events[e].rid)
             \/ \E o \in DOMAIN outbox :
                    /\ Created(o) /\ outbox[o].event = e /\ ~Gone(o)
                    /\ events[e].rid = None /\ new = o /\ server'[o].state # "never"

\* A row stays a create, or none, of its event; what it names is what it named
\* or the event's identity. A new row is numbered by nextOp, and is a create
\* only for an event without identity whose creates are gone.
RowMoves ==
    \A o \in DOMAIN outbox' :
        LET row == outbox'[o]
            home == events'[row.event].rid
        IN  IF o \in DOMAIN outbox
            THEN /\ row.event = outbox[o].event
                 /\ row.op = "create" <=> Created(o)
                 /\ row.rid = outbox[o].rid \/ row.rid \in {None, home}
            ELSE /\ o = nextOp
                 /\ IF row.op = "create"
                    THEN /\ home = None
                         /\ \A p \in DOMAIN outbox :
                                Created(p) /\ outbox[p].event = row.event => Gone(p)
                    ELSE row.rid \in {None, home}

\* A conflict "deleted" was one before, or its event is gone; its event's
\* identity stays.
ConflictMoves ==
    \A e \in DOMAIN conflicts' :
        conflicts'[e].rev = None =>
            /\ e \in DOMAIN events /\ e \in DOMAIN events'
            /\ events'[e].rid = events[e].rid
            /\ \/ e \in DOMAIN conflicts /\ conflicts[e].rev = None
               \/ events[e].rid # None /\ Gone(events[e].rid)

\* All that a step may do to the tables of the store.
HomesKept ==
    IdentityMoves /\ RowMoves /\ ConflictMoves /\ nextOp' \in {nextOp, nextOp + 1}

\* What a step may do to the job, so that HomeInv is kept.
JobShrinks ==
    /\ \A r \in DOMAIN job'.todo : r \in DOMAIN job.todo /\ job'.todo[r] = job.todo[r]
    /\ \A o \in DOMAIN job'.snap : o \in DOMAIN job.snap /\ job'.snap[o] = job.snap[o]
    /\ job'.phase = "reconcile" => job'.snap[job'.item].op = "create"

\* In a well-typed store the remote ids that rows and events name are ids at
\* the server.
LEMMA HomeTypes ==
    ASSUME StoreAssumption, TypeOK
    PROVE  /\ \A e \in DOMAIN events :
                events[e].rid \in RemoteIds \/ events[e].rid = None
           /\ \A o \in DOMAIN outbox :
                /\ o \in OpIds /\ o \in RemoteIds /\ o # None
                /\ outbox[o].event \in DOMAIN events
                /\ outbox[o].rid \in RemoteIds \/ outbox[o].rid = None
<1>1. \A o \in OpIds : o \in RemoteIds /\ o # None
  BY OpIdsAreRemoteIds DEF OpIds, None
<1> QED
  BY <1>1 DEF TypeOK, EventsOK, OutboxOK, EventRows, OutboxRows

\* Each part of HomeInv after such a step.
LEMMA IdentityKnownKept ==
    ASSUME StoreAssumption, TypeOK, TypeOK', HomeInv, ServerGrows, HomesKept
    PROVE  IdentityKnown'
<1> SUFFICES ASSUME NEW e \in DOMAIN events', events'[e].rid # None
             PROVE  server'[events'[e].rid].state # "never"
  BY DEF IdentityKnown
<1>1. events'[e].rid \in RemoteIds
  BY HomeTypes DEF TypeOK, EventsOK, EventRows
<1>2. CASE e \notin DOMAIN events
  BY <1>1, <1>2 DEF HomesKept, IdentityMoves, ServerGrows
<1>3. CASE e \in DOMAIN events
  BY <1>1, <1>3 DEF HomesKept, IdentityMoves, ServerGrows, HomeInv, IdentityKnown
<1> QED
  BY <1>2, <1>3

\* Each part of HomeInv is kept by such a step: first the conflicts,
LEMMA ConflictGoneKept ==
    ASSUME StoreAssumption, TypeOK, HomeInv, ServerGrows, HomesKept
    PROVE  ConflictGone'
<1> SUFFICES ASSUME NEW e \in DOMAIN conflicts', conflicts'[e].rev = None
             PROVE  events'[e].rid # None /\ GoneAfter(events'[e].rid)
  BY DEF ConflictGone, Gone, GoneAfter
<1>1. /\ e \in DOMAIN events /\ events'[e].rid = events[e].rid
      /\ events[e].rid # None /\ Gone(events[e].rid)
  BY DEF HomesKept, ConflictMoves, HomeInv, ConflictGone
<1> QED
  BY <1>1, HomeTypes DEF ServerGrows

\* What a row that stays knows of its event's identity after the step.
LEMMA HomeMoves ==
    ASSUME StoreAssumption, TypeOK, TypeOK', HomeInv, ServerGrows, HomesKept,
           NEW o \in DOMAIN outbox, outbox[o].event \in DOMAIN events'
    PROVE  LET new == events'[outbox[o].event].rid IN
           \/ new = HomeOf(o)
           \/ new = None /\ GoneAfter(HomeOf(o))
           \/ \E p \in DOMAIN outbox :
                    /\ Created(p) /\ outbox[p].event = outbox[o].event /\ ~Gone(p)
                    /\ HomeOf(o) = None /\ new = p
<1> DEFINE e == outbox[o].event
<1>1. e \in DOMAIN events /\ (events[e].rid \in RemoteIds \/ events[e].rid = None)
  BY HomeTypes
<1>2. \/ events'[e].rid = events[e].rid
      \/ events'[e].rid = None /\ Gone(events[e].rid)
      \/ \E p \in DOMAIN outbox :
            /\ Created(p) /\ outbox[p].event = e /\ ~Gone(p)
            /\ events[e].rid = None /\ events'[e].rid = p
  BY <1>1 DEF HomesKept, IdentityMoves
<1>3. events'[e].rid = None /\ Gone(events[e].rid) /\ events[e].rid # None
        => GoneAfter(events[e].rid)
  BY <1>1 DEF ServerGrows
<1> QED
  BY <1>2, <1>3 DEF HomeOf

\* What a row of the table was before the step.
LEMMA RowBefore ==
    ASSUME StoreAssumption, TypeOK, TypeOK', HomesKept, NEW o \in DOMAIN outbox'
    PROVE  /\ o \in RemoteIds /\ outbox'[o].event \in DOMAIN events'
           /\ o \in DOMAIN outbox =>
                /\ outbox'[o].event = outbox[o].event
                /\ Created(o)' <=> Created(o)
                /\ outbox[o].event \in DOMAIN events'
  BY HomeTypes, OpIdsAreRemoteIds DEF HomesKept, RowMoves, Created, TypeOK, OutboxOK

\* then the creates of an event, one by one,
LEMMA CreateAtHomeKept ==
    ASSUME StoreAssumption, TypeOK, TypeOK', HomeInv, ServerGrows, HomesKept
    PROVE  CreateAtHome'
<1> SUFFICES ASSUME NEW o \in DOMAIN outbox', Created(o)'
             PROVE  GoneAfter(o) \/ HomeOf(o)' \in {None, o}
  BY DEF CreateAtHome, Gone, GoneAfter
<1>1. CASE o \notin DOMAIN outbox
  BY <1>1 DEF HomesKept, RowMoves, Created, HomeOf
<1>2. CASE o \in DOMAIN outbox
  <2>1. /\ Created(o) /\ outbox'[o].event = outbox[o].event
        /\ outbox[o].event \in DOMAIN events' /\ o \in RemoteIds
    BY <1>2, RowBefore
  <2>2. HomeOf(o)' = events'[outbox[o].event].rid
    BY <2>1 DEF HomeOf
  <2>3. Gone(o) \/ HomeOf(o) \in {None, o}
    BY <1>2, <2>1 DEF HomeInv, CreateAtHome
  <2>4. Gone(o) => GoneAfter(o)
    BY <2>1 DEF ServerGrows
  <2>5. ASSUME NEW p \in DOMAIN outbox, Created(p), ~Gone(p),
               outbox[p].event = outbox[o].event
        PROVE  p = o \/ Gone(o)
    BY <1>2, <2>1, <2>5 DEF HomeInv, OneCreate
  <2> QED
    BY <1>2, <2>1, <2>2, <2>3, <2>4, <2>5, HomeMoves
<1> QED
  BY <1>1, <1>2

\* and two by two,
LEMMA OneCreateKept ==
    ASSUME StoreAssumption, TypeOK, TypeOK', HomeInv, ServerGrows, HomesKept
    PROVE  OneCreate'
<1> SUFFICES ASSUME NEW o \in DOMAIN outbox', NEW p \in DOMAIN outbox',
                    Created(o)', Created(p)', outbox'[o].event = outbox'[p].event,
                    o # p
             PROVE  GoneAfter(o) \/ GoneAfter(p)
  BY DEF OneCreate, Gone, GoneAfter
<1>1. ASSUME NEW q \in DOMAIN outbox', q \in DOMAIN outbox, Gone(q)
      PROVE  GoneAfter(q)
  BY <1>1, RowBefore DEF ServerGrows
<1>2. CASE o \in DOMAIN outbox /\ p \in DOMAIN outbox
  <2>1. Created(o) /\ Created(p) /\ outbox[o].event = outbox[p].event
    BY <1>2, RowBefore
  <2> QED
    BY <1>1, <1>2, <2>1 DEF HomeInv, OneCreate
<1>3. ASSUME NEW q \in DOMAIN outbox', NEW n \in DOMAIN outbox', Created(q)', Created(n)',
             outbox'[q].event = outbox'[n].event,
             q \in DOMAIN outbox, n \notin DOMAIN outbox
      PROVE  GoneAfter(q)
  <2>1. Created(q) /\ outbox'[q].event = outbox[q].event
    BY <1>3, RowBefore
  <2> QED
    BY <1>1, <1>3, <2>1 DEF HomesKept, RowMoves, Created
<1>4. CASE o \notin DOMAIN outbox /\ p \notin DOMAIN outbox
  BY <1>4 DEF HomesKept, RowMoves
<1> QED
  BY <1>2, <1>3, <1>4

\* the other rows,
LEMMA RowAtHomeKept ==
    ASSUME StoreAssumption, TypeOK, TypeOK', HomeInv, ServerGrows, HomesKept
    PROVE  RowAtHome'
<1> SUFFICES ASSUME NEW o \in DOMAIN outbox', ~Created(o)', outbox'[o].rid # None
             PROVE  GoneAfter(outbox'[o].rid) \/ HomeOf(o)' = outbox'[o].rid
  BY DEF RowAtHome, Gone, GoneAfter
<1>1. CASE o \notin DOMAIN outbox
  BY <1>1 DEF HomesKept, RowMoves, Created, HomeOf
<1>2. CASE o \in DOMAIN outbox /\ outbox'[o].rid = outbox[o].rid
  <2>1. /\ ~Created(o) /\ outbox'[o].event = outbox[o].event
        /\ outbox[o].event \in DOMAIN events'
    BY <1>2, RowBefore
  <2>2. HomeOf(o)' = events'[outbox[o].event].rid
    BY <2>1 DEF HomeOf
  <2>3. outbox[o].rid \in RemoteIds
    BY <1>2, HomeTypes
  <2>4. Gone(outbox[o].rid) => GoneAfter(outbox[o].rid)
    BY <2>3 DEF ServerGrows
  <2>5. Gone(outbox[o].rid) \/ HomeOf(o) = outbox[o].rid
    BY <1>2, <2>1 DEF HomeInv, RowAtHome
  <2>6. HomeOf(o) = outbox[o].rid => HomeOf(o) # None
    BY <1>2
  <2> QED
    BY <1>2, <2>1, <2>2, <2>4, <2>5, <2>6, HomeMoves
<1>3. CASE o \in DOMAIN outbox /\ outbox'[o].rid # outbox[o].rid
  BY <1>3 DEF HomesKept, RowMoves, HomeOf
<1> QED
  BY <1>1, <1>2, <1>3

\* their copies in the snapshot,
LEMMA SnapAtHomeKept ==
    ASSUME StoreAssumption, TypeOK, TypeOK', JobOK(job), HomeInv, ServerGrows, HomesKept,
           JobShrinks
    PROVE  SnapAtHome'
<1> SUFFICES ASSUME NEW o \in DOMAIN job'.snap
             PROVE  /\ o < nextOp'
                    /\ o \in DOMAIN outbox' =>
                        /\ job'.snap[o].event = outbox'[o].event
                        /\ job'.snap[o].op = "create" <=> Created(o)'
                        /\ job'.snap[o].op # "create" /\ job'.snap[o].rid # None
                            => \/ GoneAfter(job'.snap[o].rid)
                               \/ HomeOf(o)' = job'.snap[o].rid
  BY DEF SnapAtHome, Gone, GoneAfter
<1>1. o \in DOMAIN job.snap /\ job'.snap[o] = job.snap[o] /\ o < nextOp
  BY DEF JobShrinks, HomeInv, SnapAtHome
<1>2. o \in OpIds /\ nextOp \in Nat /\ nextOp' \in {nextOp, nextOp + 1}
  BY <1>1 DEF JobOK, HomesKept, TypeOK, CountersOK
<1>3. o < nextOp'
  BY <1>1, <1>2 DEF OpIds
<1>4. CASE o \in DOMAIN outbox'
  <2>1. o \in DOMAIN outbox
    BY <1>1, <1>2, <1>4 DEF HomesKept, RowMoves, OpIds
  <2>2. /\ outbox'[o].event = outbox[o].event /\ (Created(o)' <=> Created(o))
        /\ outbox[o].event \in DOMAIN events'
    BY <1>4, <2>1, RowBefore
  <2>3. HomeOf(o)' = events'[outbox[o].event].rid
    BY <2>2 DEF HomeOf
  <2>4. /\ job.snap[o].event = outbox[o].event
        /\ job.snap[o].op = "create" <=> Created(o)
        /\ job.snap[o].op # "create" /\ job.snap[o].rid # None
                => Gone(job.snap[o].rid) \/ HomeOf(o) = job.snap[o].rid
    BY <1>1, <2>1 DEF HomeInv, SnapAtHome
  <2>5. job.snap[o].rid \in RemoteIds \/ job.snap[o].rid = None
    BY <1>1 DEF JobOK, OutboxRows
  <2>6. Gone(job.snap[o].rid) /\ job.snap[o].rid # None => GoneAfter(job.snap[o].rid)
    BY <2>5 DEF ServerGrows
  <2>7. ASSUME job.snap[o].op # "create", job.snap[o].rid # None
        PROVE  GoneAfter(job.snap[o].rid) \/ HomeOf(o)' = job.snap[o].rid
    BY <2>1, <2>2, <2>3, <2>4, <2>6, <2>7, HomeMoves
  <2> QED
    BY <1>1, <1>3, <2>2, <2>4, <2>7
<1> QED
  BY <1>3, <1>4

\* and what the job has staged.
LEMMA JobKnowsKept ==
    ASSUME JobOK(job), HomeInv, ServerGrows, JobShrinks
    PROVE  JobKnows'
<1> SUFFICES ASSUME NEW r \in DOMAIN job'.todo
             PROVE  /\ server'[r].state # "never"
                    /\ job'.todo[r].state = "gone" => GoneAfter(r)
  BY DEF JobKnows, JobShrinks, Gone, GoneAfter
<1>1. r \in DOMAIN job.todo /\ job'.todo[r] = job.todo[r] /\ r \in RemoteIds
  BY DEF JobShrinks, JobOK
<1> QED
  BY <1>1 DEF HomeInv, JobKnows, ServerGrows

\* Together: a step that keeps the homes keeps the invariant.
LEMMA HomeInvKept ==
    ASSUME StoreAssumption, TypeOK, TypeOK', JobOK(job), HomeInv, ServerGrows,
           HomesKept, JobShrinks
    PROVE  HomeInv'
  BY IdentityKnownKept, ConflictGoneKept, CreateAtHomeKept, OneCreateKept,
     RowAtHomeKept, SnapAtHomeKept, JobKnowsKept DEF HomeInv

-----------------------------------------------------------------------------
(* What each transaction of the store does to the homes.                   *)

\* A step that writes neither identities nor what rows are about.
LEMMA QuietHomes ==
    ASSUME StoreAssumption, TypeOK, DOMAIN events' = DOMAIN events,
           \A e \in DOMAIN events : events'[e].rid = events[e].rid,
           DOMAIN outbox' = DOMAIN outbox,
           \A o \in DOMAIN outbox :
                /\ outbox'[o].event = outbox[o].event
                /\ outbox'[o].op = outbox[o].op /\ outbox'[o].rid = outbox[o].rid,
           \A e \in DOMAIN conflicts' : e \in DOMAIN conflicts /\ conflicts'[e] = conflicts[e],
           nextOp' = nextOp
    PROVE  HomesKept
<1>1. IdentityMoves
  BY DEF IdentityMoves
<1>2. RowMoves
  BY DEF RowMoves, Created
<1>3. ConflictMoves
  BY DEF ConflictMoves, TypeOK, ConflictsOK
<1> QED
  BY <1>1, <1>2, <1>3 DEF HomesKept

\* DELETE FROM events
LEMMA DeleteEventHomes ==
    ASSUME StoreAssumption, TypeOK, NEW e, DeleteEvent(e), nextOp' = nextOp
    PROVE  HomesKept
<1>1. /\ DOMAIN events' = DOMAIN events \ {e}
      /\ \A f \in DOMAIN events' : events'[f] = events[f]
      /\ DOMAIN outbox' = DOMAIN outbox \ OpsOf(e)
      /\ \A o \in DOMAIN outbox' : outbox'[o] = outbox[o]
      /\ DOMAIN conflicts' = DOMAIN conflicts \ {e}
      /\ \A f \in DOMAIN conflicts' : conflicts'[f] = conflicts[f]
  BY DEF DeleteEvent, Restrict
<1>2. IdentityMoves
  BY <1>1 DEF IdentityMoves
<1>3. RowMoves
  BY <1>1 DEF RowMoves, Created
<1>4. ConflictMoves
  BY <1>1 DEF ConflictMoves, TypeOK, ConflictsOK
<1> QED
  BY <1>2, <1>3, <1>4 DEF HomesKept

\* saveLocalEvent with the identity the store has, as create and update do.
LEMMA SaveLocalEventHomes ==
    ASSUME StoreAssumption, TypeOK, DependencyOrder, NEW e \in EventIds,
           NEW row \in EventRows, NEW op \in Operations, SaveLocalEvent(e, row, op),
           IF e \in DOMAIN events THEN op # "create" /\ row.rid = events[e].rid
                                 ELSE op = "create" /\ row.rid = None
    PROVE  HomesKept
<1>1. ASSUME NEW o \in OpIds, CancelUnsynced(e, o, op) PROVE HomesKept
  BY <1>1, DeleteEventHomes DEF CancelUnsynced
<1>2. ASSUME NEW o \in OpIds, Coalesce(e, o, row, op) PROVE HomesKept
  <2>1. o \in DOMAIN outbox /\ outbox[o].event = e /\ e \in DOMAIN events
    BY <1>2 DEF Coalesce, IsNewest, QueuedOps, OpsOf, TypeOK, OutboxOK
  <2>2. /\ DOMAIN events' = DOMAIN events
        /\ \A f \in DOMAIN events : events'[f].rid = events[f].rid
    BY <1>2, <2>1 DEF Coalesce, Put
  <2>3. /\ DOMAIN outbox' = DOMAIN outbox
        /\ \A p \in DOMAIN outbox \ {o} : outbox'[p] = outbox[p]
        /\ outbox'[o].event = e /\ outbox'[o].rid = row.rid
        /\ outbox'[o].op = IF outbox[o].op = "create" THEN "create" ELSE op
    BY <1>2, <2>1 DEF Coalesce, QueueRow
  <2>4. IdentityMoves
    BY <2>2 DEF IdentityMoves
  <2>5. RowMoves
    BY <2>1, <2>2, <2>3 DEF RowMoves, Created
  <2>6. ConflictMoves
    BY <1>2, <2>2 DEF Coalesce, ConflictMoves, TypeOK, ConflictsOK
  <2> QED
    BY <1>2, <2>4, <2>5, <2>6 DEF Coalesce, HomesKept
<1>3. ASSUME NEW dep, Enqueue(e, dep, row, op) PROVE HomesKept
  <2>1. /\ DOMAIN events' = DOMAIN events \cup {e} /\ events'[e] = row
        /\ \A f \in DOMAIN events \ {e} : events'[f] = events[f]
    BY <1>3 DEF Enqueue, Put
  <2>2. /\ DOMAIN outbox' = DOMAIN outbox \cup {nextOp}
        /\ \A p \in DOMAIN outbox \ {nextOp} : outbox'[p] = outbox[p]
        /\ outbox'[nextOp] = QueueRow(e, op, row, dep)
    BY <1>3 DEF Enqueue, Put
  <2>3. IdentityMoves
    BY <2>1 DEF IdentityMoves
  <2>4. nextOp \notin DOMAIN outbox
    BY DEF DependencyOrder, TypeOK, OutboxOK, CountersOK, OpIds
  <2>5. /\ outbox'[nextOp].event = e /\ outbox'[nextOp].op = op
        /\ outbox'[nextOp].rid = row.rid
    BY <2>2 DEF QueueRow
  <2>6. RowMoves
    BY <2>1, <2>2, <2>4, <2>5 DEF RowMoves, Created, TypeOK, OutboxOK
  <2>7. ConflictMoves
    BY <1>3, <2>1 DEF Enqueue, ConflictMoves, TypeOK, ConflictsOK
  <2> QED
    BY <1>3, <2>3, <2>6, <2>7 DEF Enqueue, HomesKept
<1> QED
  BY <1>1, <1>2, <1>3 DEF SaveLocalEvent

\* Creating, updating and removing an event.
LEMMA UserEditHomes ==
    ASSUME StoreAssumption, TypeOK, DependencyOrder, NEW e \in EventIds,
           NEW c \in Contents, NEW deleted \in BOOLEAN,
           CreateEvent(e, c) \/ UpdateEvent(e, c, deleted) \/ RemoveEvent(e)
    PROVE  HomesKept
<1>1. CASE CreateEvent(e, c)
  <2> DEFINE row == [rid |-> None, etag |-> None, content |-> c, dirty |-> TRUE,
                     deleted |-> FALSE]
  <2>1. row \in EventRows /\ row.rid = None
    BY DEF EventRows
  <2> QED
    BY <1>1, <2>1, SaveLocalEventHomes DEF CreateEvent, Operations
<1>2. CASE UpdateEvent(e, c, deleted)
  <2> DEFINE row == [events[e] EXCEPT !.content = c, !.dirty = TRUE, !.deleted = deleted]
  <2>1. row \in EventRows /\ row.rid = events[e].rid
    BY <1>2 DEF UpdateEvent, EventRows, TypeOK, EventsOK
  <2> QED
    BY <1>2, <2>1, SaveLocalEventHomes DEF UpdateEvent, Operations
<1>3. CASE RemoveEvent(e)
  <2> DEFINE row == [events[e] EXCEPT !.dirty = TRUE, !.deleted = TRUE]
  <2>1. row \in EventRows /\ row.rid = events[e].rid
    BY <1>3 DEF RemoveEvent, EventRows, TypeOK, EventsOK
  <2> QED
    BY <1>3, <2>1, SaveLocalEventHomes DEF RemoveEvent, Operations
<1> QED
  BY <1>1, <1>2, <1>3

\* discardOutbox and updateOutboxState, the deadlines and the recovery.
LEMMA StateHomes ==
    ASSUME StoreAssumption, TypeOK, NEW o, NEW state,
           \/ Discard(o) \/ SetState(o, state) \/ GraceOver(o) \/ BackoffOver(o)
           \/ Recover \/ UNCHANGED storeVars
    PROVE  HomesKept
<1>1. \A p \in DOMAIN outbox : outbox[p] \in OutboxRows /\ outbox[p].event \in DOMAIN events
  BY DEF TypeOK, OutboxOK
<1>2. \A e \in DOMAIN events : events[e] \in EventRows
  BY DEF TypeOK, EventsOK
<1>3. CASE Discard(o)
  <2>1. /\ DOMAIN events' = DOMAIN events
        /\ \A e \in DOMAIN events : events'[e].rid = events[e].rid
    BY <1>1, <1>2, <1>3 DEF Discard, EventRows
  <2>2. /\ DOMAIN outbox' = DOMAIN outbox
        /\ \A p \in DOMAIN outbox :
            /\ outbox'[p].event = outbox[p].event
            /\ outbox'[p].op = outbox[p].op /\ outbox'[p].rid = outbox[p].rid
    BY <1>1, <1>3 DEF Discard, OutboxRows
  <2> QED
    BY <1>3, <2>1, <2>2, QuietHomes DEF Discard
<1>4. CASE SetState(o, state)
  <2>1. /\ DOMAIN outbox' = DOMAIN outbox
        /\ \A p \in DOMAIN outbox :
            /\ outbox'[p].event = outbox[p].event
            /\ outbox'[p].op = outbox[p].op /\ outbox'[p].rid = outbox[p].rid
    BY <1>1, <1>4 DEF SetState, OutboxRows
  <2> QED
    BY <1>4, <2>1, QuietHomes DEF SetState
<1>5. CASE GraceOver(o) \/ BackoffOver(o)
  <2>1. /\ DOMAIN outbox' = DOMAIN outbox
        /\ \A p \in DOMAIN outbox :
            /\ outbox'[p].event = outbox[p].event
            /\ outbox'[p].op = outbox[p].op /\ outbox'[p].rid = outbox[p].rid
    BY <1>1, <1>5 DEF GraceOver, BackoffOver, OutboxRows
  <2> QED
    BY <1>5, <2>1, QuietHomes DEF GraceOver, BackoffOver
<1>6. CASE Recover
  <2>1. /\ DOMAIN outbox' = DOMAIN outbox
        /\ \A p \in DOMAIN outbox :
            /\ outbox'[p].event = outbox[p].event
            /\ outbox'[p].op = outbox[p].op /\ outbox'[p].rid = outbox[p].rid
    BY <1>1, <1>6 DEF Recover, OutboxRows
  <2> QED
    BY <1>6, <2>1, QuietHomes DEF Recover
<1>7. CASE UNCHANGED storeVars
  BY <1>7, QuietHomes DEF storeVars
<1> QED
  BY <1>3, <1>4, <1>5, <1>6, <1>7

\* The rows of an event that are marked done stay what they are.
LEMMA FinishedHomes ==
    ASSUME TypeOK, NEW e
    PROVE  /\ DOMAIN Finished(e) = DOMAIN outbox
           /\ \A o \in DOMAIN outbox :
                /\ Finished(e)[o].event = outbox[o].event
                /\ Finished(e)[o].op = outbox[o].op
                /\ Finished(e)[o].rid = outbox[o].rid
  BY DEF Finished, TypeOK, OutboxOK, OutboxRows

\* resolveConflict, by the user or by the engine.
LEMMA ResolveHomes ==
    ASSUME StoreAssumption, TypeOK, DependencyOrder, HomeInv, NEW e, NEW content, NEW deleted,
           KeepRemote(e) \/ KeepLocal(e, content, deleted)
    PROVE  HomesKept
<1>1. e \in DOMAIN events /\ events[e] \in EventRows /\ e \in DOMAIN conflicts
  BY DEF KeepRemote, KeepLocal, TypeOK, EventsOK, ConflictsOK
<1>2. /\ \A f \in DOMAIN conflicts' : f \in DOMAIN conflicts /\ conflicts'[f] = conflicts[f]
      /\ e \notin DOMAIN conflicts'
  BY DEF KeepRemote, KeepLocal, CloseConflict, Restrict
<1>3. CASE KeepRemote(e)
  <2>1. /\ DOMAIN events' = DOMAIN events
        /\ \A f \in DOMAIN events : events'[f].rid = events[f].rid
    BY <1>1, <1>3 DEF KeepRemote, RemoteSide, EventRows
  <2> QED
    BY <1>2, <1>3, <2>1, FinishedHomes, QuietHomes DEF KeepRemote
<1>4. CASE KeepLocal(e, content, deleted)
  <2> DEFINE gone == conflicts[e].rev = None
             row == [rid |-> IF gone THEN None ELSE events[e].rid,
                     etag |-> conflicts[e].rev, content |-> content,
                     dirty |-> TRUE, deleted |-> deleted]
             op == IF gone THEN "create" ELSE "update"
  <2>1. /\ events' = Put(events, e, row)
        /\ outbox' = Put(Finished(e), nextOp, QueueRow(e, op, row, None))
        /\ nextOp' = nextOp + 1
    BY <1>4 DEF KeepLocal
  <2>2. /\ DOMAIN events' = DOMAIN events /\ events'[e].rid = row.rid
        /\ \A f \in DOMAIN events \ {e} : events'[f] = events[f]
    BY <1>1, <2>1 DEF Put
  <2>3. nextOp \notin DOMAIN outbox
    BY DEF DependencyOrder, TypeOK, OutboxOK, CountersOK, OpIds
  <2>4. /\ DOMAIN outbox' = DOMAIN outbox \cup {nextOp}
        /\ \A p \in DOMAIN outbox : outbox'[p] = Finished(e)[p]
        /\ outbox'[nextOp] = QueueRow(e, op, row, None)
    BY <2>1, <2>3, FinishedHomes DEF Put
  <2>5. /\ outbox'[nextOp].event = e /\ outbox'[nextOp].op = op
        /\ outbox'[nextOp].rid = row.rid
    BY <2>4 DEF QueueRow
  <2>6. gone => events[e].rid # None /\ Gone(events[e].rid)
    BY <1>1 DEF HomeInv, ConflictGone
  <2>7. gone => \A p \in DOMAIN outbox : Created(p) /\ outbox[p].event = e => Gone(p)
    BY <2>6 DEF HomeInv, CreateAtHome, HomeOf
  <2>8. IdentityMoves
    BY <2>2, <2>6 DEF IdentityMoves
  <2>9. RowMoves
    <3>1. ASSUME NEW p \in DOMAIN outbox
          PROVE  /\ outbox'[p].event = outbox[p].event
                 /\ outbox'[p].op = outbox[p].op /\ outbox'[p].rid = outbox[p].rid
      BY <2>4, FinishedHomes
    <3>2. gone => op = "create" /\ row.rid = None
      OBVIOUS
    <3>3. ~gone => op = "update"
      OBVIOUS
    <3> HIDE DEF op, row, gone
    <3> QED
      BY <2>2, <2>3, <2>4, <2>5, <2>7, <3>1, <3>2, <3>3 DEF RowMoves, Created
  <2>10. ConflictMoves
    BY <1>2, <2>2 DEF ConflictMoves, TypeOK, ConflictsOK
  <2> QED
    BY <2>1, <2>8, <2>9, <2>10 DEF HomesKept
<1> QED
  BY <1>3, <1>4

\* Applying an event that the server has published.
LEMMA ApplyRemoteHomes ==
    ASSUME StoreAssumption, TypeOK, NEW r \in RemoteIds, NEW etag, NEW c,
           etag # None, server[r].state # "never", ApplyRemote(r, etag, c)
    PROVE  HomesKept
<1>1. \A e \in DOMAIN events : events[e] \in EventRows
  BY DEF TypeOK, EventsOK
<1>2. RowMoves /\ nextOp' = nextOp
  <2>1. outbox' = outbox /\ nextOp' = nextOp
    BY DEF ApplyRemote
  <2> QED
    BY <2>1 DEF RowMoves, Created
<1>3. CASE \E e \in EventIds :
            /\ RowsWith(r) = {} /\ e \notin DOMAIN events
            /\ events' = Put(events, e, [rid |-> r, etag |-> etag, content |-> c,
                                         dirty |-> FALSE, deleted |-> FALSE])
            /\ UNCHANGED conflicts
  <2>1. PICK e \in EventIds :
            /\ e \notin DOMAIN events
            /\ events' = Put(events, e, [rid |-> r, etag |-> etag, content |-> c,
                                         dirty |-> FALSE, deleted |-> FALSE])
            /\ UNCHANGED conflicts
    BY <1>3
  <2>2. /\ DOMAIN events' = DOMAIN events \cup {e} /\ events'[e].rid = r
        /\ \A f \in DOMAIN events : events'[f] = events[f]
    BY <2>1 DEF Put
  <2>3. IdentityMoves
    BY <2>2 DEF IdentityMoves
  <2>4. ConflictMoves
    BY <2>1, <2>2 DEF ConflictMoves, TypeOK, ConflictsOK
  <2> QED
    BY <1>2, <2>3, <2>4 DEF HomesKept
<1>4. CASE \E e \in RowsWith(r) :
            /\ ~events[e].dirty
            /\ events' = [events EXCEPT ![e].etag = etag, ![e].content = c,
                                        ![e].deleted = FALSE]
            /\ UNCHANGED conflicts
  <2>1. /\ DOMAIN events' = DOMAIN events
        /\ \A f \in DOMAIN events : events'[f].rid = events[f].rid
    BY <1>1, <1>4 DEF EventRows
  <2>2. IdentityMoves
    BY <2>1 DEF IdentityMoves
  <2>3. ConflictMoves
    BY <1>4, <2>1 DEF ConflictMoves, TypeOK, ConflictsOK
  <2> QED
    BY <1>2, <2>2, <2>3 DEF HomesKept
<1>5. CASE \E e \in RowsWith(r) :
            /\ events[e].dirty
            /\ IF etag # events[e].etag
               THEN \E newer \in Sides : RecordConflict(e, etag, c, newer)
               ELSE UNCHANGED conflicts
            /\ UNCHANGED events
  <2>1. UNCHANGED events
    BY <1>5
  <2>2. \A e \in DOMAIN conflicts' : conflicts'[e].rev = None =>
            e \in DOMAIN conflicts /\ conflicts[e].rev = None
    BY <1>5 DEF RecordConflict, Put
  <2>3. IdentityMoves
    BY <2>1 DEF IdentityMoves
  <2>4. ConflictMoves
    BY <2>1, <2>2 DEF ConflictMoves, TypeOK, ConflictsOK
  <2> QED
    BY <1>2, <2>3, <2>4 DEF HomesKept
<1> QED
  BY <1>3, <1>4, <1>5 DEF ApplyRemote

\* Applying a deletion that the server has made, or that no event is about.
LEMMA RemoveRemoteHomes ==
    ASSUME StoreAssumption, TypeOK, NEW r \in RemoteIds,
           Gone(r) \/ RowsWith(r) = {}, RemoveRemote(r)
    PROVE  HomesKept
<1>1. CASE UNCHANGED <<events, outbox, conflicts>>
  BY <1>1, QuietHomes DEF RemoveRemote
<1>2. CASE \E e \in RowsWith(r) : DeleteEvent(e)
  BY <1>2, DeleteEventHomes DEF RemoveRemote
<1>3. CASE \E e \in RowsWith(r) :
            /\ events[e].dirty
            /\ RecordConflict(e, None, events[e].content, "unknown")
            /\ UNCHANGED <<events, outbox>>
  <2>1. PICK e \in RowsWith(r) :
            /\ RecordConflict(e, None, events[e].content, "unknown")
            /\ UNCHANGED <<events, outbox>>
    BY <1>3
  <2>2. e \in DOMAIN events /\ events[e].rid = r /\ r # None /\ Gone(r)
    BY <2>1 DEF RowsWith, RemoteIds, None
  <2>3. IdentityMoves /\ RowMoves
    BY <2>1 DEF IdentityMoves, RowMoves, Created
  <2>4. DOMAIN conflicts' = DOMAIN conflicts \cup {e}
        /\ \A f \in DOMAIN conflicts \ {e} : conflicts'[f] = conflicts[f]
    BY <2>1 DEF RecordConflict, Put
  <2>5. ConflictMoves
    BY <2>1, <2>2, <2>4 DEF ConflictMoves, TypeOK, ConflictsOK
  <2> QED
    BY <2>3, <2>5 DEF HomesKept, RemoveRemote
<1> QED
  BY <1>1, <1>2, <1>3 DEF RemoveRemote

\* The acknowledgement of a removal.
LEMMA AcknowledgeRemovalHomes ==
    ASSUME StoreAssumption, TypeOK, NEW o, AcknowledgeRemoval(o)
    PROVE  HomesKept
<1>1. o \in DOMAIN outbox /\ outbox[o] \in OutboxRows /\ outbox[o].event \in DOMAIN events
      /\ nextOp' = nextOp
  BY DEF AcknowledgeRemoval, TypeOK, OutboxOK
<1>2. \A p \in DOMAIN outbox : outbox[p] \in OutboxRows
  BY DEF TypeOK, OutboxOK
<1>3. \A e \in DOMAIN events : events[e] \in EventRows
  BY DEF TypeOK, EventsOK
<1>4. CASE Purges(o)
  BY <1>1, <1>4, DeleteEventHomes DEF AcknowledgeRemoval
<1>5. CASE ~Purges(o)
  <2>1. outbox' = [outbox EXCEPT ![o].state = "done"] /\ UNCHANGED conflicts
    BY <1>5 DEF AcknowledgeRemoval
  <2>2. \/ events' = [events EXCEPT ![outbox[o].event].dirty = FALSE]
        \/ events' = events
    BY <1>5 DEF AcknowledgeRemoval
  <2>3. /\ DOMAIN events' = DOMAIN events
        /\ \A e \in DOMAIN events : events'[e].rid = events[e].rid
    BY <1>3, <2>2 DEF EventRows
  <2>4. /\ DOMAIN outbox' = DOMAIN outbox
        /\ \A p \in DOMAIN outbox :
            /\ outbox'[p].event = outbox[p].event
            /\ outbox'[p].op = outbox[p].op /\ outbox'[p].rid = outbox[p].rid
    BY <1>2, <2>1 DEF OutboxRows
  <2> QED
    BY <1>1, <2>1, <2>3, <2>4, QuietHomes
<1> QED
  BY <1>4, <1>5

\* The acknowledgement of a create or an update, under the identity the event
\* has or by the create that gives it one.
LEMMA AcknowledgeHomes ==
    ASSUME StoreAssumption, TypeOK, HomeInv, NEW o, NEW v, Acknowledge(o, v),
           \/ v.rid = HomeOf(o)
           \/ v.rid = o /\ Created(o) /\ ~Gone(o) /\ server'[o].state # "never"
    PROVE  HomesKept
<1> DEFINE e == outbox[o].event
<1>1. o \in DOMAIN outbox /\ outbox[o] \in OutboxRows /\ e \in DOMAIN events
      /\ nextOp' = nextOp
  BY DEF Acknowledge, TypeOK, OutboxOK
<1>2. \A p \in DOMAIN outbox : outbox[p] \in OutboxRows
  BY DEF TypeOK, OutboxOK
<1>3. \A f \in DOMAIN events : events[f] \in EventRows
  BY DEF TypeOK, EventsOK
<1>4. CASE Purges(o)
  BY <1>1, <1>4, DeleteEventHomes DEF Acknowledge
<1>5. CASE ~Purges(o)
  <2>1. /\ DOMAIN events' = DOMAIN events /\ events'[e].rid = v.rid
        /\ \A f \in DOMAIN events \ {e} : events'[f] = events[f]
    <3> DEFINE row == IF LaterOps(o) # {}
                      THEN [events[e] EXCEPT !.rid = v.rid, !.etag = v.etag,
                                             !.dirty = TRUE]
                      ELSE [rid |-> v.rid, etag |-> v.etag, content |-> v.content,
                            dirty |-> FALSE, deleted |-> FALSE]
    <3>1. row.rid = v.rid
      BY <1>1, <1>3 DEF EventRows
    <3>2. events' = [events EXCEPT ![e] = row]
      BY <1>5 DEF Acknowledge
    <3> HIDE DEF row
    <3> QED
      BY <1>1, <3>1, <3>2
  <2>2. /\ DOMAIN outbox' = DOMAIN outbox
        /\ \A p \in DOMAIN outbox :
            /\ outbox'[p].event = outbox[p].event
            /\ outbox'[p].op = outbox[p].op /\ outbox'[p].rid = outbox[p].rid
    BY <1>2, <1>5 DEF Acknowledge, OutboxRows
  <2>3. IdentityMoves
    <3>1. CASE v.rid = HomeOf(o)
      BY <2>1, <3>1 DEF IdentityMoves, HomeOf
    <3>2. CASE v.rid = o /\ Created(o) /\ ~Gone(o) /\ server'[o].state # "never"
      <4>1. HomeOf(o) = None \/ HomeOf(o) = o
        BY <1>1, <3>2 DEF HomeInv, CreateAtHome
      <4> QED
        BY <1>1, <2>1, <3>2, <4>1 DEF IdentityMoves, HomeOf
    <3> QED
      BY <3>1, <3>2
  <2>4. RowMoves
    BY <2>2 DEF RowMoves, Created
  <2>5. ConflictMoves
    <3>1. UNCHANGED conflicts
      BY <1>5 DEF Acknowledge
    <3>2. ASSUME NEW f \in DOMAIN conflicts, conflicts[f].rev = None
          PROVE  events'[f].rid = events[f].rid
      <4>1. f \in DOMAIN events /\ events[f].rid # None /\ Gone(events[f].rid)
        BY <3>2 DEF HomeInv, ConflictGone, TypeOK, ConflictsOK
      <4>2. CASE f # e
        BY <2>1, <4>1, <4>2
      <4>3. CASE f = e /\ v.rid = HomeOf(o)
        BY <2>1, <4>3 DEF HomeOf
      <4>4. CASE f = e /\ v.rid = o /\ Created(o) /\ ~Gone(o)
        BY <1>1, <2>1, <4>1, <4>4 DEF HomeInv, CreateAtHome, HomeOf
      <4> QED
        BY <4>2, <4>3, <4>4
    <3> QED
      BY <2>1, <3>1, <3>2 DEF ConflictMoves, TypeOK, ConflictsOK
  <2> QED
    BY <1>1, <2>3, <2>4, <2>5 DEF HomesKept
<1> QED
  BY <1>4, <1>5

-----------------------------------------------------------------------------
(* What each step of the engine does to the server and to the job.         *)

\* A version published under an id that is not gone.
LEMMA PublishGrows ==
    ASSUME ServerOK, NEW r \in RemoteIds, NEW state \in {"live", "gone"}, NEW c,
           Publish(r, state, c), ~Gone(r)
    PROVE  ServerGrows /\ server'[r].state # "never"
<1>1. /\ \A q \in RemoteIds \ {r} : server'[q] = server[q]
      /\ server'[r].state = state
  BY DEF Publish, ServerOK
<1> QED
  BY <1>1 DEF ServerGrows, Gone, GoneAfter

\* An accepted mutation is published under its target, which is not gone.
LEMMA AcceptedGrows ==
    ASSUME StoreAssumption, EngineInv, Mutating,
           Accepts(job.item, Sent), ServerApplies(job.item, Sent)
    PROVE  /\ ServerGrows
           /\ Target(job.item, Sent) \in RemoteIds
           /\ ~Gone(Target(job.item, Sent))
           /\ server'[Target(job.item, Sent)].state # "never"
<1>1. job.item \in OpIds
  BY DEF EngineInv, EngineOK, ItemOK, JobOK, Mutating
<1>2. Target(job.item, Sent) \in RemoteIds /\ ~Gone(Target(job.item, Sent))
  BY <1>1, OpIdsAreRemoteIds DEF Target, Accepts, IsLive, Gone
<1> DEFINE state == IF Sent.op = "remove" \/ Sent.deleted THEN "gone" ELSE "live"
<1>3. Publish(Target(job.item, Sent), state, Sent.content)
  BY DEF ServerApplies
<1>4. state \in {"live", "gone"}
  OBVIOUS
<1> HIDE DEF state
<1> QED
  BY <1>2, <1>3, <1>4, PublishGrows DEF EngineInv, EngineOK

\* What is not live is gone, or no event is about it.
LEMMA NotLiveIsGone ==
    ASSUME EngineInv, HomeInv, NEW r \in RemoteIds, ~IsLive(r)
    PROVE  Gone(r) \/ RowsWith(r) = {}
<1>1. server[r].state \in {"never", "gone"}
  BY DEF EngineInv, EngineOK, ServerOK, Resources, IsLive
<1>2. server[r].state = "never" => RowsWith(r) = {}
  BY DEF HomeInv, IdentityKnown, RowsWith, RemoteIds, None
<1> QED
  BY <1>1, <1>2 DEF Gone

\* The job goes on with the next row, or ends.
LEMMA RowEndShrinks ==
    ASSUME JobOK(job), Finish \/ NextItem
    PROVE  JobShrinks
<1>1. CASE Finish
  <2>1. DOMAIN Empty = {}
    BY DEF Empty
  <2>2. job'.todo = Empty /\ job'.snap = Empty /\ job'.phase = "idle"
    BY <1>1 DEF Finish, IdleJob
  <2> QED
    BY <2>1, <2>2 DEF JobShrinks
<1>2. CASE NextItem
  <2> DEFINE rest == Restrict(job.snap, DOMAIN job.snap \ {job.item})
  <2>1. /\ DOMAIN rest \subseteq DOMAIN job.snap
        /\ \A o \in DOMAIN rest : rest[o] = job.snap[o]
    BY DEF Restrict
  <2>2. job' = [job EXCEPT !.phase = "dispatch", !.item = None, !.snap = rest]
    BY <1>2 DEF NextItem
  <2> HIDE DEF rest
  <2>3. job'.phase = "dispatch" /\ job'.todo = job.todo /\ job'.snap = rest
    BY <2>2 DEF JobOK
  <2> QED
    BY <2>1, <2>3 DEF JobShrinks
<1> QED
  BY <1>1, <1>2

\* The job enters another phase; only a create is reconciled.
LEMMA GotoShrinks ==
    ASSUME JobOK(job), NEW phase, Goto(phase), phase = "reconcile" => Sent.op = "create"
    PROVE  JobShrinks
<1>1. job'.phase = phase /\ job'.todo = job.todo /\ job'.snap = job.snap /\ job'.item = job.item
  BY DEF Goto, JobOK
<1> QED
  BY <1>1 DEF JobShrinks, Sent

\* A step that leaves server and job alone.
LEMMA OthersKept ==
    ASSUME HomeInv
    PROVE  (UNCHANGED server => ServerGrows) /\ (UNCHANGED job => JobShrinks)
  BY DEF ServerGrows, JobShrinks, HomeInv, JobKnows, Gone, GoneAfter

-----------------------------------------------------------------------------
(* Every step of the engine keeps HomeInv.                                 *)

\* The pull: what is staged is what the server says, and a staged deletion
\* stays one until it is applied.
LEMMA PullHomes ==
    ASSUME EngineInv, TypeOK', HomeInv, Pull
    PROVE  HomeInv'
<1> USE StoreAssumption DEF EngineInv, EngineOK
<1>1. UNCHANGED server /\ ServerGrows
  BY OthersKept DEF Pull, ListReply, ApplyChunk, ApplyNothing, remoteVars
<1>2. CASE ListReply
  <2> DEFINE listed == [r \in {r \in RemoteIds : Changed(r)} |-> server[r]]
  <2>1. job' = [job EXCEPT !.phase = "apply", !.cursor = clock, !.todo = listed]
    BY <1>2 DEF ListReply
  <2>2. \A r \in DOMAIN listed :
            server[r].state # "never" /\ (listed[r].state = "gone" => Gone(r))
    BY DEF Changed, Gone
  <2> HIDE DEF listed
  <2>3. job'.phase = "apply" /\ job'.todo = listed /\ job'.snap = job.snap
    BY <2>1 DEF JobOK
  <2>4. JobKnows'
    BY <1>1, <2>2, <2>3 DEF JobKnows, Gone
  <2>5. UNCHANGED storeVars
    BY <1>2 DEF ListReply
  <2>6. HomesKept
    BY <2>5, StateHomes
  <2>7. SnapAtHome'
    BY <1>1, <2>3, <2>5 DEF HomeInv, SnapAtHome, storeVars, Created, Gone, HomeOf
  <2> QED
    BY <1>1, <2>4, <2>6, <2>7, IdentityKnownKept, ConflictGoneKept, CreateAtHomeKept,
       OneCreateKept, RowAtHomeKept DEF HomeInv
<1>3. ASSUME NEW r \in RemoteIds, ApplyChunk(r)
      PROVE  HomeInv'
  <2> DEFINE rest == Restrict(job.todo, DOMAIN job.todo \ {r})
             phase == IF DOMAIN job.todo = {r} THEN "drain" ELSE "apply"
  <2>1. /\ job.todo[r] \in Resources /\ job.todo[r].state # "never"
        /\ job.todo[r].etag # None /\ server[r].state # "never"
        /\ job.todo[r].state = "gone" => Gone(r)
    BY <1>3 DEF ApplyChunk, JobOK, StagedOK, HomeInv, JobKnows
  <2>2. job.todo[r].state # "live" => job.todo[r].state = "gone"
    BY <2>1 DEF Resources
  <2>3. HomesKept
    BY <1>3, <2>1, <2>2, ApplyRemoteHomes, RemoveRemoteHomes DEF ApplyChunk
  <2>4. job' = [job EXCEPT !.todo = rest, !.phase = phase]
    BY <1>3 DEF ApplyChunk
  <2>5. DOMAIN rest \subseteq DOMAIN job.todo /\ \A q \in DOMAIN rest : rest[q] = job.todo[q]
    BY DEF Restrict
  <2>6. phase # "reconcile"
    OBVIOUS
  <2> HIDE DEF rest, phase
  <2>7. job'.phase = phase /\ job'.todo = rest /\ job'.snap = job.snap
    BY <2>4 DEF JobOK
  <2>8. JobShrinks
    BY <2>5, <2>6, <2>7 DEF JobShrinks
  <2> QED
    BY <1>1, <2>3, <2>8, HomeInvKept
<1>4. CASE ApplyNothing
  <2>1. JobShrinks
    BY <1>4, GotoShrinks DEF ApplyNothing
  <2>2. HomesKept
    BY <1>4, StateHomes DEF ApplyNothing
  <2> QED
    BY <1>1, <2>1, <2>2, HomeInvKept
<1> QED
  BY <1>2, <1>3, <1>4 DEF Pull

\* The snapshot says of each row what the row says; dispatching a row leaves
\* what it is about alone.
LEMMA DispatchHomes ==
    ASSUME EngineInv, TypeOK', DependencyOrder, HomeInv, Dispatch
    PROVE  HomeInv'
<1> USE StoreAssumption DEF EngineInv, EngineOK
<1>1. UNCHANGED server /\ ServerGrows
  BY OthersKept DEF Dispatch, DrainOutbox, DispatchDone, CompleteLocally,
                    DispatchNext, DispatchMissing, remoteVars
<1>2. CASE DrainOutbox
  <2> DEFINE ready == [o \in {o \in OpIds : Ready(o)} |-> outbox[o]]
  <2>1. job' = [job EXCEPT !.phase = "dispatch", !.snap = ready]
    BY <1>2 DEF DrainOutbox
  <2>2. \A o \in DOMAIN ready : o \in DOMAIN outbox /\ ready[o] = outbox[o]
    BY DEF Ready
  <2> HIDE DEF ready
  <2>3. job'.phase = "dispatch" /\ job'.todo = job.todo /\ job'.snap = ready
    BY <2>1 DEF JobOK
  <2>4. UNCHANGED storeVars
    BY <1>2 DEF DrainOutbox
  <2>5. HomesKept
    BY <2>4, StateHomes
  <2>6. SnapAtHome'
    <3>1. SnapAtHome' <=>
            \A o \in DOMAIN ready :
                /\ o < nextOp
                /\ o \in DOMAIN outbox =>
                    /\ ready[o].event = outbox[o].event
                    /\ ready[o].op = "create" <=> Created(o)
                    /\ ready[o].op # "create" /\ ready[o].rid # None
                            => Gone(ready[o].rid) \/ HomeOf(o) = ready[o].rid
      BY <1>1, <2>3, <2>4 DEF SnapAtHome, storeVars, Created, Gone, HomeOf
    <3> QED
      BY <2>2, <3>1 DEF DependencyOrder, HomeInv, RowAtHome, Created
  <2>7. JobKnows'
    BY <1>1, <2>3 DEF HomeInv, JobKnows, Gone
  <2> QED
    BY <1>1, <2>5, <2>6, <2>7, IdentityKnownKept, ConflictGoneKept, CreateAtHomeKept,
       OneCreateKept, RowAtHomeKept DEF HomeInv
<1>3. CASE DispatchDone
  <2>1. job' = [IdleJob EXCEPT !.phase = "resolve", !.open = DOMAIN conflicts]
    BY <1>3 DEF DispatchDone
  <2>2. DOMAIN Empty = {}
    BY DEF Empty
  <2>3. job'.todo = Empty /\ job'.snap = Empty /\ job'.phase = "resolve"
    BY <2>1 DEF IdleJob
  <2>4. JobShrinks
    BY <2>2, <2>3 DEF JobShrinks
  <2>5. HomesKept
    BY <1>3, StateHomes DEF DispatchDone
  <2> QED
    BY <1>1, <2>4, <2>5, HomeInvKept
<1>4. CASE CompleteLocally
  BY <1>1, <1>4, AcknowledgeRemovalHomes, RowEndShrinks, HomeInvKept DEF CompleteLocally
<1>5. ASSUME NEW o \in OpIds, DispatchNext(o)
      PROVE  HomeInv'
  <2> DEFINE phase == IF job.snap[o].op = "remove" /\ job.snap[o].rid = None
                      THEN "complete" ELSE "mutate"
  <2>1. job' = [job EXCEPT !.item = o, !.phase = phase]
    BY <1>5 DEF DispatchNext
  <2>2. phase # "reconcile"
    OBVIOUS
  <2> HIDE DEF phase
  <2>3. job'.phase = phase /\ job'.todo = job.todo /\ job'.snap = job.snap
    BY <2>1 DEF JobOK
  <2>4. JobShrinks
    BY <2>2, <2>3 DEF JobShrinks
  <2>5. HomesKept
    BY <1>5, StateHomes DEF DispatchNext
  <2> QED
    BY <1>1, <2>4, <2>5, HomeInvKept
<1>6. ASSUME NEW o \in OpIds, DispatchMissing(o)
      PROVE  HomeInv'
  <2>1. HomesKept
    BY <1>6, StateHomes DEF DispatchMissing
  <2> QED
    BY <1>1, <1>6, <2>1, RowEndShrinks, HomeInvKept DEF DispatchMissing
<1> QED
  BY <1>2, <1>3, <1>4, <1>5, <1>6 DEF Dispatch

\* A completion of the row, or its next state: what the row is about stays.
LEMMA SettleHomes ==
    ASSUME EngineInv,
           CompleteRemoval \/ \E state : Settle(state)
    PROVE  HomesKept /\ JobShrinks
<1> USE StoreAssumption DEF EngineInv, EngineOK
<1>1. CASE CompleteRemoval
  BY <1>1, AcknowledgeRemovalHomes, StateHomes, RowEndShrinks DEF CompleteRemoval
<1>2. CASE \E state : Settle(state)
  BY <1>2, StateHomes, RowEndShrinks DEF Settle
<1> QED
  BY <1>1, <1>2

\* The event a create or an update leaves at the server is the event's own.
LEMMA CompleteHomes ==
    ASSUME EngineInv, HomeInv, job.item \in DOMAIN job.snap, NEW v, Complete(v),
           ~Gone(v.rid), server'[v.rid].state # "never",
           v.rid = IF Sent.op = "create" THEN job.item ELSE Sent.rid,
           v.rid \in RemoteIds
    PROVE  HomesKept /\ JobShrinks
<1> USE StoreAssumption DEF EngineInv, EngineOK
<1>1. CASE UNCHANGED storeVars /\ Finish
  BY <1>1, StateHomes, RowEndShrinks
<1>2. CASE Acknowledge(job.item, v) /\ NextItem
  <2>1. job.item \in DOMAIN outbox
    BY <1>2 DEF Acknowledge
  <2>2. /\ Sent.op = "create" <=> Created(job.item)
        /\ Sent.op # "create" /\ Sent.rid # None
                => Gone(Sent.rid) \/ HomeOf(job.item) = Sent.rid
    BY <2>1 DEF HomeInv, SnapAtHome, Sent
  <2>3. v.rid # None
    BY DEF RemoteIds, None
  <2>4. \/ v.rid = HomeOf(job.item)
        \/ /\ v.rid = job.item /\ Created(job.item) /\ ~Gone(job.item)
           /\ server'[job.item].state # "never"
    BY <2>2, <2>3
  <2> QED
    BY <1>2, <2>4, AcknowledgeHomes, RowEndShrinks
<1> QED
  BY <1>1, <1>2 DEF Complete

\* What handleMutationResult makes of each reply.
LEMMA MutationHomes ==
    ASSUME EngineInv, TypeOK', HomeInv, MutationResult
    PROVE  HomeInv'
<1> USE StoreAssumption DEF EngineInv, EngineOK
<1> SUFFICES ServerGrows /\ HomesKept /\ JobShrinks
  BY HomeInvKept
<1>1. CASE MutationAccepted
  <2>1. /\ ServerGrows /\ Target(job.item, Sent) \in RemoteIds
        /\ ~Gone(Target(job.item, Sent))
        /\ server'[Target(job.item, Sent)].state # "never"
    BY <1>1, AcceptedGrows DEF MutationAccepted
  <2>2. job.item \in DOMAIN job.snap
    BY <1>1 DEF MutationAccepted, Mutating, ItemOK
  <2> DEFINE v == [rid |-> Target(job.item, Sent), etag |-> clock + 1,
                   content |-> Sent.content]
  <2>3. v.rid = Target(job.item, Sent)
    OBVIOUS
  <2>4. CompleteRemoval \/ Complete(v)
    BY <1>1 DEF MutationAccepted
  <2> HIDE DEF v
  <2>5. HomesKept /\ JobShrinks
    BY <2>1, <2>2, <2>3, <2>4, SettleHomes, CompleteHomes DEF Target
  <2> QED
    BY <2>1, <2>5
<1>2. ServerGrows \/ MutationAccepted
  BY OthersKept DEF MutationResult, RemovalAlreadyDone, UpdateTargetGone,
         Refused, Hydrate, BlockRow, Reconcile, TokenRefreshed, ReconcilePending, remoteVars
<1>3. CASE RemovalAlreadyDone
  BY <1>1, <1>2, <1>3, SettleHomes DEF RemovalAlreadyDone
<1>4. CASE BlockRow \/ \E state \in {"retry_wait", "blocked"} : ReconcilePending(state)
  BY <1>1, <1>2, <1>4, SettleHomes DEF BlockRow, ReconcilePending
<1>5. CASE UpdateTargetGone
  <2>1. Sent.rid \in RemoteIds \/ Sent.rid = None
    BY <1>5 DEF UpdateTargetGone, Mutating, ItemOK, JobOK, Sent, OutboxRows
  <2>2. HomesKept
    BY <1>5, <2>1, NotLiveIsGone, RemoveRemoteHomes, StateHomes DEF UpdateTargetGone
  <2>3. JobShrinks
    BY <1>5, GotoShrinks DEF UpdateTargetGone
  <2> QED
    BY <1>1, <1>2, <2>2, <2>3
<1>6. CASE Refused
  <2>1. HomesKept
    BY <1>6, StateHomes DEF Refused
  <2>2. JobShrinks
    BY <1>6, GotoShrinks DEF Refused
  <2> QED
    BY <1>1, <1>2, <2>1, <2>2
<1>7. CASE Hydrate
  <2>1. Sent.rid \in RemoteIds
    BY <1>7 DEF Hydrate, ItemOK, Sent
  <2>2. IsLive(Sent.rid) => /\ server[Sent.rid].etag # None
                            /\ server[Sent.rid].state # "never"
    BY <2>1 DEF IsLive, ServerOK
  <2>3. HomesKept
    BY <1>7, <2>1, <2>2, NotLiveIsGone, ApplyRemoteHomes, RemoveRemoteHomes DEF Hydrate
  <2>4. JobShrinks
    BY <1>7, GotoShrinks DEF Hydrate
  <2> QED
    BY <1>1, <1>2, <2>3, <2>4
<1>8. CASE Reconcile
  <2> DEFINE v == [rid |-> job.item, etag |-> server[job.item].etag,
                   content |-> server[job.item].content]
  <2>1. /\ job.item \in DOMAIN job.snap /\ Sent.op = "create"
        /\ job.item \in RemoteIds /\ ~Gone(job.item) /\ server'[job.item].state # "never"
    BY <1>8 DEF Reconcile, ItemOK, HomeInv, JobKnows, Sent, IsLive, Gone, remoteVars
  <2>2. v.rid = job.item
    OBVIOUS
  <2>3. Complete(v)
    BY <1>8 DEF Reconcile
  <2> HIDE DEF v
  <2>4. HomesKept /\ JobShrinks
    BY <2>1, <2>2, <2>3, CompleteHomes
  <2> QED
    BY <1>1, <1>2, <2>4
<1>9. CASE TokenRefreshed
  <2>1. HomesKept
    BY <1>9, StateHomes DEF TokenRefreshed
  <2>2. JobShrinks
    BY <1>9, GotoShrinks DEF TokenRefreshed
  <2> QED
    BY <1>1, <1>2, <2>1, <2>2
<1> QED
  BY <1>1, <1>3, <1>4, <1>5, <1>6, <1>7, <1>8, <1>9 DEF MutationResult

\* resolveNewestConflicts after a job.
LEMMA ResolutionHomes ==
    ASSUME EngineInv, TypeOK', DependencyOrder, HomeInv, Resolution
    PROVE  HomeInv'
<1> USE StoreAssumption DEF EngineInv, EngineOK
<1>1. ServerGrows
  BY OthersKept DEF Resolution, ResolveNewest, ResolveDone, remoteVars
<1>2. ASSUME NEW e \in EventIds, ResolveNewest(e)
      PROVE  HomeInv'
  <2>1. HomesKept
    BY <1>2, ResolveHomes, StateHomes DEF ResolveNewest, KeepLocalSnapshot
  <2>2. job' = [job EXCEPT !.open = @ \ {e}] /\ job.phase = "resolve"
    BY <1>2 DEF ResolveNewest
  <2>3. /\ job'.phase = job.phase /\ job'.todo = job.todo /\ job'.snap = job.snap
    BY <2>2 DEF JobOK
  <2>4. JobShrinks
    BY <2>2, <2>3 DEF JobShrinks
  <2> QED
    BY <1>1, <2>1, <2>4, HomeInvKept
<1>3. CASE ResolveDone
  BY <1>1, <1>3, StateHomes, RowEndShrinks, HomeInvKept DEF ResolveDone
<1> QED
  BY <1>2, <1>3 DEF Resolution

\* A lost reply or a crash leaves at the server what an answered mutation
\* would, and changes at most the states of rows.
LEMMA FaultHomes ==
    ASSUME EngineInv, TypeOK', HomeInv, FaultStep
    PROVE  HomeInv'
<1> USE StoreAssumption DEF EngineInv, EngineOK
<1> SUFFICES ServerGrows /\ HomesKept /\ JobShrinks
  BY HomeInvKept
<1>1. ServerGrows
  <2>1. CASE UNCHANGED server
    BY <2>1, OthersKept
  <2>2. CASE ReplyLost
    BY <2>2, AcceptedGrows DEF ReplyLost
  <2>3. CASE Crash
    BY <2>1, <2>3, AcceptedGrows DEF Crash, remoteVars
  <2> QED
    BY <2>1, <2>2, <2>3 DEF FaultStep, ListFails, ListRefused, AuthRefused,
           RefreshRejected, RequestFails, remoteVars
<1>2. CASE ReplyLost \/ \E state \in {"retry_wait", "blocked"} : RequestFails(state)
  BY <1>1, <1>2, SettleHomes DEF ReplyLost, RequestFails
<1>3. CASE ListFails \/ RefreshRejected \/ Crash
  <2>1. HomesKept
    BY <1>3, StateHomes DEF ListFails, RefreshRejected, Crash
  <2> QED
    BY <1>1, <1>3, <2>1, RowEndShrinks DEF ListFails, RefreshRejected, Crash, Reauthorize
<1>4. CASE ListRefused
  <2>1. HomesKept
    BY <1>4, StateHomes DEF ListRefused
  <2>2. JobShrinks
    <3>1. CASE Finish
      BY <3>1, RowEndShrinks
    <3>2. CASE job' = [job EXCEPT !.refreshed = TRUE]
      <4>1. job'.phase = "list" /\ job'.todo = job.todo /\ job'.snap = job.snap
        BY <1>4, <3>2 DEF ListRefused, JobOK
      <4> QED
        BY <4>1 DEF JobShrinks
    <3> QED
      BY <1>4, <3>1, <3>2 DEF ListRefused, Reauthorize
  <2> QED
    BY <1>1, <2>1, <2>2
<1>5. CASE AuthRefused
  <2>1. HomesKept
    BY <1>5, StateHomes DEF AuthRefused
  <2>2. JobShrinks
    <3>1. CASE Finish
      BY <3>1, RowEndShrinks
    <3>2. CASE job' = [job EXCEPT !.phase = "refresh", !.item = None, !.refreshed = TRUE]
      <4>1. job'.phase = "refresh" /\ job'.todo = job.todo /\ job'.snap = job.snap
        BY <3>2 DEF JobOK
      <4> QED
        BY <4>1 DEF JobShrinks
    <3> QED
      BY <1>5, <3>1, <3>2 DEF AuthRefused, Reauthorize
  <2> QED
    BY <1>1, <2>1, <2>2
<1> QED
  BY <1>2, <1>3, <1>4, <1>5 DEF FaultStep

\* The user's commands, the deadlines, the other clients and the start of a
\* job.
LEMMA OthersHomes ==
    ASSUME EngineInv, TypeOK', DependencyOrder, HomeInv,
           \/ UserTurn \/ StartSync \/ Reconnect \/ Foreign
           \/ \E o \in OpIds : DeadlinePasses(o)
           \/ UNCHANGED drainVars
    PROVE  HomeInv'
<1> USE StoreAssumption DEF EngineInv, EngineOK
<1> SUFFICES ServerGrows /\ HomesKept /\ JobShrinks
  BY HomeInvKept
<1>1. CASE UserTurn
  <2>1. HomesKept
    <3>1. \/ \E e \in EventIds, c \in Contents : CreateEvent(e, c)
          \/ \E e \in EventIds, c \in Contents, deleted \in BOOLEAN :
                UpdateEvent(e, c, deleted)
          \/ \E e \in EventIds :
                RemoveEvent(e) \/ UndoRemove(e) \/ ResolveByUser(e)
          \/ \E o \in OpIds : DiscardOperation(o) \/ RetryOperation(o)
      BY <1>1 DEF UserTurn, UserStep
    <3>2. ASSUME NEW e \in EventIds, NEW c \in Contents, CreateEvent(e, c)
          PROVE  HomesKept
      BY <3>2, UserEditHomes
    <3>3. ASSUME NEW e \in EventIds, NEW c \in Contents, NEW deleted \in BOOLEAN,
                 UpdateEvent(e, c, deleted)
          PROVE  HomesKept
      BY <3>3, UserEditHomes
    <3>4. ASSUME NEW e \in EventIds, RemoveEvent(e)
          PROVE  HomesKept
      <4>1. PICK c \in Contents : TRUE
        BY <3>4 DEF RemoveEvent, TypeOK, EventsOK, EventRows
      <4> QED
        BY <3>4, <4>1, UserEditHomes
    <3>5. ASSUME NEW e \in EventIds, UndoRemove(e)
          PROVE  HomesKept
      BY <3>5, StateHomes DEF UndoRemove
    <3>6. ASSUME NEW e \in EventIds, ResolveByUser(e)
          PROVE  HomesKept
      BY <3>6, ResolveHomes DEF ResolveByUser, KeepLocalSnapshot
    <3>7. ASSUME NEW o \in OpIds, DiscardOperation(o) \/ RetryOperation(o)
          PROVE  HomesKept
      BY <3>7, StateHomes DEF DiscardOperation, RetryOperation
    <3> QED
      BY <3>1, <3>2, <3>3, <3>4, <3>5, <3>6, <3>7
  <2> QED
    BY <1>1, <2>1, OthersKept DEF UserTurn, remoteVars
<1>2. CASE StartSync
  <2>1. job' = [IdleJob EXCEPT !.phase = "list"]
    BY <1>2 DEF StartSync
  <2>2. DOMAIN Empty = {}
    BY DEF Empty
  <2>3. job'.todo = Empty /\ job'.snap = Empty /\ job'.phase = "list"
    BY <2>1 DEF IdleJob
  <2>4. JobShrinks
    BY <2>2, <2>3 DEF JobShrinks
  <2> QED
    BY <1>2, <2>4, OthersKept, StateHomes DEF StartSync, remoteVars
<1>3. CASE Foreign
  <2>1. PICK r \in RemoteIds, state \in {"live", "gone"}, c \in Contents :
            ForeignChange(r, state, c)
    BY <1>3 DEF Foreign
  <2>2. ~Gone(r)
    BY <2>1 DEF ForeignChange, Gone
  <2>3. ServerGrows
    BY <2>1, <2>2, PublishGrows DEF ForeignChange
  <2> QED
    BY <2>1, <2>3, OthersKept, StateHomes DEF ForeignChange
<1>4. CASE Reconnect \/ \E o \in OpIds : DeadlinePasses(o)
  BY <1>4, OthersKept, StateHomes DEF Reconnect, DeadlinePasses, remoteVars
<1>5. CASE UNCHANGED drainVars
  BY <1>5, OthersKept, StateHomes DEF drainVars, remoteVars
<1> QED
  BY <1>1, <1>2, <1>3, <1>4, <1>5

\* HomeInv holds of the empty store and is kept by every step.
LEMMA HomeStep ==
    ASSUME EngineInv, EngineInv', DependencyOrder, HomeInv, [Next]_drainVars
    PROVE  HomeInv'
<1>1. TypeOK'
  BY DEF EngineInv
<1> QED
  BY <1>1, PullHomes, DispatchHomes, MutationHomes, ResolutionHomes, FaultHomes,
     OthersHomes DEF Next, JobStep

\* The store starts empty.
LEMMA HomeInit ==
    ASSUME Init PROVE HomeInv
<1>1. /\ DOMAIN events = {} /\ DOMAIN outbox = {} /\ DOMAIN conflicts = {}
      /\ DOMAIN job.todo = {} /\ DOMAIN job.snap = {} /\ job.phase = "idle"
  BY DEF Init, StoreInit, Empty, IdleJob
<1> QED
  BY <1>1 DEF HomeInv, CreateAtHome, OneCreate, RowAtHome, SnapAtHome, ConflictGone,
              IdentityKnown, JobKnows

\* HomeInv is an invariant of the engine.
LEMMA HomeCorrect ==
    Spec => [](EngineInv /\ DependencyOrder /\ HomeInv)
<1>1. Spec => []DependencyOrder
  BY EngineRefinesStore, OrderCorrect, PTL DEF StoreRefinement
<1> QED
  BY <1>1, EngineCorrect, HomeInit, HomeStep, PTL DEF Spec

\* Whatever is lost, retried, coalesced, resolved, discarded or restarted, the
\* creates queued for one local event never leave two live events at the
\* server.
THEOREM NoDuplicateCorrect == Spec => []NoDuplicateRemote
<1>1. HomeInv => NoDuplicateRemote
  <2>1. \A r : IsLive(r) => ~Gone(r)
    BY DEF IsLive, Gone
  <2> QED
    BY <2>1 DEF HomeInv, OneCreate, NoDuplicateRemote, Created
<1> QED
  BY <1>1, HomeCorrect, PTL

-----------------------------------------------------------------------------
(* Until a command meets the job.                                          *)
(*                                                                         *)
(* CleanIsFaithful, Converged and LocalEditRemainsVisible fail when a      *)
(* command touches a row that the running job has copied and not settled,  *)
(* queues behind a copied create, or discards or retries a row. They are   *)
(* proved of the behaviours up to the first such command (CalmSpec): any   *)
(* other edit, removal or decision may come at any moment of a job.        *)
(* CalmInv has two halves: the queue of each event agrees with the event   *)
(* and with the copies of the job, and each row, conflict and staged       *)
(* change agrees with the version of the server it names.                  *)

\* The row was given to the provider before and waits, or is being sent.
Started(o) == outbox[o].state \in {"sending", "retry_wait", "blocked"}

\* No unfinished row of the same event is older.
IsFirst(o) == \A q \in ActiveOps(outbox[o].event) : o <= q

\* The queue of event e: it is dirty while a row is unfinished; the rows carry
\* its identity and revision, the newest one its content; only the oldest one
\* was ever started, and any other waits for an unfinished one before it.
QueueFine(e) ==
    /\ events[e].dirty <=> ActiveOps(e) # {}
    /\ \A o \in ActiveOps(e) :
        /\ outbox[o].rid = events[e].rid /\ outbox[o].expected = events[e].etag
        /\ Created(o) => events[e].rid = None
        /\ (\A q \in ActiveOps(e) : q <= o) => outbox[o].content = events[e].content
        /\ Started(o) => \A q \in ActiveOps(e) : o <= q
        /\ \A q \in ActiveOps(e) :
                q < o => outbox[o].dep \in ActiveOps(e) /\ q <= outbox[o].dep

\* So is every queue.
QueuesFine == \A e \in DOMAIN events : QueueFine(e)

\* What a row says besides its state and its deadlines.
SameRow(i, j) ==
    /\ i.event = j.event /\ i.op = j.op /\ i.dep = j.dep /\ i.expected = j.expected
    /\ i.rid = j.rid /\ i.content = j.content /\ i.deleted = j.deleted

-----------------------------------------------------------------------------
(* What each transaction does to the queue of an event.                    *)

\* The members of the tables, one by one.
LEMMA TableMembers ==
    ASSUME StoreAssumption, TypeOK
    PROVE  /\ nextOp \in Int
           /\ \A e \in DOMAIN events : e \in EventIds /\ events[e] \in EventRows
           /\ \A o \in DOMAIN outbox :
                /\ o \in OpIds /\ o \in Int /\ o # None /\ outbox[o] \in OutboxRows
                /\ outbox[o].event \in DOMAIN events /\ outbox[o].dep \in Int
  BY DEF TypeOK, EventsOK, OutboxOK, CountersOK, OpIds, OutboxRows, None

\* A transaction that leaves the event and what its rows say alone, and starts
\* no row but the oldest.
LEMMA QueueKept ==
    ASSUME NEW e, QueueFine(e), events'[e] = events[e], OpsOf(e)' = OpsOf(e),
           \A o \in OpsOf(e) :
            /\ SameRow(outbox'[o], outbox[o])
            /\ outbox'[o].state \in ActiveStates <=> outbox[o].state \in ActiveStates
            /\ Started(o)' => Started(o) \/ IsFirst(o)
    PROVE  QueueFine(e)'
<1>1. ActiveOps(e)' = ActiveOps(e)
  BY DEF ActiveOps
<1>2. \A o \in ActiveOps(e) : o \in OpsOf(e) /\ outbox[o].event = e
  BY DEF ActiveOps, OpsOf
<1> QED
  BY <1>1, <1>2 DEF QueueFine, SameRow, Created, IsFirst

\* The same for a queue the transaction does not touch at all.
LEMMA QueueUntouched ==
    ASSUME NEW e, QueueFine(e), events'[e] = events[e], OpsOf(e)' = OpsOf(e),
           \A o \in OpsOf(e) : outbox'[o] = outbox[o]
    PROVE  QueueFine(e)'
  BY QueueKept DEF SameRow, Started

\* DELETE FROM events
LEMMA DeleteEventQueues ==
    ASSUME QueuesFine, NEW e, DeleteEvent(e)
    PROVE  QueuesFine'
<1>1. /\ DOMAIN events' = DOMAIN events \ {e}
      /\ \A f \in DOMAIN events' : events'[f] = events[f]
      /\ DOMAIN outbox' = DOMAIN outbox \ OpsOf(e)
      /\ \A o \in DOMAIN outbox' : outbox'[o] = outbox[o]
  BY DEF DeleteEvent, Restrict
<1> SUFFICES ASSUME NEW f \in DOMAIN events' PROVE QueueFine(f)'
  BY DEF QueuesFine
<1>2. OpsOf(f)' = OpsOf(f) /\ \A o \in OpsOf(f) : outbox'[o] = outbox[o]
  BY <1>1 DEF OpsOf
<1> QED
  BY <1>1, <1>2, QueueUntouched DEF QueuesFine

\* A mutation folded into the newest unsent row: that row is the newest
\* unfinished one, because a started row is the oldest.
LEMMA CoalesceQueues ==
    ASSUME StoreAssumption, TypeOK, QueuesFine, NEW e, NEW o, NEW row, NEW op \in Operations,
           Coalesce(e, o, row, op), op # "create", row.dirty = TRUE,
           row.rid = events[e].rid, row.etag = events[e].etag
    PROVE  QueuesFine'
<1>1. /\ o \in DOMAIN outbox /\ outbox[o].event = e /\ outbox[o].state \in QueuedStates
      /\ \A p \in DOMAIN outbox :
            outbox[p].event = e /\ outbox[p].state \in QueuedStates => p <= o
  BY DEF Coalesce, IsNewest, QueuedOps, OpsOf
<1>2. e \in DOMAIN events /\ QueueFine(e)
  BY <1>1, TableMembers DEF QueuesFine
<1>3. /\ DOMAIN events' = DOMAIN events /\ events'[e] = row
      /\ \A f \in DOMAIN events \ {e} : events'[f] = events[f]
  BY <1>2 DEF Coalesce, Put
<1>4. /\ DOMAIN outbox' = DOMAIN outbox
      /\ \A p \in DOMAIN outbox \ {o} : outbox'[p] = outbox[p]
      /\ outbox'[o].event = e /\ outbox'[o].rid = row.rid /\ outbox'[o].expected = row.etag
      /\ outbox'[o].state = "pending" /\ outbox'[o].dep = outbox[o].dep
      /\ outbox'[o].content = row.content
      /\ outbox'[o].op = "create" => outbox[o].op = "create"
  BY <1>1 DEF Coalesce, QueueRow
<1>5. ActiveOps(e)' = ActiveOps(e) /\ o \in ActiveOps(e)
  BY <1>1, <1>4 DEF ActiveOps, OpsOf, ActiveStates, QueuedStates
<1>6. \A p \in ActiveOps(e) : p \in Int /\ p \in DOMAIN outbox /\ outbox[p].event = e
                              /\ outbox[p].state \in ActiveStates
  BY TableMembers DEF ActiveOps, OpsOf
<1>7. \A p \in ActiveOps(e) : p <= o
  <2> SUFFICES ASSUME NEW p \in ActiveOps(e) PROVE p <= o
    OBVIOUS
  <2>1. CASE outbox[p].state \in QueuedStates
    BY <1>1, <1>6, <2>1
  <2>2. CASE outbox[p].state \notin QueuedStates
    BY <1>2, <1>5, <1>6, <2>2 DEF QueueFine, Started, ActiveStates, QueuedStates
  <2> QED
    BY <2>1, <2>2
<1>8. QueueFine(e)'
  <2>1. events'[e].dirty <=> ActiveOps(e)' # {}
    BY <1>3, <1>5
  <2>2. ASSUME NEW p \in ActiveOps(e), p # o
        PROVE  /\ outbox'[p].rid = row.rid /\ outbox'[p].expected = row.etag
               /\ outbox'[p].op = "create" => row.rid = None
               /\ ~(\A q \in ActiveOps(e) : q <= p)
               /\ outbox'[p].state \in {"sending", "retry_wait", "blocked"}
                        => \A q \in ActiveOps(e) : p <= q
               /\ \A q \in ActiveOps(e) :
                    q < p => outbox'[p].dep \in ActiveOps(e) /\ q <= outbox'[p].dep
    <3>1. outbox'[p] = outbox[p]
      BY <1>4, <1>6, <2>2
    <3>2. p < o
      BY <1>5, <1>6, <1>7, <2>2
    <3> QED
      BY <1>2, <1>5, <1>6, <3>1, <3>2 DEF QueueFine, Created, Started
  <2>3. /\ outbox'[o].rid = row.rid /\ outbox'[o].expected = row.etag
        /\ outbox'[o].op = "create" => row.rid = None
        /\ outbox'[o].content = row.content
        /\ outbox'[o].state \notin {"sending", "retry_wait", "blocked"}
        /\ \A q \in ActiveOps(e) :
            q < o => outbox'[o].dep \in ActiveOps(e) /\ q <= outbox'[o].dep
    BY <1>2, <1>4, <1>5 DEF QueueFine, Created
  <2> QED
    BY <1>3, <1>5, <2>1, <2>2, <2>3 DEF QueueFine, Created, Started
<1>9. ASSUME NEW f \in DOMAIN events, f # e PROVE QueueFine(f)'
  <2>1. OpsOf(f)' = OpsOf(f) /\ \A p \in OpsOf(f) : outbox'[p] = outbox[p]
    BY <1>1, <1>4, <1>9 DEF OpsOf
  <2> QED
    BY <1>3, <1>9, <2>1, QueueUntouched DEF QueuesFine
<1> QED
  BY <1>3, <1>8, <1>9 DEF QueuesFine

\* A new row behind the unfinished ones of its event.
LEMMA EnqueueQueues ==
    ASSUME StoreAssumption, TypeOK, DependencyOrder, QueuesFine, NEW e, NEW dep, NEW row,
           NEW op \in Operations, Enqueue(e, dep, row, op), row.dirty = TRUE,
           IF e \in DOMAIN events
           THEN op # "create" /\ row.rid = events[e].rid /\ row.etag = events[e].etag
           ELSE row.rid = None
    PROVE  QueuesFine'
<1>1. /\ DOMAIN events' = DOMAIN events \cup {e} /\ events'[e] = row
      /\ \A f \in DOMAIN events \ {e} : events'[f] = events[f]
  BY DEF Enqueue, Put
<1>2. /\ DOMAIN outbox' = DOMAIN outbox \cup {nextOp}
      /\ \A p \in DOMAIN outbox \ {nextOp} : outbox'[p] = outbox[p]
      /\ outbox'[nextOp] = QueueRow(e, op, row, dep)
  BY DEF Enqueue, Put
<1>3. nextOp \notin DOMAIN outbox /\ \A p \in DOMAIN outbox : p < nextOp
  BY TableMembers DEF DependencyOrder
<1>4. /\ outbox'[nextOp].event = e /\ outbox'[nextOp].op = op
      /\ outbox'[nextOp].rid = row.rid /\ outbox'[nextOp].expected = row.etag
      /\ outbox'[nextOp].state = "pending" /\ outbox'[nextOp].dep = dep
      /\ outbox'[nextOp].content = row.content
  BY <1>2 DEF QueueRow
<1>5. \A p \in ActiveOps(e) : p \in Int /\ p \in DOMAIN outbox /\ outbox[p].event = e
                              /\ p # nextOp /\ p < nextOp
  BY <1>3, TableMembers DEF ActiveOps, OpsOf
<1>6. ActiveOps(e)' = ActiveOps(e) \cup {nextOp}
  BY <1>2, <1>3, <1>4 DEF ActiveOps, OpsOf, ActiveStates
<1>7. ActiveOps(e) # {} => /\ e \in DOMAIN events /\ op # "create"
                           /\ row.rid = events[e].rid /\ row.etag = events[e].etag
                           /\ QueueFine(e)
                           /\ dep \in ActiveOps(e) /\ \A p \in ActiveOps(e) : p <= dep
  BY <1>5, TableMembers DEF Enqueue, IsNewestOrNone, IsNewest, QueuesFine
<1>8. QueueFine(e)'
  <2>1. ASSUME NEW p \in ActiveOps(e)
        PROVE  /\ outbox'[p].rid = row.rid /\ outbox'[p].expected = row.etag
               /\ outbox'[p].op = "create" => row.rid = None
               /\ ~(nextOp <= p)
               /\ outbox'[p].state \in {"sending", "retry_wait", "blocked"}
                        => \A q \in ActiveOps(e) : p <= q
               /\ \A q \in ActiveOps(e) :
                    q < p => outbox'[p].dep \in ActiveOps(e) /\ q <= outbox'[p].dep
    <3>1. outbox'[p] = outbox[p]
      BY <1>2, <1>5
    <3>2. ~(nextOp <= p)
      BY <1>5, TableMembers
    <3> QED
      BY <1>7, <3>1, <3>2 DEF QueueFine, Created, Started
  <2>2. op = "create" => row.rid = None
    BY <1>7
  <2>3. \A q \in ActiveOps(e) : q < nextOp /\ q <= nextOp /\ ~(nextOp < q)
    BY <1>5, TableMembers
  <2>4. ~(nextOp < nextOp) /\ nextOp <= nextOp
    BY TableMembers
  <2>5. ASSUME NEW p \in ActiveOps(e)'
        PROVE  /\ outbox'[p].rid = row.rid /\ outbox'[p].expected = row.etag
               /\ outbox'[p].op = "create" => row.rid = None
               /\ (\A q \in ActiveOps(e)' : q <= p) => outbox'[p].content = row.content
               /\ outbox'[p].state \in {"sending", "retry_wait", "blocked"}
                        => \A q \in ActiveOps(e)' : p <= q
               /\ \A q \in ActiveOps(e)' :
                    q < p => outbox'[p].dep \in ActiveOps(e)' /\ q <= outbox'[p].dep
    <3>1. CASE p = nextOp
      BY <1>4, <1>6, <1>7, <2>2, <2>3, <2>4, <3>1
    <3>2. CASE p \in ActiveOps(e)
      BY <1>6, <2>1, <2>3, <3>2
    <3> QED
      BY <1>6, <3>1, <3>2
  <2>6. events'[e].dirty <=> ActiveOps(e)' # {}
    BY <1>1, <1>6
  <2> QED
    BY <1>1, <2>5, <2>6 DEF QueueFine, Created, Started
<1>9. ASSUME NEW f \in DOMAIN events, f # e PROVE QueueFine(f)'
  <2>1. OpsOf(f)' = OpsOf(f) /\ \A p \in OpsOf(f) : outbox'[p] = outbox[p]
    BY <1>2, <1>3, <1>4, <1>9 DEF OpsOf
  <2> QED
    BY <1>1, <1>9, <2>1, QueueUntouched DEF QueuesFine
<1> QED
  BY <1>1, <1>8, <1>9 DEF QueuesFine

\* The commands that write an event.
LEMMA UserEditQueues ==
    ASSUME StoreAssumption, TypeOK, DependencyOrder, QueuesFine, NEW e \in EventIds,
           NEW c \in Contents, NEW deleted \in BOOLEAN,
           CreateEvent(e, c) \/ UpdateEvent(e, c, deleted) \/ RemoveEvent(e)
    PROVE  QueuesFine'
<1>1. ASSUME NEW row, NEW op \in Operations, SaveLocalEvent(e, row, op), row.dirty = TRUE,
             IF e \in DOMAIN events
             THEN op # "create" /\ row.rid = events[e].rid /\ row.etag = events[e].etag
             ELSE row.rid = None
      PROVE  QueuesFine'
  <2>1. ASSUME NEW o, Coalesce(e, o, row, op) PROVE e \in DOMAIN events
    BY <2>1, TableMembers DEF Coalesce, IsNewest, QueuedOps, OpsOf
  <2> QED
    BY <1>1, <2>1, DeleteEventQueues, CoalesceQueues, EnqueueQueues
       DEF SaveLocalEvent, CancelUnsynced
<1>2. \A f \in DOMAIN events : events[f] \in EventRows
  BY TableMembers
<1>3. CASE CreateEvent(e, c)
  <2> DEFINE row == [rid |-> None, etag |-> None, content |-> c, dirty |-> TRUE,
                     deleted |-> FALSE]
  <2>1. row.dirty = TRUE /\ row.rid = None
    OBVIOUS
  <2>2. SaveLocalEvent(e, row, "create") /\ e \notin DOMAIN events
    BY <1>3 DEF CreateEvent
  <2> HIDE DEF row
  <2> QED
    BY <1>1, <2>1, <2>2 DEF Operations
<1>4. CASE UpdateEvent(e, c, deleted)
  <2> DEFINE row == [events[e] EXCEPT !.content = c, !.dirty = TRUE, !.deleted = deleted]
  <2>1. e \in DOMAIN events /\ SaveLocalEvent(e, row, "update")
    BY <1>4 DEF UpdateEvent
  <2>2. row.dirty = TRUE /\ row.rid = events[e].rid /\ row.etag = events[e].etag
    BY <1>2, <2>1 DEF EventRows
  <2> HIDE DEF row
  <2> QED
    BY <1>1, <2>1, <2>2 DEF Operations
<1>5. CASE RemoveEvent(e)
  <2> DEFINE row == [events[e] EXCEPT !.dirty = TRUE, !.deleted = TRUE]
  <2>1. e \in DOMAIN events /\ SaveLocalEvent(e, row, "remove")
    BY <1>5 DEF RemoveEvent
  <2>2. row.dirty = TRUE /\ row.rid = events[e].rid /\ row.etag = events[e].etag
    BY <1>2, <2>1 DEF EventRows
  <2> HIDE DEF row
  <2> QED
    BY <1>1, <2>1, <2>2 DEF Operations
<1> QED
  BY <1>3, <1>4, <1>5

\* A transaction that writes states and deadlines only.
LEMMA StatesQueues ==
    ASSUME StoreAssumption, TypeOK, QueuesFine, UNCHANGED events,
           DOMAIN outbox' = DOMAIN outbox,
           \A o \in DOMAIN outbox :
            /\ SameRow(outbox'[o], outbox[o])
            /\ outbox'[o].state \in ActiveStates <=> outbox[o].state \in ActiveStates
            /\ Started(o)' => Started(o) \/ IsFirst(o)
    PROVE  QueuesFine'
<1> SUFFICES ASSUME NEW e \in DOMAIN events PROVE QueueFine(e)'
  BY DEF QueuesFine
<1>1. OpsOf(e)' = OpsOf(e)
  BY DEF OpsOf, SameRow
<1> QED
  BY <1>1, QueueKept DEF QueuesFine, OpsOf

\* updateOutboxState of an unfinished row that is the oldest of its event.
LEMMA SetStateQueues ==
    ASSUME StoreAssumption, TypeOK, QueuesFine, NEW o, NEW state \in ActiveStates,
           SetState(o, state), outbox[o].state \in ActiveStates, IsFirst(o)
    PROVE  QueuesFine'
<1>1. /\ o \in DOMAIN outbox /\ UNCHANGED events
      /\ outbox' = [outbox EXCEPT ![o].state = state, ![o].backoff = (state = "retry_wait")]
  BY DEF SetState
<1>2. \A p \in DOMAIN outbox : outbox[p] \in OutboxRows
  BY TableMembers
<1>3. \A p \in DOMAIN outbox : SameRow(outbox'[p], outbox[p])
  BY <1>1, <1>2 DEF OutboxRows, SameRow
<1>4. \A p \in DOMAIN outbox : outbox'[p].state = IF p = o THEN state ELSE outbox[p].state
  BY <1>1, <1>2 DEF OutboxRows
<1> QED
  BY <1>1, <1>3, <1>4, StatesQueues DEF Started

\* The deadlines and the recovery at start.
LEMMA TimeQueues ==
    ASSUME StoreAssumption, TypeOK, QueuesFine, NEW o,
           GraceOver(o) \/ BackoffOver(o) \/ Recover
    PROVE  QueuesFine'
<1>1. \A p \in DOMAIN outbox : outbox[p] \in OutboxRows
  BY TableMembers
<1>2. CASE GraceOver(o) \/ BackoffOver(o)
  <2>1. \A p \in DOMAIN outbox : SameRow(outbox'[p], outbox[p])
                                 /\ outbox'[p].state = outbox[p].state
    BY <1>1, <1>2 DEF GraceOver, BackoffOver, OutboxRows, SameRow
  <2> QED
    BY <1>2, <2>1, StatesQueues DEF GraceOver, BackoffOver, Started
<1>3. CASE Recover
  <2>1. \A p \in DOMAIN outbox :
            /\ SameRow(outbox'[p], outbox[p])
            /\ outbox'[p].state = IF outbox[p].state = "sending" THEN "pending"
                                                                 ELSE outbox[p].state
    BY <1>1, <1>3 DEF Recover, OutboxRows, SameRow
  <2> QED
    BY <1>3, <2>1, StatesQueues DEF Recover, Started, ActiveStates
<1> QED
  BY <1>2, <1>3

\* A conflict decided for the provider: the rows are done, the event is clean.
LEMMA KeepRemoteQueues ==
    ASSUME StoreAssumption, TypeOK, QueuesFine, NEW e, KeepRemote(e)
    PROVE  QueuesFine'
<1>1. e \in DOMAIN events /\ events[e] \in EventRows
  BY DEF KeepRemote, TypeOK, EventsOK, ConflictsOK
<1>2. /\ DOMAIN events' = DOMAIN events /\ events'[e].dirty = FALSE
      /\ \A f \in DOMAIN events \ {e} : events'[f] = events[f]
  BY <1>1 DEF KeepRemote, RemoteSide, EventRows
<1>3. /\ DOMAIN outbox' = DOMAIN outbox
      /\ \A p \in DOMAIN outbox :
            IF outbox[p].event = e
            THEN outbox'[p].event = e /\ outbox'[p].state = "done"
            ELSE outbox'[p] = outbox[p]
  BY TableMembers DEF KeepRemote, Finished, OutboxRows
<1>4. QueueFine(e)'
  <2>1. ActiveOps(e)' = {}
    BY <1>3 DEF ActiveOps, OpsOf, ActiveStates
  <2> QED
    BY <1>2, <2>1 DEF QueueFine
<1>5. ASSUME NEW f \in DOMAIN events, f # e PROVE QueueFine(f)'
  <2>1. OpsOf(f)' = OpsOf(f) /\ \A p \in OpsOf(f) : outbox'[p] = outbox[p]
    BY <1>3, <1>5 DEF OpsOf
  <2> QED
    BY <1>2, <1>5, <2>1, QueueUntouched DEF QueuesFine
<1> QED
  BY <1>2, <1>4, <1>5 DEF QueuesFine

\* A conflict decided for the local side: one new row, every other is done.
LEMMA KeepLocalQueues ==
    ASSUME StoreAssumption, TypeOK, DependencyOrder, QueuesFine, NEW e, NEW content,
           NEW deleted, KeepLocal(e, content, deleted)
    PROVE  QueuesFine'
<1> DEFINE gone == conflicts[e].rev = None
           row == [rid |-> IF gone THEN None ELSE events[e].rid,
                   etag |-> conflicts[e].rev, content |-> content,
                   dirty |-> TRUE, deleted |-> deleted]
           op == IF gone THEN "create" ELSE "update"
<1>1. e \in DOMAIN events
  BY DEF KeepLocal, TypeOK, ConflictsOK
<1>2. events' = Put(events, e, row)
      /\ outbox' = Put(Finished(e), nextOp, QueueRow(e, op, row, None))
  BY DEF KeepLocal
<1>3. row.dirty = TRUE /\ (op = "create" => row.rid = None)
  OBVIOUS
<1> HIDE DEF row, op, gone
<1>4. /\ DOMAIN events' = DOMAIN events /\ events'[e] = row
      /\ \A f \in DOMAIN events \ {e} : events'[f] = events[f]
  BY <1>1, <1>2 DEF Put
<1>5. nextOp \notin DOMAIN outbox
  BY TableMembers DEF DependencyOrder
<1>6. /\ DOMAIN Finished(e) = DOMAIN outbox
      /\ \A p \in DOMAIN outbox :
            IF outbox[p].event = e
            THEN Finished(e)[p].event = e /\ Finished(e)[p].state = "done"
            ELSE Finished(e)[p] = outbox[p]
  BY TableMembers DEF Finished, OutboxRows
<1>7. /\ DOMAIN outbox' = DOMAIN outbox \cup {nextOp}
      /\ \A p \in DOMAIN outbox : outbox'[p] = Finished(e)[p]
      /\ outbox'[nextOp] = QueueRow(e, op, row, None)
  BY <1>2, <1>5, <1>6 DEF Put
<1>8. /\ outbox'[nextOp].event = e /\ outbox'[nextOp].op = op
      /\ outbox'[nextOp].rid = row.rid /\ outbox'[nextOp].expected = row.etag
      /\ outbox'[nextOp].state = "pending" /\ outbox'[nextOp].content = row.content
  BY <1>7 DEF QueueRow
<1>9. QueueFine(e)'
  <2>1. ActiveOps(e)' = {nextOp}
    BY <1>5, <1>6, <1>7, <1>8 DEF ActiveOps, OpsOf, ActiveStates
  <2>2. ~(nextOp < nextOp)
    BY TableMembers
  <2> QED
    BY <1>3, <1>4, <1>8, <2>1, <2>2 DEF QueueFine, Created, Started
<1>10. ASSUME NEW f \in DOMAIN events, f # e PROVE QueueFine(f)'
  <2>1. OpsOf(f)' = OpsOf(f) /\ \A p \in OpsOf(f) : outbox'[p] = outbox[p]
    BY <1>5, <1>6, <1>7, <1>8, <1>10 DEF OpsOf
  <2> QED
    BY <1>4, <1>10, <2>1, QueueUntouched DEF QueuesFine
<1> QED
  BY <1>4, <1>9, <1>10 DEF QueuesFine

\* Applying an event of the server: a clean row has no unfinished rows.
LEMMA ApplyRemoteQueues ==
    ASSUME StoreAssumption, TypeOK, QueuesFine, NEW r \in RemoteIds, NEW etag, NEW c,
           ApplyRemote(r, etag, c)
    PROVE  QueuesFine'
<1>1. UNCHANGED outbox
  BY DEF ApplyRemote
<1>2. \A e : ActiveOps(e)' = ActiveOps(e) /\ OpsOf(e)' = OpsOf(e)
  BY <1>1 DEF ActiveOps, OpsOf
<1>3. ASSUME NEW e \in DOMAIN events, events'[e] = events[e] PROVE QueueFine(e)'
  BY <1>1, <1>2, <1>3, QueueUntouched DEF QueuesFine
<1>4. ASSUME NEW e \in DOMAIN events', ~events'[e].dirty, ActiveOps(e) = {}
      PROVE  QueueFine(e)'
  BY <1>2, <1>4 DEF QueueFine
<1>5. ASSUME NEW e, e \notin DOMAIN events PROVE ActiveOps(e) = {}
  BY <1>5, TableMembers DEF ActiveOps, OpsOf
<1>6. CASE \E e \in EventIds :
            /\ e \notin DOMAIN events
            /\ events' = Put(events, e, [rid |-> r, etag |-> etag, content |-> c,
                                         dirty |-> FALSE, deleted |-> FALSE])
  <2>1. PICK e \in EventIds :
            /\ e \notin DOMAIN events
            /\ events' = Put(events, e, [rid |-> r, etag |-> etag, content |-> c,
                                         dirty |-> FALSE, deleted |-> FALSE])
    BY <1>6
  <2>2. /\ DOMAIN events' = DOMAIN events \cup {e} /\ ~events'[e].dirty
        /\ \A f \in DOMAIN events : events'[f] = events[f]
    BY <2>1 DEF Put
  <2> QED
    BY <1>3, <1>4, <1>5, <2>1, <2>2 DEF QueuesFine
<1>7. CASE \E e \in RowsWith(r) :
            /\ ~events[e].dirty
            /\ events' = [events EXCEPT ![e].etag = etag, ![e].content = c,
                                        ![e].deleted = FALSE]
  <2>1. PICK e \in DOMAIN events :
            /\ ~events[e].dirty
            /\ events' = [events EXCEPT ![e].etag = etag, ![e].content = c,
                                        ![e].deleted = FALSE]
    BY <1>7 DEF RowsWith
  <2>2. /\ DOMAIN events' = DOMAIN events /\ ~events'[e].dirty
        /\ \A f \in DOMAIN events \ {e} : events'[f] = events[f]
    BY <2>1, TableMembers DEF EventRows
  <2>3. ActiveOps(e) = {}
    BY <2>1 DEF QueuesFine, QueueFine
  <2> QED
    BY <1>3, <1>4, <2>2, <2>3 DEF QueuesFine
<1>8. CASE UNCHANGED events
  BY <1>3, <1>8 DEF QueuesFine
<1> QED
  BY <1>6, <1>7, <1>8 DEF ApplyRemote

\* Applying a deletion.
LEMMA RemoveRemoteQueues ==
    ASSUME StoreAssumption, TypeOK, QueuesFine, NEW r, RemoveRemote(r)
    PROVE  QueuesFine'
<1>1. CASE UNCHANGED <<events, outbox>>
  BY <1>1, StatesQueues DEF SameRow, Started
<1>2. CASE \E e \in RowsWith(r) : DeleteEvent(e)
  BY <1>2, DeleteEventQueues
<1> QED
  BY <1>1, <1>2 DEF RemoveRemote

\* What is left of a queue when its oldest row is done.
LEMMA OldestDone ==
    ASSUME StoreAssumption, TypeOK, QueuesFine, NEW o \in DOMAIN outbox,
           outbox[o].state \in ActiveStates, IsFirst(o),
           NEW q \in ActiveOps(outbox[o].event), q # o
    PROVE  /\ outbox[q].state = "pending" /\ o < q
           /\ \A p \in ActiveOps(outbox[o].event) \ {o} :
                p < q => /\ outbox[q].dep \in ActiveOps(outbox[o].event) \ {o}
                         /\ p <= outbox[q].dep
<1> DEFINE e == outbox[o].event
<1>1. QueueFine(e) /\ o \in ActiveOps(e)
  BY TableMembers DEF QueuesFine, ActiveOps, OpsOf
<1>2. \A p \in ActiveOps(e) : p \in Int /\ o <= p /\ p \in DOMAIN outbox
                              /\ outbox[p].state \in ActiveStates /\ outbox[p].dep \in Int
  BY TableMembers DEF ActiveOps, OpsOf, IsFirst
<1>3. o < q /\ ~(q <= o)
  BY <1>1, <1>2
<1>4. outbox[q].state = "pending"
  BY <1>1, <1>2, <1>3 DEF QueueFine, Started, ActiveStates
<1>5. ASSUME NEW p \in ActiveOps(e) \ {o}, p < q
      PROVE  outbox[q].dep \in ActiveOps(e) \ {o} /\ p <= outbox[q].dep
  <2>1. outbox[q].dep \in ActiveOps(e) /\ p <= outbox[q].dep
    BY <1>1, <1>5 DEF QueueFine
  <2>2. o < p
    BY <1>1, <1>2, <1>5
  <2> QED
    BY <1>1, <1>2, <2>1, <2>2
<1> QED
  BY <1>3, <1>4, <1>5

\* The acknowledgement of a create or an update whose row is the oldest: a row
\* behind it goes on from the acknowledged version.
LEMMA AcknowledgeQueues ==
    ASSUME StoreAssumption, TypeOK, QueuesFine, NEW o, NEW v, Acknowledge(o, v),
           outbox[o].state \in ActiveStates, IsFirst(o), ~Purges(o),
           LaterOps(o) # {} => v.rid = HomeOf(o) /\ v.rid # None
    PROVE  QueuesFine'
<1>0. PICK e \in DOMAIN events : e = outbox[o].event
  BY TableMembers DEF Acknowledge
<1>1. /\ o \in DOMAIN outbox /\ outbox[o] \in OutboxRows /\ outbox[o].event = e
      /\ events[e] \in EventRows /\ QueueFine(e)
  BY <1>0, TableMembers DEF Acknowledge, QueuesFine
<1>2. /\ DOMAIN events' = DOMAIN events
      /\ \A f \in DOMAIN events \ {e} : events'[f] = events[f]
      /\ LaterOps(o) = {} => ~events'[e].dirty
      /\ LaterOps(o) # {} => /\ events'[e].dirty = TRUE /\ events'[e].rid = v.rid
                             /\ events'[e].etag = v.etag
                             /\ events'[e].content = events[e].content
  <2> DEFINE row == IF LaterOps(o) # {}
                    THEN [events[e] EXCEPT !.rid = v.rid, !.etag = v.etag, !.dirty = TRUE]
                    ELSE [rid |-> v.rid, etag |-> v.etag, content |-> v.content,
                          dirty |-> FALSE, deleted |-> FALSE]
  <2>1. /\ LaterOps(o) = {} => ~row.dirty
        /\ LaterOps(o) # {} => /\ row.dirty = TRUE /\ row.rid = v.rid /\ row.etag = v.etag
                               /\ row.content = events[e].content
    BY <1>1 DEF EventRows
  <2>2. events' = [events EXCEPT ![e] = row]
    BY <1>0 DEF Acknowledge
  <2> HIDE DEF row
  <2> QED
    BY <1>1, <2>1, <2>2
<1>3. /\ DOMAIN outbox' = DOMAIN outbox
      /\ outbox'[o].event = e /\ outbox'[o].state = "done"
      /\ \A p \in DOMAIN outbox \ {o} :
            IF p \in LaterOps(o) /\ outbox[p].state \in QueuedStates
            THEN outbox'[p] = [outbox[p] EXCEPT !.expected = v.etag]
            ELSE outbox'[p] = outbox[p]
  BY <1>1 DEF Acknowledge, OutboxRows
<1>4. LaterOps(o) = ActiveOps(e) \ {o} /\ o \in ActiveOps(e)
  BY <1>1 DEF LaterOps, ActiveOps, OpsOf
<1>5. ASSUME NEW p \in LaterOps(o)
      PROVE  /\ outbox'[p].expected = v.etag /\ outbox'[p].rid = outbox[p].rid
             /\ outbox'[p].op = outbox[p].op /\ outbox'[p].dep = outbox[p].dep
             /\ outbox'[p].content = outbox[p].content
             /\ outbox'[p].event = e /\ outbox'[p].state = "pending"
  <2>1. p \in DOMAIN outbox \ {o} /\ outbox[p].event = e /\ outbox[p] \in OutboxRows
    BY <1>4, TableMembers DEF ActiveOps, OpsOf
  <2>2. outbox[p].state = "pending"
    BY <1>1, <1>4, OldestDone
  <2>3. outbox'[p] = [outbox[p] EXCEPT !.expected = v.etag]
    BY <1>3, <2>1, <2>2 DEF QueuedStates
  <2> QED
    BY <2>1, <2>2, <2>3 DEF OutboxRows
<1>6. ActiveOps(e)' = LaterOps(o)
  <2>1. \A p \in DOMAIN outbox \ {o} : p \notin LaterOps(o) => outbox'[p] = outbox[p]
    BY <1>3
  <2>2. \A p \in LaterOps(o) : p \in DOMAIN outbox
    BY <1>4 DEF ActiveOps, OpsOf
  <2>3. \A p \in DOMAIN outbox :
            outbox[p].event = e /\ outbox[p].state \in ActiveStates => p = o \/ p \in LaterOps(o)
    BY <1>4 DEF ActiveOps, OpsOf
  <2> QED
    BY <1>3, <1>5, <2>1, <2>2, <2>3 DEF ActiveOps, OpsOf, ActiveStates
<1>7. QueueFine(e)'
  <2>1. CASE LaterOps(o) = {}
    BY <1>2, <1>6, <2>1 DEF QueueFine
  <2>2. ASSUME NEW p \in LaterOps(o)
        PROVE  /\ outbox'[p].rid = events'[e].rid /\ outbox'[p].expected = events'[e].etag
               /\ outbox'[p].op # "create"
               /\ (\A q \in LaterOps(o) : q <= p) => outbox'[p].content = events'[e].content
               /\ \A q \in LaterOps(o) :
                    q < p => outbox'[p].dep \in LaterOps(o) /\ q <= outbox'[p].dep
    <3>1. p \in ActiveOps(e) /\ p # o /\ LaterOps(o) # {}
      BY <1>4
    <3>2. /\ o < p
          /\ \A q \in LaterOps(o) :
                q < p => outbox[p].dep \in LaterOps(o) /\ q <= outbox[p].dep
      BY <1>1, <1>4, <3>1, OldestDone
    <3>3. outbox[p].rid = events[e].rid /\ (outbox[p].op = "create" => events[e].rid = None)
          /\ ((\A q \in ActiveOps(e) : q <= p) => outbox[p].content = events[e].content)
      BY <1>1, <3>1 DEF QueueFine, Created
    <3>4. (\A q \in LaterOps(o) : q <= p) => \A q \in ActiveOps(e) : q <= p
      <4>1. o <= p
        BY <1>1, <3>1, <3>2, TableMembers DEF ActiveOps, OpsOf
      <4> QED
        BY <1>4, <4>1
    <3> QED
      BY <1>1, <1>2, <1>5, <3>1, <3>2, <3>3, <3>4 DEF HomeOf
  <2>3. CASE LaterOps(o) # {}
    BY <1>2, <1>5, <1>6, <2>2, <2>3 DEF QueueFine, Created, Started
  <2> QED
    BY <2>1, <2>3
<1>8. ASSUME NEW f \in DOMAIN events, f # e PROVE QueueFine(f)'
  <2>1. \A p \in DOMAIN outbox : p \in LaterOps(o) \/ p = o => outbox[p].event = e
    BY <1>4 DEF ActiveOps, OpsOf
  <2>2. \A p \in DOMAIN outbox : outbox[p].event # e => outbox'[p] = outbox[p]
    BY <1>3, <2>1
  <2>3. \A p \in DOMAIN outbox : outbox[p].event = e => outbox'[p].event = e
    <3>1. \A p \in DOMAIN outbox : p # o /\ p \notin LaterOps(o) => outbox'[p] = outbox[p]
      BY <1>3
    <3> QED
      BY <1>3, <1>5, <3>1
  <2>4. OpsOf(f)' = OpsOf(f) /\ \A p \in OpsOf(f) : outbox'[p] = outbox[p]
    BY <1>3, <1>8, <2>2, <2>3 DEF OpsOf
  <2> QED
    BY <1>2, <1>8, <2>4, QueueUntouched DEF QueuesFine
<1> QED
  BY <1>2, <1>7, <1>8 DEF QueuesFine

\* The acknowledgement of a removal whose row is the oldest: it takes its event
\* with it, or the rows behind it stay.
LEMMA AcknowledgeRemovalQueues ==
    ASSUME StoreAssumption, TypeOK, QueuesFine, NEW o, AcknowledgeRemoval(o),
           outbox[o].op = "remove", outbox[o].state \in ActiveStates, IsFirst(o)
    PROVE  QueuesFine'
<1>0. PICK e \in DOMAIN events : e = outbox[o].event
  BY TableMembers DEF AcknowledgeRemoval
<1>1. /\ o \in DOMAIN outbox /\ outbox[o] \in OutboxRows /\ outbox[o].event = e
      /\ QueueFine(e)
  BY <1>0, TableMembers DEF AcknowledgeRemoval, QueuesFine
<1>2. CASE Purges(o)
  BY <1>2, DeleteEventQueues DEF AcknowledgeRemoval
<1>3. CASE ~Purges(o)
  <2>1. LaterOps(o) # {} /\ UNCHANGED events
        /\ outbox' = [outbox EXCEPT ![o].state = "done"]
    BY <1>3 DEF AcknowledgeRemoval, Purges
  <2>2. /\ DOMAIN outbox' = DOMAIN outbox
        /\ outbox'[o].event = e /\ outbox'[o].state = "done"
        /\ \A p \in DOMAIN outbox \ {o} : outbox'[p] = outbox[p]
    BY <1>1, <2>1 DEF OutboxRows
  <2>3. LaterOps(o) = ActiveOps(e) \ {o} /\ o \in ActiveOps(e)
    BY <1>1 DEF LaterOps, ActiveOps, OpsOf
  <2>4. ActiveOps(e)' = LaterOps(o)
    BY <2>2, <2>3 DEF ActiveOps, OpsOf, ActiveStates
  <2>5. \A p \in LaterOps(o) : outbox'[p] = outbox[p]
    BY <2>2, <2>3 DEF ActiveOps, OpsOf
  <2>6. QueueFine(e)'
    <3>1. ASSUME NEW p \in LaterOps(o)
          PROVE  /\ outbox[p].rid = events[e].rid /\ outbox[p].expected = events[e].etag
                 /\ outbox[p].op = "create" => events[e].rid = None
                 /\ (\A q \in LaterOps(o) : q <= p) => outbox[p].content = events[e].content
                 /\ outbox[p].state \notin {"sending", "retry_wait", "blocked"}
                 /\ \A q \in LaterOps(o) :
                      q < p => outbox[p].dep \in LaterOps(o) /\ q <= outbox[p].dep
      <4>1. p \in ActiveOps(e) /\ p # o
        BY <2>3
      <4>2. /\ o < p /\ outbox[p].state = "pending"
            /\ \A q \in LaterOps(o) :
                  q < p => outbox[p].dep \in LaterOps(o) /\ q <= outbox[p].dep
        BY <1>1, <2>3, <4>1, OldestDone
      <4>3. (\A q \in LaterOps(o) : q <= p) => \A q \in ActiveOps(e) : q <= p
        <5>1. o <= p
          BY <1>1, <4>1, <4>2, TableMembers DEF ActiveOps, OpsOf
        <5> QED
          BY <2>3, <5>1
      <4> QED
        BY <1>1, <4>1, <4>2, <4>3 DEF QueueFine, Created
    <3>2. events[e].dirty
      BY <1>1, <2>3 DEF QueueFine
    <3> QED
      BY <2>1, <2>4, <2>5, <3>1, <3>2 DEF QueueFine, Created, Started
  <2>7. ASSUME NEW f \in DOMAIN events, f # e PROVE QueueFine(f)'
    <3>1. OpsOf(f)' = OpsOf(f) /\ \A p \in OpsOf(f) : outbox'[p] = outbox[p]
      BY <1>1, <2>2, <2>7 DEF OpsOf
    <3> QED
      BY <2>1, <2>7, <3>1, QueueUntouched DEF QueuesFine
  <2> QED
    BY <2>1, <2>6, <2>7 DEF QueuesFine
<1> QED
  BY <1>2, <1>3

-----------------------------------------------------------------------------
(* What the tables say of the versions at the server.                      *)

\* With calendar s at the server: a revision is not ahead of the server, and
\* the server's own revision comes with the server's content.
Faithful(s, r, etag, c) ==
    /\ etag <= s[r].etag
    /\ etag = s[r].etag /\ s[r].state = "live" => c = s[r].content

\* An event's revision is one of its identity; a clean one says what the server
\* says, or said, and is marked deleted only when the server's is gone.
RowTrue(s, row) ==
    /\ row.rid = None <=> row.etag = None
    /\ row.rid # None => row.etag <= s[row.rid].etag
    /\ row.dirty = FALSE =>
        /\ row.rid # None /\ Faithful(s, row.rid, row.etag, row.content)
        /\ row.deleted = TRUE => s[row.rid].state = "gone"

\* A conflict is about a dirty event and a newer version, or a deletion.
ConflictTrue(s, row, conflict) ==
    /\ row.rid # None /\ row.dirty = TRUE
    /\ IF conflict.rev = None
       THEN s[row.rid].state = "gone"
       ELSE /\ row.etag < conflict.rev
            /\ Faithful(s, row.rid, conflict.rev, conflict.remote)

\* All of them.
TablesTrue ==
    /\ \A e \in DOMAIN events : RowTrue(server, events[e])
    /\ \A e \in DOMAIN conflicts : ConflictTrue(server, events[e], conflicts[e])

\* Event e has the server's version of r, as its revision or as a conflict.
Holds(e, r) ==
    /\ e \in RowsWith(r)
    /\ \/ events[e].etag = server[r].etag
       \/ e \in DOMAIN conflicts /\ conflicts[e].rev = server[r].etag

\* Event e, if it is r, shows that r was deleted, or an edit.
Marked(e, r) ==
    e \in RowsWith(r) =>
        /\ events[e].dirty = TRUE \/ events[e].deleted = TRUE
        /\ e \in DOMAIN conflicts => conflicts[e].rev = None

\* What the server has of r has arrived in the store.
InStore(r) ==
    /\ server[r].state = "live" => \E e \in EventIds : Holds(e, r)
    /\ server[r].state = "gone" => \A e \in EventIds : Marked(e, r)

\* The versions are numbered in order, and none is ahead of the clock.
ClocksFine ==
    /\ token <= clock /\ job.cursor <= clock
    /\ job.phase = "apply" => token <= job.cursor
    /\ \A r \in RemoteIds : server[r].etag <= clock

\* What a step may do at the server: publish a version newer than all, under
\* ids that are not gone.
ServerMoves ==
    /\ clock <= clock'
    /\ \A r \in RemoteIds :
        /\ server'[r].etag <= clock'
        /\ \/ server'[r] = server[r]
           \/ clock < server'[r].etag /\ ~Gone(r)

\* What a step does to the tables, the ids in S aside.
VersionsKept(S) ==
    /\ TablesTrue'
    /\ \A r \in RemoteIds \ S : server'[r] = server[r] /\ InStore(r) => InStore(r)'
    /\ \A r \in RemoteIds : server'[r].state = "live" /\ RowsWith(r) # {}
                                => RowsWith(r)' # {}

\* The members of the tables and of the server, with the numbers they hold.
LEMMA VersionMembers ==
    ASSUME StoreAssumption, TypeOK, ServerOK
    PROVE  /\ clock \in Int /\ \A r \in RemoteIds : server[r].etag \in Int
           /\ \A e \in DOMAIN events : e \in EventIds /\ events[e] \in EventRows
           /\ \A row \in EventRows : /\ row.etag \in Int /\ row.dirty \in BOOLEAN
                                     /\ row.deleted \in BOOLEAN
                                     /\ row.rid \in RemoteIds \/ row.rid = None
           /\ DOMAIN conflicts \subseteq DOMAIN events
           /\ \A e \in DOMAIN conflicts : conflicts[e] \in ConflictRows
           /\ \A conflict \in ConflictRows : conflict.rev \in Int
  BY DEF TypeOK, EventsOK, ConflictsOK, ServerOK, EventRows, ConflictRows, Resources,
         Etags, None

\* What was true of a revision stays true of it.
LEMMA FaithfulKept ==
    ASSUME StoreAssumption, TypeOK, ServerOK, ServerOK', ClocksFine, ServerMoves,
           NEW r \in RemoteIds, NEW etag \in Int, NEW c, Faithful(server, r, etag, c)
    PROVE  Faithful(server', r, etag, c)
<1>1. CASE server'[r] = server[r]
  BY <1>1 DEF Faithful
<1>2. CASE server'[r] # server[r]
  <2>1. clock < server'[r].etag /\ server[r].etag <= clock
    BY <1>2 DEF ServerMoves, ClocksFine
  <2>2. clock \in Int /\ server[r].etag \in Int /\ server'[r].etag \in Int
    BY VersionMembers DEF ServerOK, Resources, Etags, None
  <2>3. etag <= server[r].etag
    BY DEF Faithful
  <2> QED
    BY <2>1, <2>2, <2>3 DEF Faithful
<1> QED
  BY <1>1, <1>2

\* So is what a row says.
LEMMA RowTrueKept ==
    ASSUME StoreAssumption, TypeOK, ServerOK, ServerOK', ClocksFine, ServerMoves,
           NEW row \in EventRows, RowTrue(server, row)
    PROVE  RowTrue(server', row)
<1>1. CASE row.rid = None
  BY <1>1 DEF RowTrue
<1>2. CASE row.rid # None
  <2>1. row.rid \in RemoteIds /\ row.etag \in Int
    BY <1>2, VersionMembers
  <2>2. row.etag <= server[row.rid].etag
    BY <1>2 DEF RowTrue
  <2>3. row.etag <= server'[row.rid].etag
    <3>1. server[row.rid].etag \in Int /\ server'[row.rid].etag \in Int /\ clock \in Int
      BY <2>1, VersionMembers DEF ServerOK, Resources, Etags, None
    <3>2. \/ server'[row.rid] = server[row.rid]
          \/ clock < server'[row.rid].etag /\ server[row.rid].etag <= clock
      BY <2>1 DEF ServerMoves, ClocksFine
    <3> QED
      BY <2>1, <2>2, <3>1, <3>2
  <2>4. server[row.rid].state = "gone" => server'[row.rid].state = "gone"
    BY <2>1 DEF ServerMoves, Gone
  <2>5. Faithful(server, row.rid, row.etag, row.content)
            => Faithful(server', row.rid, row.etag, row.content)
    BY <2>1, FaithfulKept
  <2> QED
    BY <1>2, <2>3, <2>4, <2>5 DEF RowTrue
<1> QED
  BY <1>1, <1>2

\* And what a conflict says.
LEMMA ConflictTrueKept ==
    ASSUME StoreAssumption, TypeOK, ServerOK, ServerOK', ClocksFine, ServerMoves,
           NEW row \in EventRows, NEW conflict \in ConflictRows,
           ConflictTrue(server, row, conflict)
    PROVE  ConflictTrue(server', row, conflict)
<1>1. row.rid \in RemoteIds /\ conflict.rev \in Int
  BY VersionMembers DEF ConflictTrue
<1>2. server[row.rid].state = "gone" => server'[row.rid].state = "gone"
  BY <1>1 DEF ServerMoves, Gone
<1>3. Faithful(server, row.rid, conflict.rev, conflict.remote)
          => Faithful(server', row.rid, conflict.rev, conflict.remote)
  BY <1>1, FaithfulKept
<1> QED
  BY <1>2, <1>3 DEF ConflictTrue

\* A transaction about one event: the others keep what they say.
LEMMA OneEventVersions ==
    ASSUME StoreAssumption, TypeOK, TypeOK', ServerOK, ServerOK', ClocksFine, ServerMoves,
           TablesTrue, NEW e, NEW S,
           \A f \in EventIds \ {e} :
            /\ f \in DOMAIN events' <=> f \in DOMAIN events
            /\ f \in DOMAIN events => events'[f] = events[f]
            /\ f \in DOMAIN conflicts' <=> f \in DOMAIN conflicts
            /\ f \in DOMAIN conflicts => conflicts'[f] = conflicts[f],
           e \in DOMAIN events' => RowTrue(server', events'[e]),
           e \in DOMAIN conflicts' => ConflictTrue(server', events'[e], conflicts'[e]),
           \A r \in RemoteIds \ S : server'[r] = server[r] =>
            /\ server[r].state = "live" /\ Holds(e, r) => Holds(e, r)'
            /\ server[r].state = "gone" /\ InStore(r) => Marked(e, r)',
           \A r \in RemoteIds :
            server'[r].state = "live" /\ e \in RowsWith(r) => RowsWith(r)' # {}
    PROVE  VersionsKept(S)
<1>1. /\ DOMAIN events \subseteq EventIds /\ DOMAIN events' \subseteq EventIds
      /\ DOMAIN conflicts' \subseteq DOMAIN events'
  BY DEF TypeOK, EventsOK, ConflictsOK
<1>2. ASSUME NEW f \in DOMAIN events' PROVE RowTrue(server', events'[f])
  <2>1. CASE f # e
    BY <1>1, <1>2, <2>1, VersionMembers, RowTrueKept DEF TablesTrue
  <2> QED
    BY <1>2, <2>1
<1>3. ASSUME NEW f \in DOMAIN conflicts'
      PROVE  ConflictTrue(server', events'[f], conflicts'[f])
  <2>1. CASE f # e
    <3>1. /\ f \in DOMAIN events /\ events'[f] = events[f]
          /\ f \in DOMAIN conflicts /\ conflicts'[f] = conflicts[f]
      BY <1>1, <1>3, <2>1
    <3> QED
      BY <3>1, VersionMembers, ConflictTrueKept DEF TablesTrue
  <2> QED
    BY <1>3, <2>1
<1>4. ASSUME NEW r \in RemoteIds \ S, server'[r] = server[r], InStore(r)
      PROVE  InStore(r)'
  <2>1. ASSUME NEW f \in EventIds, f # e PROVE Holds(f, r) => Holds(f, r)'
    BY <1>1, <1>4, <2>1 DEF Holds, RowsWith
  <2>2. ASSUME NEW f \in EventIds, f # e PROVE Marked(f, r) => Marked(f, r)'
    BY <1>1, <1>4, <2>2 DEF Marked, RowsWith
  <2>3. e \in RowsWith(r) => e \in EventIds
    BY <1>1 DEF RowsWith
  <2>4. ASSUME server[r].state = "live" PROVE \E f \in EventIds : Holds(f, r)'
    BY <1>4, <2>1, <2>3, <2>4 DEF InStore, Holds
  <2>5. ASSUME server[r].state = "gone", NEW f \in EventIds PROVE Marked(f, r)'
    BY <1>4, <2>2, <2>5 DEF InStore
  <2> QED
    BY <1>4, <2>4, <2>5 DEF InStore
<1>5. ASSUME NEW r \in RemoteIds, server'[r].state = "live", RowsWith(r) # {}
      PROVE  RowsWith(r)' # {}
  <2>1. PICK f \in DOMAIN events : f \in RowsWith(r)
    BY <1>5 DEF RowsWith
  <2>2. CASE f = e
    BY <1>5, <2>1, <2>2
  <2>3. CASE f # e
    BY <1>1, <2>1, <2>3 DEF RowsWith
  <2> QED
    BY <2>2, <2>3
<1> QED
  BY <1>2, <1>3, <1>4, <1>5 DEF VersionsKept, TablesTrue

\* A step that leaves the server alone.
LEMMA ServerStays ==
    ASSUME ServerOK, ClocksFine, UNCHANGED remoteVars
    PROVE  ServerOK' /\ ServerMoves /\ server' = server
<1>1. server' = server /\ clock' = clock
  BY DEF remoteVars
<1>2. ServerOK'
  BY ServerKept
<1>3. clock <= clock'
  BY <1>1 DEF ServerOK
<1>4. \A r \in RemoteIds : server'[r].etag <= clock' /\ server'[r] = server[r]
  BY <1>1 DEF ClocksFine
<1> QED
  BY <1>1, <1>2, <1>3, <1>4 DEF ServerMoves

\* A transaction that leaves events and conflicts alone.
LEMMA SameTablesVersions ==
    ASSUME StoreAssumption, TypeOK, TypeOK', ServerOK, ServerOK', ClocksFine, ServerMoves,
           TablesTrue, UNCHANGED <<events, conflicts>>
    PROVE  VersionsKept({})
<1>1. TablesTrue'
  BY VersionMembers, RowTrueKept, ConflictTrueKept DEF TablesTrue
<1>2. \A r \in RemoteIds : RowsWith(r)' = RowsWith(r)
  BY DEF RowsWith
<1>3. ASSUME NEW r \in RemoteIds, server'[r] = server[r], InStore(r) PROVE InStore(r)'
  BY <1>2, <1>3 DEF InStore, Holds, Marked
<1> QED
  BY <1>1, <1>2, <1>3 DEF VersionsKept

\* DELETE FROM events: the event is not one that lives at the server.
LEMMA DeleteEventVersions ==
    ASSUME StoreAssumption, TypeOK, TypeOK', ServerOK, ServerOK', ClocksFine, ServerMoves,
           TablesTrue, NEW e, DeleteEvent(e),
           \A r \in RemoteIds : e \in RowsWith(r) => server'[r].state # "live"
    PROVE  VersionsKept({})
<1>1. /\ DOMAIN events' = DOMAIN events \ {e}
      /\ \A f \in DOMAIN events' : events'[f] = events[f]
      /\ DOMAIN conflicts' = DOMAIN conflicts \ {e}
      /\ \A f \in DOMAIN conflicts' : conflicts'[f] = conflicts[f]
  BY DEF DeleteEvent, Restrict
<1>2. DOMAIN conflicts \subseteq DOMAIN events
  BY VersionMembers
<1>3. \A r \in RemoteIds : Marked(e, r)' /\ (e \in RowsWith(r) <=> Holds(e, r) \/ e \in RowsWith(r))
  BY <1>1 DEF Marked, RowsWith, Holds
<1>4. \A f \in EventIds \ {e} :
            /\ f \in DOMAIN events' <=> f \in DOMAIN events
            /\ f \in DOMAIN events => events'[f] = events[f]
            /\ f \in DOMAIN conflicts' <=> f \in DOMAIN conflicts
            /\ f \in DOMAIN conflicts => conflicts'[f] = conflicts[f]
  BY <1>1, <1>2
<1>5. e \notin DOMAIN events' /\ e \notin DOMAIN conflicts'
  BY <1>1
<1>6. ASSUME NEW r \in RemoteIds, server'[r] = server[r]
      PROVE  ~(server[r].state = "live" /\ Holds(e, r))
  BY <1>6 DEF Holds
<1> QED
  BY <1>3, <1>4, <1>5, <1>6, OneEventVersions

\* A local edit of event e, or a new one: its identity and its revision stay
\* and it is dirty.
LEMMA PutVersions ==
    ASSUME StoreAssumption, TypeOK, TypeOK', ServerOK, UNCHANGED remoteVars,
           ClocksFine, TablesTrue, NEW e \in EventIds, NEW row, events' = Put(events, e, row),
           UNCHANGED conflicts, row.dirty = TRUE,
           IF e \in DOMAIN events THEN row.rid = events[e].rid /\ row.etag = events[e].etag
                                  ELSE row.rid = None /\ row.etag = None
    PROVE  VersionsKept({})
<1>1. ServerOK' /\ ServerMoves /\ server' = server
  BY ServerStays
<1>2. /\ DOMAIN events' = DOMAIN events \cup {e} /\ events'[e] = row
      /\ \A f \in DOMAIN events \ {e} : events'[f] = events[f]
  BY DEF Put
<1>3. RowTrue(server', events'[e])
  BY <1>1, <1>2 DEF TablesTrue, RowTrue
<1>4. ASSUME e \in DOMAIN conflicts' PROVE ConflictTrue(server', events'[e], conflicts'[e])
  BY <1>1, <1>2, <1>4, VersionMembers DEF TablesTrue, ConflictTrue
<1>5. \A r \in RemoteIds : e \in RowsWith(r) => e \in RowsWith(r)'
  BY <1>2 DEF RowsWith
<1>6. ASSUME NEW r \in RemoteIds, Holds(e, r) PROVE Holds(e, r)'
  BY <1>1, <1>2, <1>5, <1>6 DEF Holds, RowsWith
<1>7. ASSUME NEW r \in RemoteIds, server[r].state = "gone", InStore(r) PROVE Marked(e, r)'
  <2>1. Marked(e, r)
    BY <1>7 DEF InStore
  <2>2. e \in RowsWith(r)' => e \in RowsWith(r)
    BY <1>2 DEF RowsWith, RemoteIds, None
  <2> QED
    BY <1>2, <2>1, <2>2 DEF Marked
<1>8. \A f \in EventIds \ {e} :
            /\ f \in DOMAIN events' <=> f \in DOMAIN events
            /\ f \in DOMAIN events => events'[f] = events[f]
            /\ f \in DOMAIN conflicts' <=> f \in DOMAIN conflicts
            /\ f \in DOMAIN conflicts => conflicts'[f] = conflicts[f]
  BY <1>2
<1> QED
  BY <1>1, <1>3, <1>4, <1>5, <1>6, <1>7, <1>8, OneEventVersions

\* The commands that write an event.
LEMMA UserEditVersions ==
    ASSUME StoreAssumption, TypeOK, TypeOK', ServerOK, UNCHANGED remoteVars,
           ClocksFine, TablesTrue, QueuesFine, NEW e \in EventIds,
           NEW c \in Contents, NEW deleted \in BOOLEAN,
           CreateEvent(e, c) \/ UpdateEvent(e, c, deleted) \/ RemoveEvent(e)
    PROVE  VersionsKept({})
<1>0. ServerOK' /\ ServerMoves /\ server' = server
  BY ServerStays
<1>1. ASSUME NEW o, NEW op, CancelUnsynced(e, o, op) PROVE VersionsKept({})
  <2>1. /\ o \in DOMAIN outbox /\ outbox[o].event = e /\ outbox[o].state \in ActiveStates
        /\ Created(o) /\ DeleteEvent(e)
    BY <1>1 DEF CancelUnsynced, IsNewest, QueuedOps, OpsOf, Created, ActiveStates, QueuedStates
  <2>2. e \in DOMAIN events /\ events[e].rid = None
    BY <2>1, TableMembers DEF QueuesFine, QueueFine, ActiveOps, OpsOf
  <2>3. \A r \in RemoteIds : e \notin RowsWith(r)
    BY <2>2 DEF RowsWith, RemoteIds, None
  <2> QED
    BY <1>0, <2>1, <2>3, DeleteEventVersions
<1>2. ASSUME NEW row, NEW op, SaveLocalEvent(e, row, op), row.dirty = TRUE,
             IF e \in DOMAIN events THEN row.rid = events[e].rid /\ row.etag = events[e].etag
                                    ELSE row.rid = None /\ row.etag = None
      PROVE  VersionsKept({})
  <2>1. CASE events' = Put(events, e, row) /\ UNCHANGED conflicts
    BY <1>2, <2>1, PutVersions
  <2> QED
    BY <1>1, <1>2, <2>1 DEF SaveLocalEvent, Coalesce, Enqueue
<1>3. CASE CreateEvent(e, c)
  <2> DEFINE row == [rid |-> None, etag |-> None, content |-> c, dirty |-> TRUE,
                     deleted |-> FALSE]
  <2>1. row.dirty = TRUE /\ row.rid = None /\ row.etag = None
    OBVIOUS
  <2>2. SaveLocalEvent(e, row, "create") /\ e \notin DOMAIN events
    BY <1>3 DEF CreateEvent
  <2> HIDE DEF row
  <2> QED
    BY <1>2, <2>1, <2>2
<1>4. CASE UpdateEvent(e, c, deleted)
  <2> DEFINE row == [events[e] EXCEPT !.content = c, !.dirty = TRUE, !.deleted = deleted]
  <2>1. e \in DOMAIN events /\ SaveLocalEvent(e, row, "update")
    BY <1>4 DEF UpdateEvent
  <2>2. row.dirty = TRUE /\ row.rid = events[e].rid /\ row.etag = events[e].etag
    BY <2>1, TableMembers DEF EventRows
  <2> HIDE DEF row
  <2> QED
    BY <1>2, <2>1, <2>2
<1>5. CASE RemoveEvent(e)
  <2> DEFINE row == [events[e] EXCEPT !.dirty = TRUE, !.deleted = TRUE]
  <2>1. e \in DOMAIN events /\ SaveLocalEvent(e, row, "remove")
    BY <1>5 DEF RemoveEvent
  <2>2. row.dirty = TRUE /\ row.rid = events[e].rid /\ row.etag = events[e].etag
    BY <2>1, TableMembers DEF EventRows
  <2> HIDE DEF row
  <2> QED
    BY <1>2, <2>1, <2>2
<1> QED
  BY <1>3, <1>4, <1>5

\* A conflict decided for the server's side: the event takes over what the
\* conflict holds, which is the server's version if the event or the conflict was.
LEMMA KeepRemoteVersions ==
    ASSUME StoreAssumption, TypeOK, TypeOK', ServerOK, UNCHANGED remoteVars,
           ClocksFine, TablesTrue, NEW e, KeepRemote(e)
    PROVE  VersionsKept({})
<1>0. ServerOK' /\ ServerMoves /\ server' = server
  BY ServerStays
<1>1. /\ e \in DOMAIN conflicts /\ e \in DOMAIN events /\ e \in EventIds
      /\ events[e] \in EventRows /\ conflicts[e] \in ConflictRows
      /\ ConflictTrue(server, events[e], conflicts[e]) /\ RowTrue(server, events[e])
  BY VersionMembers DEF KeepRemote, TablesTrue
<1>2. /\ DOMAIN events' = DOMAIN events
      /\ \A f \in DOMAIN events \ {e} : events'[f] = events[f]
      /\ events'[e].rid = events[e].rid /\ events'[e].dirty = FALSE
      /\ IF conflicts[e].rev = None
         THEN /\ events'[e].etag = events[e].etag /\ events'[e].deleted = TRUE
              /\ events'[e].content = events[e].content
         ELSE /\ events'[e].etag = conflicts[e].rev /\ events'[e].deleted = FALSE
              /\ events'[e].content = conflicts[e].remote
  BY <1>1 DEF KeepRemote, RemoteSide, EventRows
<1>3. /\ DOMAIN conflicts' = DOMAIN conflicts \ {e}
      /\ \A f \in DOMAIN conflicts' : conflicts'[f] = conflicts[f]
  BY DEF KeepRemote, CloseConflict, Restrict
<1>4. events[e].rid \in RemoteIds
  BY <1>1, VersionMembers DEF ConflictTrue
<1>5. RowTrue(server', events'[e])
  <2>1. CASE conflicts[e].rev = None
    BY <1>0, <1>1, <1>2, <2>1 DEF ConflictTrue, RowTrue, Faithful
  <2>2. CASE conflicts[e].rev # None
    BY <1>0, <1>1, <1>2, <2>2 DEF ConflictTrue, RowTrue, Faithful
  <2> QED
    BY <2>1, <2>2
<1>6. \A r \in RemoteIds : e \in RowsWith(r) <=> e \in RowsWith(r)'
  BY <1>1, <1>2 DEF RowsWith
<1>7. ASSUME NEW r \in RemoteIds, server[r].state = "live", Holds(e, r) PROVE Holds(e, r)'
  <2>1. events[e].rid = r
    BY <1>7 DEF Holds, RowsWith
  <2>2. /\ conflicts[e].rev # None /\ events[e].etag < conflicts[e].rev
        /\ conflicts[e].rev <= server[r].etag
    BY <1>1, <1>7, <2>1 DEF ConflictTrue, Faithful
  <2>3. events[e].etag \in Int /\ conflicts[e].rev \in Int /\ server[r].etag \in Int
    BY <1>1, VersionMembers
  <2>4. conflicts[e].rev = server[r].etag
    BY <1>7, <2>2, <2>3 DEF Holds
  <2> QED
    BY <1>0, <1>2, <1>6, <1>7, <2>2, <2>4 DEF Holds
<1>8. ASSUME NEW r \in RemoteIds, server[r].state = "gone", InStore(r) PROVE Marked(e, r)'
  BY <1>1, <1>2, <1>3, <1>6, <1>8 DEF InStore, Marked
<1>9. \A f \in EventIds \ {e} :
            /\ f \in DOMAIN events' <=> f \in DOMAIN events
            /\ f \in DOMAIN events => events'[f] = events[f]
            /\ f \in DOMAIN conflicts' <=> f \in DOMAIN conflicts
            /\ f \in DOMAIN conflicts => conflicts'[f] = conflicts[f]
  BY <1>2, <1>3
<1> QED
  BY <1>0, <1>3, <1>5, <1>6, <1>7, <1>8, <1>9, OneEventVersions

\* A conflict decided for the local side: the edit is based on what the conflict
\* holds, or has no identity any more.
LEMMA KeepLocalVersions ==
    ASSUME StoreAssumption, TypeOK, TypeOK', ServerOK, UNCHANGED remoteVars,
           ClocksFine, TablesTrue, NEW e, NEW content, NEW deleted,
           KeepLocal(e, content, deleted)
    PROVE  VersionsKept({})
<1>0. ServerOK' /\ ServerMoves /\ server' = server
  BY ServerStays
<1>1. /\ e \in DOMAIN conflicts /\ e \in DOMAIN events /\ e \in EventIds
      /\ events[e] \in EventRows /\ conflicts[e] \in ConflictRows
      /\ ConflictTrue(server, events[e], conflicts[e]) /\ RowTrue(server, events[e])
  BY VersionMembers DEF KeepLocal, TablesTrue
<1> DEFINE row == [rid |-> IF conflicts[e].rev = None THEN None ELSE events[e].rid,
                   etag |-> conflicts[e].rev, content |-> content,
                   dirty |-> TRUE, deleted |-> deleted]
<1>2. /\ row.dirty = TRUE /\ row.etag = conflicts[e].rev
      /\ row.rid = IF conflicts[e].rev = None THEN None ELSE events[e].rid
  OBVIOUS
<1>3. events' = Put(events, e, row)
  BY DEF KeepLocal
<1> HIDE DEF row
<1>4. /\ DOMAIN events' = DOMAIN events /\ events'[e] = row
      /\ \A f \in DOMAIN events \ {e} : events'[f] = events[f]
  BY <1>1, <1>3 DEF Put
<1>5. /\ DOMAIN conflicts' = DOMAIN conflicts \ {e}
      /\ \A f \in DOMAIN conflicts' : conflicts'[f] = conflicts[f]
  BY DEF KeepLocal, CloseConflict, Restrict
<1>6. RowTrue(server', events'[e])
  <2>1. CASE conflicts[e].rev = None
    BY <1>2, <1>4, <2>1 DEF RowTrue
  <2>2. CASE conflicts[e].rev # None
    BY <1>0, <1>1, <1>2, <1>4, <2>2 DEF ConflictTrue, RowTrue, Faithful
  <2> QED
    BY <2>1, <2>2
<1>7. \A r \in RemoteIds : e \in RowsWith(r) /\ server[r].state = "live"
            => conflicts[e].rev # None /\ e \in RowsWith(r)'
  BY <1>1, <1>2, <1>4 DEF RowsWith, ConflictTrue
<1>8. ASSUME NEW r \in RemoteIds, server[r].state = "live", Holds(e, r) PROVE Holds(e, r)'
  <2>1. events[e].rid = r /\ e \in RowsWith(r)' /\ conflicts[e].rev # None
    BY <1>7, <1>8 DEF Holds, RowsWith
  <2>2. events[e].etag < conflicts[e].rev /\ conflicts[e].rev <= server[r].etag
    BY <1>1, <2>1 DEF ConflictTrue, Faithful
  <2>3. events[e].etag \in Int /\ conflicts[e].rev \in Int /\ server[r].etag \in Int
    BY <1>1, VersionMembers
  <2>4. conflicts[e].rev = server[r].etag
    BY <1>8, <2>2, <2>3 DEF Holds
  <2> QED
    BY <1>0, <1>2, <1>4, <2>1, <2>4 DEF Holds
<1>9. ASSUME NEW r \in RemoteIds PROVE Marked(e, r)'
  BY <1>2, <1>4, <1>5 DEF Marked
<1>10. \A f \in EventIds \ {e} :
            /\ f \in DOMAIN events' <=> f \in DOMAIN events
            /\ f \in DOMAIN events => events'[f] = events[f]
            /\ f \in DOMAIN conflicts' <=> f \in DOMAIN conflicts
            /\ f \in DOMAIN conflicts => conflicts'[f] = conflicts[f]
  BY <1>4, <1>5
<1>11. ASSUME NEW r \in RemoteIds, server'[r].state = "live", e \in RowsWith(r)
       PROVE  RowsWith(r)' # {}
  BY <1>0, <1>7, <1>11
<1> QED
  BY <1>0, <1>5, <1>6, <1>8, <1>9, <1>10, <1>11, OneEventVersions

\* Applying a version of r that is newer than the store's: the event takes it
\* over, or keeps its edit and a conflict holds it.
LEMMA ApplyRemoteVersions ==
    ASSUME StoreAssumption, TypeOK, TypeOK', ServerOK, UNCHANGED remoteVars, ClocksFine,
           TablesTrue, NEW r \in RemoteIds, NEW etag \in Etags, NEW c,
           Faithful(server, r, etag, c), \A e \in RowsWith(r) : events[e].etag <= etag,
           ApplyRemote(r, etag, c)
    PROVE  /\ VersionsKept({r}) /\ RowsWith(r)' # {}
           /\ server[r].state = "live" /\ etag = server[r].etag
                => InStore(r)' /\ VersionsKept({})
<1>0. ServerOK' /\ ServerMoves /\ server' = server
  BY ServerStays
<1>1. etag \in Int /\ etag # None /\ r # None
  BY DEF Etags, RemoteIds, None, StoreAssumption
<1>2. ASSUME NEW e \in EventIds, e \in RowsWith(r)',
             \A f \in EventIds \ {e} :
                /\ f \in DOMAIN events' <=> f \in DOMAIN events
                /\ f \in DOMAIN events => events'[f] = events[f]
                /\ f \in DOMAIN conflicts' <=> f \in DOMAIN conflicts
                /\ f \in DOMAIN conflicts => conflicts'[f] = conflicts[f],
             RowTrue(server, events'[e]),
             e \in DOMAIN conflicts' => ConflictTrue(server, events'[e], conflicts'[e]),
             \A x \in RemoteIds : e \in RowsWith(x) => x = r,
             \/ events'[e].etag = etag
             \/ e \in DOMAIN conflicts' /\ conflicts'[e].rev = etag
      PROVE  /\ VersionsKept({r}) /\ RowsWith(r)' # {}
             /\ server[r].state = "live" /\ etag = server[r].etag
                  => InStore(r)' /\ VersionsKept({})
  <2>1. \A x \in RemoteIds : e \in RowsWith(x)' => x = r
    BY <1>2 DEF RowsWith
  <2>2. \A x \in RemoteIds \ {r} : ~Holds(e, x) /\ Marked(e, x)'
    BY <1>2, <2>1 DEF Holds, Marked
  <2>3. \A x \in RemoteIds :
            server'[x].state = "live" /\ e \in RowsWith(x) => RowsWith(x)' # {}
    BY <1>2
  <2>4. VersionsKept({r})
    BY <1>0, <1>2, <2>2, <2>3, OneEventVersions
  <2>5. ASSUME server[r].state = "live", etag = server[r].etag
        PROVE  InStore(r)' /\ VersionsKept({})
    <3>1. Holds(e, r)'
      BY <1>0, <1>2, <2>5 DEF Holds
    <3>2. InStore(r)'
      BY <1>0, <2>5, <3>1 DEF InStore
    <3> QED
      BY <2>4, <3>2 DEF VersionsKept
  <2> QED
    BY <1>2, <2>4, <2>5
<1>3. CASE \E e \in EventIds :
            /\ e \notin DOMAIN events
            /\ events' = Put(events, e, [rid |-> r, etag |-> etag, content |-> c,
                                         dirty |-> FALSE, deleted |-> FALSE])
            /\ UNCHANGED conflicts
  <2>1. PICK e \in EventIds :
            /\ e \notin DOMAIN events
            /\ events' = Put(events, e, [rid |-> r, etag |-> etag, content |-> c,
                                         dirty |-> FALSE, deleted |-> FALSE])
            /\ conflicts' = conflicts
    BY <1>3
  <2>2. /\ DOMAIN events' = DOMAIN events \cup {e}
        /\ events'[e] = [rid |-> r, etag |-> etag, content |-> c,
                         dirty |-> FALSE, deleted |-> FALSE]
        /\ \A f \in DOMAIN events : events'[f] = events[f]
    BY <2>1 DEF Put
  <2>3. RowTrue(server, events'[e])
    BY <1>1, <2>2 DEF RowTrue, Faithful
  <2>4. e \notin DOMAIN conflicts'
    BY <2>1, VersionMembers
  <2>5. e \in RowsWith(r)' /\ \A x \in RemoteIds : e \notin RowsWith(x)
    BY <2>1, <2>2 DEF RowsWith
  <2>6. events'[e].etag = etag
    BY <2>2
  <2>7. \A f \in EventIds \ {e} :
            /\ f \in DOMAIN events' <=> f \in DOMAIN events
            /\ f \in DOMAIN events => events'[f] = events[f]
            /\ f \in DOMAIN conflicts' <=> f \in DOMAIN conflicts
            /\ f \in DOMAIN conflicts => conflicts'[f] = conflicts[f]
    BY <2>1, <2>2
  <2> QED
    BY <1>2, <2>3, <2>4, <2>5, <2>6, <2>7
<1>4. CASE \E e \in RowsWith(r) :
            /\ ~events[e].dirty
            /\ events' = [events EXCEPT ![e].etag = etag, ![e].content = c,
                                        ![e].deleted = FALSE]
            /\ UNCHANGED conflicts
  <2>1. PICK e \in DOMAIN events :
            /\ events[e].rid = r /\ ~events[e].dirty
            /\ events' = [events EXCEPT ![e].etag = etag, ![e].content = c,
                                        ![e].deleted = FALSE]
            /\ conflicts' = conflicts
    BY <1>4 DEF RowsWith
  <2>2. /\ DOMAIN events' = DOMAIN events
        /\ events'[e].rid = r /\ events'[e].etag = etag /\ events'[e].content = c
        /\ events'[e].deleted = FALSE /\ events'[e].dirty = FALSE
        /\ \A f \in DOMAIN events \ {e} : events'[f] = events[f]
        /\ e \in EventIds /\ events[e].dirty = FALSE
    BY <2>1, VersionMembers DEF EventRows
  <2>3. RowTrue(server, events'[e])
    BY <1>1, <2>2 DEF RowTrue, Faithful
  <2>4. e \notin DOMAIN conflicts'
    BY <2>1, <2>2 DEF TablesTrue, ConflictTrue
  <2>5. e \in RowsWith(r)' /\ \A x \in RemoteIds : e \in RowsWith(x) => x = r
    BY <2>1, <2>2 DEF RowsWith
  <2>6. \A f \in EventIds \ {e} :
            /\ f \in DOMAIN events' <=> f \in DOMAIN events
            /\ f \in DOMAIN events => events'[f] = events[f]
            /\ f \in DOMAIN conflicts' <=> f \in DOMAIN conflicts
            /\ f \in DOMAIN conflicts => conflicts'[f] = conflicts[f]
    BY <2>1, <2>2
  <2> QED
    BY <1>2, <2>2, <2>3, <2>4, <2>5, <2>6
<1>5. CASE \E e \in RowsWith(r) :
            /\ events[e].dirty
            /\ IF etag # events[e].etag
               THEN \E newer \in Sides : RecordConflict(e, etag, c, newer)
               ELSE UNCHANGED conflicts
            /\ UNCHANGED events
  <2>1. PICK e \in DOMAIN events :
            /\ events[e].rid = r /\ events[e].dirty
            /\ IF etag # events[e].etag
               THEN \E newer \in Sides : RecordConflict(e, etag, c, newer)
               ELSE conflicts' = conflicts
            /\ events' = events
    BY <1>5 DEF RowsWith
  <2>2. /\ e \in EventIds /\ events[e].dirty = TRUE /\ events[e].etag \in Int
        /\ RowTrue(server, events[e])
    BY <2>1, VersionMembers DEF TablesTrue
  <2>3. e \in RowsWith(r) /\ \A x \in RemoteIds : e \in RowsWith(x) => x = r
    BY <2>1 DEF RowsWith
  <2>4. e \in RowsWith(r)'
    BY <2>1 DEF RowsWith
  <2>5. CASE etag # events[e].etag
    <3>1. PICK newer \in Sides : RecordConflict(e, etag, c, newer)
      BY <2>1, <2>5
    <3>2. /\ DOMAIN conflicts' = DOMAIN conflicts \cup {e}
          /\ conflicts'[e].rev = etag /\ conflicts'[e].remote = c
          /\ \A f \in DOMAIN conflicts \ {e} : conflicts'[f] = conflicts[f]
      BY <3>1 DEF RecordConflict, Put
    <3>3. events[e].etag < etag
      BY <1>1, <2>2, <2>3, <2>5
    <3>4. ConflictTrue(server, events'[e], conflicts'[e])
      BY <1>1, <2>1, <2>2, <3>2, <3>3 DEF ConflictTrue
    <3>5. \A f \in EventIds \ {e} :
            /\ f \in DOMAIN events' <=> f \in DOMAIN events
            /\ f \in DOMAIN events => events'[f] = events[f]
            /\ f \in DOMAIN conflicts' <=> f \in DOMAIN conflicts
            /\ f \in DOMAIN conflicts => conflicts'[f] = conflicts[f]
      BY <2>1, <3>2
    <3> QED
      BY <1>2, <2>1, <2>2, <2>3, <2>4, <3>2, <3>4, <3>5
  <2>6. CASE etag = events[e].etag
    <3>1. conflicts' = conflicts /\ events' = events
      BY <2>1, <2>6
    <3>2. e \in DOMAIN conflicts' => ConflictTrue(server, events'[e], conflicts'[e])
      BY <3>1 DEF TablesTrue
    <3> QED
      BY <1>2, <2>2, <2>3, <2>4, <2>6, <3>1, <3>2
  <2> QED
    BY <2>5, <2>6
<1> QED
  BY <1>3, <1>4, <1>5 DEF ApplyRemote

\* Applying a deletion.
LEMMA RemoveRemoteVersions ==
    ASSUME StoreAssumption, TypeOK, TypeOK', ServerOK, UNCHANGED remoteVars, ClocksFine,
           TablesTrue, RemoteIdentityUnique, NEW r \in RemoteIds,
           Gone(r) \/ RowsWith(r) = {}, RemoveRemote(r)
    PROVE  VersionsKept({}) /\ (Gone(r) => InStore(r)')
<1>0. ServerOK' /\ ServerMoves /\ server' = server
  BY ServerStays
<1>1. r # None
  BY DEF RemoteIds, None
<1>2. \A e, f \in RowsWith(r) : e = f
  BY <1>1 DEF RemoteIdentityUnique, RowsWith
<1>3. CASE RowsWith(r) = {} /\ UNCHANGED <<events, outbox, conflicts>>
  <2>1. RowsWith(r)' = {}
    BY <1>3 DEF RowsWith
  <2>2. Gone(r) => InStore(r)'
    BY <1>0, <2>1 DEF InStore, Marked, Gone
  <2> QED
    BY <1>0, <1>3, <2>2, SameTablesVersions
<1>4. CASE \E e \in RowsWith(r) : ~events[e].dirty /\ DeleteEvent(e)
  <2>1. PICK e \in RowsWith(r) : DeleteEvent(e)
    BY <1>4
  <2>2. \A x \in RemoteIds : e \in RowsWith(x) => server'[x].state # "live"
    BY <1>0, <2>1 DEF RowsWith, Gone
  <2>3. VersionsKept({})
    BY <1>0, <2>1, <2>2, DeleteEventVersions
  <2>4. RowsWith(r)' = {}
    <3>1. /\ DOMAIN events' = DOMAIN events \ {e}
          /\ \A f \in DOMAIN events' : events'[f] = events[f]
      BY <2>1 DEF DeleteEvent, Restrict
    <3> QED
      BY <1>2, <2>1, <3>1 DEF RowsWith
  <2> QED
    BY <1>0, <2>3, <2>4 DEF InStore, Marked, Gone
<1>5. CASE \E e \in RowsWith(r) :
            /\ events[e].dirty
            /\ RecordConflict(e, None, events[e].content, "unknown")
            /\ UNCHANGED <<events, outbox>>
  <2>1. PICK e \in DOMAIN events :
            /\ events[e].rid = r /\ events[e].dirty
            /\ RecordConflict(e, None, events[e].content, "unknown")
            /\ events' = events
    BY <1>5 DEF RowsWith
  <2>2. /\ e \in EventIds /\ events[e].dirty = TRUE /\ RowTrue(server, events[e])
        /\ e \in RowsWith(r) /\ Gone(r)
    BY <2>1, VersionMembers DEF TablesTrue, RowsWith
  <2>3. /\ DOMAIN conflicts' = DOMAIN conflicts \cup {e} /\ conflicts'[e].rev = None
        /\ \A f \in DOMAIN conflicts \ {e} : conflicts'[f] = conflicts[f]
    BY <2>1 DEF RecordConflict, Put
  <2>4. ConflictTrue(server, events'[e], conflicts'[e])
    BY <1>1, <2>1, <2>2, <2>3 DEF ConflictTrue, Gone
  <2>5. \A x \in RemoteIds : RowsWith(x)' = RowsWith(x) /\ Marked(e, x)'
    BY <2>1, <2>2, <2>3 DEF RowsWith, Marked
  <2>6. \A x \in RemoteIds : ~(server[x].state = "live" /\ Holds(e, x))
    BY <2>1, <2>2 DEF Holds, RowsWith, Gone
  <2>7. \A f \in EventIds \ {e} :
            /\ f \in DOMAIN events' <=> f \in DOMAIN events
            /\ f \in DOMAIN events => events'[f] = events[f]
            /\ f \in DOMAIN conflicts' <=> f \in DOMAIN conflicts
            /\ f \in DOMAIN conflicts => conflicts'[f] = conflicts[f]
    BY <2>1, <2>3
  <2>8. VersionsKept({})
    BY <1>0, <2>1, <2>2, <2>4, <2>5, <2>6, <2>7, OneEventVersions
  <2>9. \A f \in EventIds : Marked(f, r)'
    BY <1>2, <2>2, <2>5 DEF Marked
  <2> QED
    BY <1>0, <2>2, <2>8, <2>9 DEF InStore, Gone
<1> QED
  BY <1>3, <1>4, <1>5 DEF RemoveRemote

\* The acknowledgement of what the server has just accepted.
LEMMA AcknowledgeVersions ==
    ASSUME StoreAssumption, TypeOK, TypeOK', ServerOK, ServerOK', ServerMoves, ClocksFine,
           TablesTrue, NEW o, NEW v \in Versions, Acknowledge(o, v), ~Purges(o),
           outbox[o].event \notin DOMAIN conflicts, HomeOf(o) \in {None, v.rid},
           server'[v.rid] # server[v.rid], v.etag = server'[v.rid].etag,
           server'[v.rid].state = "live" => v.content = server'[v.rid].content
    PROVE  VersionsKept({})
<1>0. PICK e \in DOMAIN events : e = outbox[o].event
  BY TableMembers DEF Acknowledge
<1>1. /\ e \in EventIds /\ events[e] \in EventRows /\ v.rid \in RemoteIds /\ v.etag \in Int
      /\ v.rid # None /\ v.etag # None
  BY VersionMembers DEF Versions, RemoteIds, Etags, None
<1>2. /\ DOMAIN events' = DOMAIN events /\ conflicts' = conflicts
      /\ \A f \in DOMAIN events \ {e} : events'[f] = events[f]
      /\ events'[e].rid = v.rid /\ events'[e].etag = v.etag
      /\ events'[e].dirty = FALSE => /\ events'[e].content = v.content
                                     /\ events'[e].deleted = FALSE
  <2> DEFINE row == IF LaterOps(o) # {}
                    THEN [events[e] EXCEPT !.rid = v.rid, !.etag = v.etag, !.dirty = TRUE]
                    ELSE [rid |-> v.rid, etag |-> v.etag, content |-> v.content,
                          dirty |-> FALSE, deleted |-> FALSE]
  <2>1. /\ row.rid = v.rid /\ row.etag = v.etag
        /\ row.dirty = FALSE => row.content = v.content /\ row.deleted = FALSE
    BY <1>1 DEF EventRows
  <2>2. events' = [events EXCEPT ![e] = row] /\ conflicts' = conflicts
    BY <1>0 DEF Acknowledge
  <2> HIDE DEF row
  <2> QED
    BY <2>1, <2>2
<1>3. RowTrue(server', events'[e])
  BY <1>1, <1>2 DEF RowTrue, Faithful
<1>4. e \notin DOMAIN conflicts'
  BY <1>0, <1>2
<1>5. \A r \in RemoteIds : e \in RowsWith(r) => r = v.rid
  BY <1>0 DEF HomeOf, RowsWith, RemoteIds, None
<1>6. \A r \in RemoteIds : e \in RowsWith(r)' => r = v.rid
  BY <1>2 DEF RowsWith
<1>7. \A r \in RemoteIds : server'[r] = server[r] => ~Holds(e, r) /\ Marked(e, r)'
  BY <1>5, <1>6 DEF Holds, Marked
<1>8. e \in RowsWith(v.rid)'
  BY <1>2 DEF RowsWith
<1>9. \A f \in EventIds \ {e} :
            /\ f \in DOMAIN events' <=> f \in DOMAIN events
            /\ f \in DOMAIN events => events'[f] = events[f]
            /\ f \in DOMAIN conflicts' <=> f \in DOMAIN conflicts
            /\ f \in DOMAIN conflicts => conflicts'[f] = conflicts[f]
  BY <1>2
<1>10. \A r \in RemoteIds :
            server'[r].state = "live" /\ e \in RowsWith(r) => RowsWith(r)' # {}
  BY <1>5, <1>8
<1> QED
  BY <1>3, <1>4, <1>7, <1>9, <1>10, OneEventVersions

\* The acknowledgement of a removal: its event lives at the server no more.
LEMMA AcknowledgeRemovalVersions ==
    ASSUME StoreAssumption, TypeOK, TypeOK', ServerOK, ServerOK', ServerMoves, ClocksFine,
           TablesTrue, NEW o, AcknowledgeRemoval(o), outbox[o].op = "remove",
           HomeOf(o) # None => server'[HomeOf(o)].state # "live"
    PROVE  VersionsKept({})
<1>1. CASE Purges(o)
  <2>1. PICK e \in DOMAIN events : e = outbox[o].event
    BY TableMembers DEF AcknowledgeRemoval
  <2>2. \A r \in RemoteIds : e \in RowsWith(r) => server'[r].state # "live"
    BY <2>1 DEF HomeOf, RowsWith, RemoteIds, None
  <2> QED
    BY <1>1, <2>1, <2>2, DeleteEventVersions DEF AcknowledgeRemoval
<1>2. CASE ~Purges(o)
  BY <1>2, SameTablesVersions DEF AcknowledgeRemoval, Purges
<1> QED
  BY <1>1, <1>2

-----------------------------------------------------------------------------
(* What the job knows of the rows it sends and of the changes it applies.  *)

\* A row was dispatched and its attempt has not ended.
InFlight == job.phase \in {"complete", "mutate", "hydrate", "reconcile", "settle"}

\* A row in the snapshot is the oldest of its event, is unfinished, was not
\* given up, and says what it said when it was copied.
SnapFine ==
    \A o \in DOMAIN job.snap :
        /\ o \in DOMAIN outbox /\ outbox[o].state \in QueuedStates \cup {"sending"}
        /\ IsFirst(o) /\ SameRow(job.snap[o], outbox[o])

\* What a phase says of the staged changes, the snapshot and the current row.
PhaseFine ==
    /\ job.phase \in {"idle", "list", "apply", "drain", "resolve"} => DOMAIN job.snap = {}
    /\ job.phase # "apply" => DOMAIN job.todo = {}
    /\ InFlight => job.item \in DOMAIN job.snap
    /\ job.phase = "complete" => Sent.op = "remove" /\ Sent.rid = None
    /\ job.phase = "mutate" => ~(Sent.op = "remove" /\ Sent.rid = None)
    /\ job.phase = "hydrate" => Sent.op # "create"
    /\ job.phase = "reconcile" => Sent.op = "create" /\ server[job.item].state # "never"

\* A create that is marked as being sent, or has an edit behind it, has arrived
\* at the server, unless it is the row in flight or was given up.
HeardOf(o) ==
    Created(o) =>
        /\ outbox[o].state = "sending" =>
            server[o].state # "never" \/ (InFlight /\ job.item = o)
        /\ outbox[o].state \in ActiveStates /\ ~(\A q \in ActiveOps(outbox[o].event) : q <= o)
            => server[o].state # "never" \/ outbox[o].state = "blocked"

\* So has every create.
CreatesHeard == \A o \in DOMAIN outbox : HeardOf(o)

\* No version the store has of r, as a revision or as a conflict, is newer than n.
Behind(r, n) ==
    \A e \in RowsWith(r) :
        events[e].etag <= n /\ (e \in DOMAIN conflicts => conflicts[e].rev <= n)

\* A staged change lies between the token and the cursor, says what the server
\* says or said, and is no older than what the store has.
StagedTrue(r, t) ==
    /\ token < t.etag /\ t.etag <= job.cursor
    /\ Faithful(server, r, t.etag, t.content)
    /\ server[r].etag <= job.cursor => t = server[r]
    /\ Behind(r, t.etag)

\* So does every staged change.
StagedFine == \A r \in DOMAIN job.todo : StagedTrue(r, job.todo[r])

\* The newest version that the changes applied so far cover, but for those
\* still staged.
Horizon == IF job.phase = "apply" THEN job.cursor ELSE token

\* What it covers is in the store.
TokenCovers ==
    \A r \in RemoteIds \ DOMAIN job.todo : server[r].etag <= Horizon => InStore(r)

\* An event that a row of this client created is in the store before the rows
\* are sent again.
CreateSeen ==
    \A o \in OpIds :
        server[o].state = "live" /\ (job.phase \in {"apply", "drain"} \/ o \in DOMAIN job.snap)
            => o \in DOMAIN job.todo \/ RowsWith(o) # {}

\* The half of the invariant about rows.
RowsAgree == QueuesFine /\ SnapFine /\ PhaseFine /\ CreatesHeard

\* The half about versions.
VersionsAgree == TablesTrue /\ ClocksFine /\ StagedFine /\ TokenCovers /\ CreateSeen

\* The inductive invariant of the engine until a command meets the job.
CalmInv == RowsAgree /\ VersionsAgree

\* What a step may do at the server.
CalendarMoves == ServerMoves /\ ServerGrows

\* A step that leaves the server alone.
LEMMA CalendarStays ==
    ASSUME ServerOK, ClocksFine, UNCHANGED remoteVars
    PROVE  CalendarMoves /\ server' = server
<1>1. ServerMoves /\ server' = server
  BY ServerStays
<1> QED
  BY <1>1 DEF CalendarMoves, ServerGrows, Gone, GoneAfter

\* A publication is newer than all.
LEMMA PublishMoves ==
    ASSUME StoreAssumption, ServerOK, ClocksFine, NEW r \in RemoteIds,
           NEW state \in {"live", "gone"}, NEW c, Publish(r, state, c), ~Gone(r)
    PROVE  /\ CalendarMoves
           /\ server'[r] = [state |-> state, etag |-> clock + 1, content |-> c]
           /\ server'[r] # server[r] /\ \A x \in RemoteIds \ {r} : server'[x] = server[x]
<1>1. /\ clock' = clock + 1 /\ clock \in Int /\ DOMAIN server = RemoteIds
      /\ server' = [server EXCEPT ![r] = [state |-> state, etag |-> clock + 1, content |-> c]]
  BY DEF Publish, ServerOK
<1>2. /\ server'[r] = [state |-> state, etag |-> clock + 1, content |-> c]
      /\ \A x \in RemoteIds \ {r} : server'[x] = server[x]
  BY <1>1
<1>3. /\ server'[r].etag = clock + 1 /\ clock < clock + 1 /\ clock + 1 <= clock'
      /\ \A x \in RemoteIds : server[x].etag <= clock /\ server[x].etag \in Int
  BY <1>1, <1>2 DEF ClocksFine, ServerOK, Resources, Etags, None
<1>4. server'[r] # server[r]
  BY <1>1, <1>3
<1>5. ServerMoves
  <2>1. clock <= clock'
    BY <1>1
  <2>2. \A x \in RemoteIds : server'[x].etag <= clock'
    BY <1>1, <1>2, <1>3
  <2>3. clock < server'[r].etag
    BY <1>3
  <2> QED
    BY <1>2, <2>1, <2>2, <2>3 DEF ServerMoves
<1> QED
  BY <1>2, <1>4, <1>5, PublishGrows DEF CalendarMoves

\* What the store says of a version that the token covers, after a step that
\* keeps the token.
LEMMA CoveredKept ==
    ASSUME EngineInv, EngineInv', VersionsAgree, ServerMoves, VersionsKept({}),
           NEW r \in RemoteIds, server'[r].etag <= Horizon, r \notin DOMAIN job.todo
    PROVE  InStore(r)'
<1>1. Horizon <= clock /\ Horizon \in Int /\ clock \in Int /\ server'[r].etag \in Int
  BY DEF VersionsAgree, ClocksFine, Horizon, EngineInv, EngineOK, JobOK, ServerOK,
         Resources, Etags, None
<1>2. server'[r] = server[r]
  BY <1>1 DEF ServerMoves
<1>3. InStore(r)
  BY <1>2 DEF VersionsAgree, TokenCovers
<1> QED
  BY <1>2, <1>3 DEF VersionsKept

\* A step outside the application of a pull, or one that ends it.
LEMMA VersionsOutside ==
    ASSUME EngineInv, EngineInv', VersionsAgree, PhaseFine, ServerMoves, VersionsKept({}),
           token' = token, DOMAIN job'.todo = {}, job'.phase \notin {"apply", "drain"},
           job'.cursor \in {job.cursor, None},
           \A o \in DOMAIN job'.snap :
            /\ o \in DOMAIN job.snap
            /\ server'[o].state = "live" => server[o].state = "live"
    PROVE  VersionsAgree'
<1>1. TablesTrue'
  BY DEF VersionsKept
<1>2. ClocksFine'
  <2>1. /\ clock \in Int /\ clock' \in Int /\ token \in Int /\ job.cursor \in Int
        /\ 0 <= clock /\ None = 0
    BY DEF EngineInv, EngineOK, ServerOK, JobOK, None
  <2>2. clock <= clock' /\ token <= clock /\ job.cursor <= clock
    BY DEF ServerMoves, VersionsAgree, ClocksFine
  <2>3. token' <= clock' /\ job'.cursor <= clock'
    BY <2>1, <2>2
  <2> QED
    BY <2>3 DEF ClocksFine, ServerMoves
<1>3. StagedFine'
  BY DEF StagedFine
<1>4. TokenCovers'
  <2> SUFFICES ASSUME NEW r \in RemoteIds, server'[r].etag <= token PROVE InStore(r)'
    BY DEF TokenCovers, Horizon
  <2>1. token \in Int /\ server'[r].etag \in Int /\ server[r].etag \in Int /\ job.cursor \in Int
        /\ clock \in Int
    BY DEF EngineInv, EngineOK, ServerOK, JobOK, Resources, Etags, None
  <2>2. server[r] = server'[r]
    BY <2>1 DEF ServerMoves, VersionsAgree, ClocksFine
  <2>3. r \notin DOMAIN job.todo
    <3> SUFFICES ASSUME r \in DOMAIN job.todo PROVE FALSE
      OBVIOUS
    <3>1. token < job.todo[r].etag /\ job.todo[r].etag <= server[r].etag
      BY DEF VersionsAgree, StagedFine, StagedTrue, Faithful
    <3>2. job.todo[r].etag \in Int
      BY DEF EngineInv, EngineOK, JobOK, Resources, Etags, None
    <3> QED
      BY <2>1, <2>2, <3>1, <3>2
  <2>4. server'[r].etag <= Horizon
    BY <2>1 DEF Horizon, VersionsAgree, ClocksFine
  <2> QED
    BY <2>3, <2>4, CoveredKept
<1>5. CreateSeen'
  <2> SUFFICES ASSUME NEW o \in OpIds, server'[o].state = "live", o \in DOMAIN job'.snap
               PROVE  RowsWith(o)' # {}
    BY DEF CreateSeen
  <2>1. o \in DOMAIN job.snap /\ server[o].state = "live" /\ o \in RemoteIds
    BY OpIdsAreRemoteIds, StoreAssumption
  <2>2. DOMAIN job.todo = {}
    BY <2>1 DEF PhaseFine
  <2>3. RowsWith(o) # {}
    BY <2>1, <2>2 DEF VersionsAgree, CreateSeen
  <2> QED
    BY <2>1, <2>3 DEF VersionsKept
<1> QED
  BY <1>1, <1>2, <1>3, <1>4, <1>5 DEF VersionsAgree

\* A step that leaves the job alone.
LEMMA VersionsBeside ==
    ASSUME EngineInv, EngineInv', VersionsAgree, PhaseFine, ServerMoves, VersionsKept({}),
           UNCHANGED <<token, job>>,
           \A r \in RemoteIds, n \in Int : Behind(r, n) => Behind(r, n)',
           \A o \in OpIds : server'[o].state = "live" => server[o].state = "live"
    PROVE  VersionsAgree'
<1>0. token' = token /\ job' = job /\ Horizon' = Horizon
  BY DEF Horizon
<1>1. TablesTrue'
  BY DEF VersionsKept
<1>2. ClocksFine'
  <2>1. /\ clock \in Int /\ clock' \in Int /\ token \in Int /\ job.cursor \in Int
    BY DEF EngineInv, EngineOK, ServerOK, JobOK
  <2>2. clock <= clock' /\ token <= clock /\ job.cursor <= clock
    BY DEF ServerMoves, VersionsAgree, ClocksFine
  <2>3. token <= clock' /\ job.cursor <= clock'
    BY <2>1, <2>2
  <2> QED
    BY <1>0, <2>3 DEF ClocksFine, ServerMoves, VersionsAgree
<1>3. StagedFine'
  <2> SUFFICES ASSUME NEW r \in DOMAIN job.todo PROVE StagedTrue(r, job.todo[r])'
    BY <1>0 DEF StagedFine
  <2> DEFINE t == job.todo[r]
  <2>1. /\ r \in RemoteIds /\ t.etag \in Int /\ server'[r].etag \in Int /\ job.cursor \in Int
        /\ clock \in Int
    BY DEF EngineInv, EngineOK, ServerOK, JobOK, Resources, Etags, None
  <2>2. StagedTrue(r, t)
    BY DEF VersionsAgree, StagedFine
  <2>3. Faithful(server', r, t.etag, t.content)
    BY <2>1, <2>2, FaithfulKept, StoreAssumption
       DEF EngineInv, EngineOK, VersionsAgree, StagedTrue
  <2>4. server'[r].etag <= job.cursor => t = server'[r]
    BY <2>1, <2>2 DEF StagedTrue, ServerMoves, VersionsAgree, ClocksFine
  <2>5. Behind(r, t.etag)'
    BY <2>1, <2>2 DEF StagedTrue
  <2> QED
    BY <1>0, <2>2, <2>3, <2>4, <2>5 DEF StagedTrue, Behind
<1>4. TokenCovers'
  BY <1>0, CoveredKept DEF TokenCovers
<1>5. CreateSeen'
  <2> SUFFICES ASSUME NEW o \in OpIds, server'[o].state = "live",
                      job.phase \in {"apply", "drain"} \/ o \in DOMAIN job.snap
               PROVE  o \in DOMAIN job.todo \/ RowsWith(o)' # {}
    BY <1>0 DEF CreateSeen
  <2>1. server[o].state = "live" /\ o \in RemoteIds
    BY OpIdsAreRemoteIds, StoreAssumption
  <2>2. o \in DOMAIN job.todo \/ RowsWith(o) # {}
    BY <2>1 DEF VersionsAgree, CreateSeen
  <2> QED
    BY <2>1, <2>2 DEF VersionsKept
<1> QED
  BY <1>1, <1>2, <1>3, <1>4, <1>5 DEF VersionsAgree

-----------------------------------------------------------------------------
(* What each transaction does to the oldest rows of the events.            *)

\* Row o aside, no row comes, changes its state, or, if it is the oldest of its
\* event, goes or says something else.
RowsBeside(o) ==
    /\ \A p \in DOMAIN outbox' :
        /\ p \in DOMAIN outbox
        /\ outbox'[p].event = outbox[p].event /\ outbox'[p].op = outbox[p].op
        /\ p # o => outbox'[p].state = outbox[p].state
        /\ outbox'[p].state \in ActiveStates => outbox[p].state \in ActiveStates
    /\ \A p \in DOMAIN outbox \ {o} :
        outbox[p].state \in ActiveStates /\ IsFirst(p)
            => p \in DOMAIN outbox' /\ SameRow(outbox'[p], outbox[p])

\* The current row, which is in the snapshot.
LEMMA ItemFacts ==
    ASSUME EngineInv, RowsAgree, TablesTrue, InFlight
    PROVE  /\ job.item \in DOMAIN job.snap /\ job.item \in DOMAIN outbox /\ job.item \in OpIds
           /\ outbox[job.item].state \in QueuedStates \cup {"sending"}
           /\ outbox[job.item].state \in ActiveStates /\ outbox[job.item].state # "blocked"
           /\ IsFirst(job.item) /\ Sent \in OutboxRows
           /\ Sent.event = outbox[job.item].event /\ Sent.op = outbox[job.item].op
           /\ Sent.content = outbox[job.item].content /\ Sent.rid = HomeOf(job.item)
           /\ Sent.expected = events[outbox[job.item].event].etag
           /\ events[outbox[job.item].event].dirty = TRUE
           /\ Sent.op = "create" => HomeOf(job.item) = None
           /\ outbox[job.item].event \in DOMAIN events
<1> DEFINE o == job.item
<1>1. o \in DOMAIN job.snap
  BY DEF RowsAgree, PhaseFine
<1>2. /\ o \in DOMAIN outbox /\ outbox[o].state \in QueuedStates \cup {"sending"}
      /\ IsFirst(o) /\ SameRow(Sent, outbox[o])
  BY <1>1 DEF RowsAgree, SnapFine, Sent
<1>3. o \in OpIds /\ Sent \in OutboxRows
  BY <1>1 DEF EngineInv, EngineOK, JobOK, Sent
<1>4. outbox[o].event \in DOMAIN events /\ events[outbox[o].event] \in EventRows
  BY <1>2, TableMembers, StoreAssumption DEF EngineInv
<1>5. outbox[o].state \in ActiveStates /\ outbox[o].state # "blocked"
  BY <1>2 DEF ActiveStates, QueuedStates
<1>6. o \in ActiveOps(outbox[o].event)
  BY <1>2, <1>5 DEF ActiveOps, OpsOf
<1>7. QueueFine(outbox[o].event)
  BY <1>4 DEF RowsAgree, QueuesFine
<1>8. /\ outbox[o].rid = HomeOf(o) /\ outbox[o].expected = events[outbox[o].event].etag
      /\ Created(o) => HomeOf(o) = None
      /\ events[outbox[o].event].dirty
  BY <1>6, <1>7 DEF QueueFine, HomeOf
<1> QED
  BY <1>1, <1>2, <1>3, <1>4, <1>5, <1>8 DEF SameRow, EventRows, Created

\* A transaction that does not touch the outbox.
LEMMA SameRows ==
    ASSUME UNCHANGED outbox, NEW o PROVE RowsBeside(o)
  BY DEF RowsBeside, SameRow

\* updateOutboxState of an unfinished row.
LEMMA SetStateRows ==
    ASSUME StoreAssumption, TypeOK, NEW o, NEW state, SetState(o, state),
           outbox[o].state \in ActiveStates
    PROVE  RowsBeside(o) /\ outbox'[o].state = state /\ SameRow(outbox'[o], outbox[o])
           /\ o \in DOMAIN outbox'
<1>1. /\ o \in DOMAIN outbox /\ outbox[o] \in OutboxRows /\ DOMAIN outbox' = DOMAIN outbox
      /\ \A p \in DOMAIN outbox \ {o} : outbox'[p] = outbox[p]
  BY TableMembers DEF SetState
<1>2. SameRow(outbox'[o], outbox[o]) /\ outbox'[o].state = state
  BY <1>1 DEF SetState, OutboxRows, SameRow
<1> QED
  BY <1>1, <1>2 DEF RowsBeside, SameRow

\* DELETE FROM events, of an event whose unfinished rows are none but row o.
LEMMA DeleteEventRows ==
    ASSUME NEW e, NEW o, DeleteEvent(e), ActiveOps(e) \subseteq {o}
    PROVE  RowsBeside(o)
<1>1. /\ DOMAIN outbox' = DOMAIN outbox \ OpsOf(e)
      /\ \A p \in DOMAIN outbox' : outbox'[p] = outbox[p]
  BY DEF DeleteEvent, Restrict
<1>2. \A p \in DOMAIN outbox \ {o} : outbox[p].state \in ActiveStates => p \notin OpsOf(e)
  BY DEF ActiveOps
<1> QED
  BY <1>1, <1>2 DEF RowsBeside, SameRow

\* Applying a deletion: a clean row has no unfinished rows.
LEMMA RemoveRemoteRows ==
    ASSUME QueuesFine, NEW r, NEW o, RemoveRemote(r)
    PROVE  RowsBeside(o)
<1>1. CASE \E e \in RowsWith(r) : ~events[e].dirty /\ DeleteEvent(e)
  <2>1. PICK e \in DOMAIN events : ~events[e].dirty /\ DeleteEvent(e)
    BY <1>1 DEF RowsWith
  <2>2. ActiveOps(e) = {}
    BY <2>1 DEF QueuesFine, QueueFine
  <2> QED
    BY <2>1, <2>2, DeleteEventRows
<1>2. CASE outbox' = outbox
  BY <1>2, SameRows
<1> QED
  BY <1>1, <1>2 DEF RemoveRemote

\* The completion of a row touches only the rows behind it.
LEMMA AcknowledgeRows ==
    ASSUME StoreAssumption, TypeOK, NEW o, NEW v, Acknowledge(o, v), ~Purges(o),
           outbox[o].state \in ActiveStates, IsFirst(o)
    PROVE  RowsBeside(o) /\ (o \in DOMAIN outbox' => outbox'[o].state = "done")
<1>1. /\ o \in DOMAIN outbox /\ outbox[o] \in OutboxRows /\ DOMAIN outbox' = DOMAIN outbox
      /\ outbox'[o] = [outbox[o] EXCEPT !.state = "done"]
      /\ \A p \in DOMAIN outbox \ {o} :
            IF p \in LaterOps(o) /\ outbox[p].state \in QueuedStates
            THEN outbox'[p] = [outbox[p] EXCEPT !.expected = v.etag]
            ELSE outbox'[p] = outbox[p]
  BY TableMembers DEF Acknowledge
<1>2. o \in ActiveOps(outbox[o].event) /\ o \in Int
  BY <1>1, TableMembers DEF ActiveOps, OpsOf
<1>3. ASSUME NEW p \in DOMAIN outbox, p # o
      PROVE  /\ outbox'[p].event = outbox[p].event /\ outbox'[p].op = outbox[p].op
             /\ outbox'[p].state = outbox[p].state
             /\ IsFirst(p) => outbox'[p] = outbox[p]
  <2>1. CASE p \in LaterOps(o) /\ outbox[p].state \in QueuedStates
    <3>1. p \in Int /\ outbox[p] \in OutboxRows /\ outbox[p].event = outbox[o].event
          /\ p \in ActiveOps(outbox[o].event)
      BY <2>1, TableMembers DEF LaterOps, ActiveOps, OpsOf
    <3>2. o <= p
      BY <3>1 DEF IsFirst
    <3>3. ~IsFirst(p)
      BY <1>2, <1>3, <3>1, <3>2 DEF IsFirst
    <3>4. outbox'[p] = [outbox[p] EXCEPT !.expected = v.etag]
      BY <1>1, <1>3, <2>1
    <3> QED
      BY <3>1, <3>3, <3>4 DEF OutboxRows
  <2>2. CASE ~(p \in LaterOps(o) /\ outbox[p].state \in QueuedStates)
    <3>1. outbox'[p] = outbox[p]
      BY <1>1, <1>3, <2>2
    <3> QED
      BY <3>1
  <2> QED
    BY <2>1, <2>2
<1>4. /\ outbox'[o].event = outbox[o].event /\ outbox'[o].op = outbox[o].op
      /\ outbox'[o].state = "done"
  BY <1>1 DEF OutboxRows
<1> QED
  BY <1>1, <1>3, <1>4 DEF RowsBeside, SameRow

\* So does the completion of a removal.
LEMMA AcknowledgeRemovalRows ==
    ASSUME StoreAssumption, TypeOK, NEW o, AcknowledgeRemoval(o), outbox[o].op = "remove",
           outbox[o].state \in ActiveStates
    PROVE  RowsBeside(o) /\ (o \in DOMAIN outbox' => outbox'[o].state = "done")
<1>1. o \in DOMAIN outbox /\ outbox[o] \in OutboxRows
  BY TableMembers DEF AcknowledgeRemoval
<1>2. CASE Purges(o)
  <2>1. DeleteEvent(outbox[o].event) /\ ActiveOps(outbox[o].event) \subseteq {o}
    BY <1>2 DEF AcknowledgeRemoval, Purges, LaterOps
  <2>2. o \notin DOMAIN outbox'
    BY <1>1, <2>1 DEF DeleteEvent, Restrict, OpsOf
  <2> QED
    BY <2>1, <2>2, DeleteEventRows
<1>3. CASE ~Purges(o)
  <2>1. outbox' = [outbox EXCEPT ![o].state = "done"]
    BY <1>3 DEF AcknowledgeRemoval
  <2>2. /\ DOMAIN outbox' = DOMAIN outbox
        /\ \A p \in DOMAIN outbox \ {o} : outbox'[p] = outbox[p]
        /\ outbox'[o].event = outbox[o].event /\ outbox'[o].op = outbox[o].op
        /\ outbox'[o].state = "done"
    BY <1>1, <2>1 DEF OutboxRows
  <2> QED
    BY <1>1, <2>2 DEF RowsBeside, SameRow, ActiveStates
<1> QED
  BY <1>2, <1>3

\* The unfinished rows of an event become no more.
LEMMA FewerRows ==
    ASSUME NEW o, RowsBeside(o), NEW e PROVE ActiveOps(e)' \subseteq ActiveOps(e)
  BY DEF RowsBeside, ActiveOps, OpsOf

\* The snapshot stays true of the rows that remain in it.
LEMMA SnapKept ==
    ASSUME SnapFine, NEW o, RowsBeside(o),
           \A p \in DOMAIN job'.snap :
            /\ p \in DOMAIN job.snap /\ job'.snap[p] = job.snap[p]
            /\ p = o => /\ o \in DOMAIN outbox' /\ SameRow(outbox'[o], outbox[o])
                        /\ outbox'[o].state \in QueuedStates \cup {"sending"}
    PROVE  SnapFine'
<1> SUFFICES ASSUME NEW p \in DOMAIN job'.snap
             PROVE  /\ p \in DOMAIN outbox'
                    /\ outbox'[p].state \in QueuedStates \cup {"sending"}
                    /\ IsFirst(p)' /\ SameRow(job'.snap[p], outbox'[p])
  BY DEF SnapFine
<1>1. /\ p \in DOMAIN outbox /\ outbox[p].state \in QueuedStates \cup {"sending"}
      /\ IsFirst(p) /\ SameRow(job'.snap[p], outbox[p])
  BY DEF SnapFine
<1>2. p \in DOMAIN outbox' /\ SameRow(outbox'[p], outbox[p])
  BY <1>1 DEF RowsBeside, ActiveStates, QueuedStates
<1>3. outbox'[p].state \in QueuedStates \cup {"sending"} /\ outbox'[p].event = outbox[p].event
  BY <1>1, <1>2 DEF RowsBeside
<1>4. \A e : ActiveOps(e)' \subseteq ActiveOps(e)
  BY FewerRows
<1>5. IsFirst(p)'
  BY <1>1, <1>3, <1>4 DEF IsFirst
<1> QED
  BY <1>1, <1>2, <1>3, <1>5 DEF SameRow

\* A create goes on having arrived; the row in flight is settled, or stays so.
LEMMA HeardKept ==
    ASSUME StoreAssumption, TypeOK, TypeOK', CreatesHeard, ServerGrows, NEW o, RowsBeside(o),
           InFlight /\ job.item # o => InFlight' /\ job'.item = job.item,
           o \in DOMAIN outbox => outbox[o].state # "blocked",
           o \in DOMAIN outbox' /\ outbox'[o].op = "create" /\ outbox'[o].state = "sending" =>
                server'[o].state # "never" \/ (InFlight' /\ job'.item = o)
    PROVE  CreatesHeard'
<1> SUFFICES ASSUME NEW p \in DOMAIN outbox', outbox'[p].op = "create",
                    NEW e, e = outbox'[p].event
             PROVE  /\ outbox'[p].state = "sending" =>
                        server'[p].state # "never" \/ (InFlight' /\ job'.item = p)
                    /\ /\ outbox'[p].state \in ActiveStates
                       /\ ~(\A q \in ActiveOps(e)' : q <= p)
                       => server'[p].state # "never" \/ outbox'[p].state = "blocked"
  BY DEF CreatesHeard, HeardOf, Created, ActiveOps, OpsOf
<1>1. /\ p \in DOMAIN outbox /\ Created(p) /\ outbox'[p].event = outbox[p].event
      /\ p # o => outbox'[p].state = outbox[p].state
      /\ outbox'[p].state \in ActiveStates => outbox[p].state \in ActiveStates
  BY DEF RowsBeside, Created
<1>2. HeardOf(p) /\ p \in RemoteIds
  BY <1>1, HomeTypes DEF CreatesHeard
<1>3. server[p].state # "never" => server'[p].state # "never"
  BY <1>2 DEF ServerGrows
<1>4. \A f : ActiveOps(f)' \subseteq ActiveOps(f)
  BY FewerRows
<1>5. ASSUME outbox'[p].state = "sending"
      PROVE  server'[p].state # "never" \/ (InFlight' /\ job'.item = p)
  <2>1. CASE p = o
    BY <1>5, <2>1
  <2>2. CASE p # o
    BY <1>1, <1>2, <1>3, <1>5, <2>2 DEF HeardOf
  <2> QED
    BY <2>1, <2>2
<1>6. ASSUME outbox'[p].state \in ActiveStates,
             ~(\A q \in ActiveOps(e)' : q <= p)
      PROVE  server'[p].state # "never" \/ outbox'[p].state = "blocked"
  <2>1. ~(\A q \in ActiveOps(outbox[p].event) : q <= p)
    <3>1. ActiveOps(e)' \subseteq ActiveOps(e) /\ e = outbox[p].event
      BY <1>1, <1>4
    <3> QED
      BY <1>1, <1>6, <3>1
  <2>2. server[p].state # "never" \/ outbox[p].state = "blocked"
    BY <1>1, <1>2, <1>6, <2>1 DEF HeardOf
  <2>3. outbox[p].state = "blocked" => outbox'[p].state = "blocked"
    BY <1>1
  <2> QED
    BY <1>3, <2>2, <2>3
<1> QED
  BY <1>5, <1>6

-----------------------------------------------------------------------------
(* The kinds of step the job takes.                                        *)

\* What each transaction was shown to do: the queues stay in order, the tables
\* true, and no oldest row but o is touched.
TablesMove(o) == QueuesFine' /\ VersionsKept({}) /\ RowsBeside(o)

\* A step that leaves the store alone.
LEMMA StoreStays ==
    ASSUME EngineInv, EngineInv', CalmInv, CalendarMoves, UNCHANGED storeVars, NEW o
    PROVE  TablesMove(o)
<1>1. UNCHANGED events /\ outbox' = outbox /\ conflicts' = conflicts
  BY DEF storeVars
<1>2. QueuesFine'
  <2>1. \A p \in DOMAIN outbox :
            /\ SameRow(outbox'[p], outbox[p])
            /\ outbox'[p].state \in ActiveStates <=> outbox[p].state \in ActiveStates
            /\ Started(p)' => Started(p) \/ IsFirst(p)
    BY <1>1 DEF SameRow, Started
  <2> QED
    BY <1>1, <2>1, StatesQueues, StoreAssumption DEF CalmInv, RowsAgree, EngineInv
<1>3. VersionsKept({})
  BY <1>1, SameTablesVersions, StoreAssumption
     DEF CalmInv, VersionsAgree, CalendarMoves, EngineInv, EngineOK
<1> QED
  BY <1>1, <1>2, <1>3, SameRows DEF TablesMove

\* The end of the job.
LEMMA FinishedJob ==
    ASSUME Finish
    PROVE  /\ job'.phase = "idle" /\ DOMAIN job'.todo = {} /\ DOMAIN job'.snap = {}
           /\ job'.cursor = None /\ job'.item = None
<1>1. job' = [phase |-> "idle", todo |-> Empty, cursor |-> None, snap |-> Empty,
              item |-> None, refreshed |-> FALSE, open |-> {}]
  BY DEF Finish, IdleJob
<1>2. DOMAIN Empty = {}
  BY DEF Empty
<1> HIDE DEF Empty
<1> QED
  BY <1>1, <1>2

\* The next row.
LEMMA AdvancedJob ==
    ASSUME JobOK(job), NextItem
    PROVE  /\ job'.phase = "dispatch" /\ job'.todo = job.todo /\ job'.cursor = job.cursor
           /\ DOMAIN job'.snap = DOMAIN job.snap \ {job.item}
           /\ \A o \in DOMAIN job'.snap : job'.snap[o] = job.snap[o]
<1> DEFINE rest == Restrict(job.snap, DOMAIN job.snap \ {job.item})
<1>1. /\ DOMAIN rest = DOMAIN job.snap \ {job.item}
      /\ \A o \in DOMAIN rest : rest[o] = job.snap[o]
  BY DEF Restrict
<1>2. job' = [job EXCEPT !.phase = "dispatch", !.item = None, !.snap = rest]
  BY DEF NextItem
<1> HIDE DEF rest
<1>3. /\ job'.phase = "dispatch" /\ job'.todo = job.todo /\ job'.cursor = job.cursor
      /\ job'.snap = rest
  BY <1>2 DEF JobOK
<1> QED
  BY <1>1, <1>3

\* Another phase.
LEMMA PhasedJob ==
    ASSUME JobOK(job), NEW phase, Goto(phase)
    PROVE  /\ job'.phase = phase /\ job'.todo = job.todo /\ job'.cursor = job.cursor
           /\ job'.snap = job.snap /\ job'.item = job.item
  BY DEF JobOK, Goto

\* The attempt of row o ends, or the job does.
LEMMA RowEndsCalm ==
    ASSUME EngineInv, EngineInv', CalmInv, CalendarMoves, NEW o, TablesMove(o), token' = token,
           Finish \/ (NextItem /\ InFlight), InFlight => o = job.item,
           o \in DOMAIN outbox => outbox[o].state # "blocked",
           o \in DOMAIN outbox' /\ outbox'[o].op = "create" /\ outbox'[o].state = "sending"
                => server'[o].state # "never",
           \A p \in OpIds : p # o /\ server'[p].state = "live" => server[p].state = "live"
    PROVE  CalmInv'
<1>0. JobOK(job) /\ TypeOK /\ TypeOK' /\ DOMAIN job.snap \subseteq OpIds
  BY DEF EngineInv, EngineOK, JobOK
<1>1. /\ job'.phase \in {"idle", "dispatch"} /\ job'.cursor \in {job.cursor, None}
      /\ DOMAIN job'.snap \subseteq DOMAIN job.snap
      /\ \A p \in DOMAIN job'.snap : p # o /\ job'.snap[p] = job.snap[p]
      /\ job'.phase = "idle" => DOMAIN job'.snap = {} /\ DOMAIN job'.todo = {}
      /\ job'.phase = "dispatch" => job'.todo = job.todo /\ InFlight
  <2>1. CASE Finish
    BY <2>1, FinishedJob
  <2>2. CASE NextItem /\ InFlight
    BY <1>0, <2>2, AdvancedJob
  <2> QED
    BY <2>1, <2>2
<1>2. DOMAIN job'.todo = {}
  BY <1>1 DEF InFlight, CalmInv, RowsAgree, PhaseFine
<1>3. PhaseFine' /\ ~InFlight'
  BY <1>1, <1>2 DEF PhaseFine, InFlight
<1>4. SnapFine'
  BY <1>1, SnapKept DEF TablesMove, CalmInv, RowsAgree
<1>5. CreatesHeard'
  BY <1>0, HeardKept, StoreAssumption DEF TablesMove, CalmInv, RowsAgree, CalendarMoves
<1>6. VersionsAgree'
  BY <1>0, <1>1, <1>2, VersionsOutside DEF TablesMove, CalmInv, RowsAgree, CalendarMoves
<1> QED
  BY <1>3, <1>4, <1>5, <1>6 DEF CalmInv, RowsAgree, TablesMove

\* The job turns to another phase, outside the application of a pull.
LEMMA RowGoesOnCalm ==
    ASSUME EngineInv, EngineInv', CalmInv, UNCHANGED remoteVars, NEW o, TablesMove(o),
           token' = token, job'.snap = job.snap, job'.todo = job.todo,
           job'.cursor = job.cursor, job.phase # "apply", job'.phase \notin {"apply", "drain"},
           PhaseFine', InFlight /\ job.item # o => InFlight' /\ job'.item = job.item,
           o \in DOMAIN outbox => outbox[o].state # "blocked",
           o \in DOMAIN job.snap => /\ o \in DOMAIN outbox' /\ SameRow(outbox'[o], outbox[o])
                                    /\ outbox'[o].state \in QueuedStates \cup {"sending"},
           o \in DOMAIN outbox' /\ outbox'[o].op = "create" /\ outbox'[o].state = "sending"
                => InFlight' /\ job'.item = o
    PROVE  CalmInv'
<1>0. /\ TypeOK /\ TypeOK' /\ CalendarMoves /\ server' = server
  BY CalendarStays DEF EngineInv, EngineOK, CalmInv, VersionsAgree
<1>2. DOMAIN job'.todo = {}
  BY DEF CalmInv, RowsAgree, PhaseFine
<1>4. SnapFine'
  BY SnapKept DEF TablesMove, CalmInv, RowsAgree
<1>5. CreatesHeard'
  BY <1>0, HeardKept, StoreAssumption DEF TablesMove, CalmInv, RowsAgree, CalendarMoves
<1>6. VersionsAgree'
  BY <1>0, <1>2, VersionsOutside DEF TablesMove, CalmInv, RowsAgree, CalendarMoves
<1> QED
  BY <1>4, <1>5, <1>6 DEF CalmInv, RowsAgree, TablesMove

\* A step beside the job that touches no unfinished row.
LEMMA JobStaysCalm ==
    ASSUME EngineInv, EngineInv', CalmInv, CalendarMoves, TablesMove(None),
           UNCHANGED <<token, job>>, UNCHANGED <<events, conflicts>>,
           \A p \in OpIds : server'[p].state = "live" => server[p].state = "live"
    PROVE  CalmInv'
<1>0. /\ TypeOK /\ TypeOK' /\ job' = job /\ token' = token
      /\ None \notin DOMAIN outbox /\ None \notin DOMAIN outbox' /\ None \notin DOMAIN job.snap
  BY DEF EngineInv, EngineOK, JobOK, TypeOK, OutboxOK, OpIds, None
<1>1. InFlight' = InFlight /\ Sent' = Sent
  BY <1>0 DEF InFlight, Sent
<1>2. InFlight => job.item \in RemoteIds
  BY OpIdsAreRemoteIds, StoreAssumption
     DEF CalmInv, RowsAgree, PhaseFine, EngineInv, EngineOK, JobOK
<1>3. PhaseFine'
  BY <1>0, <1>1, <1>2
     DEF CalmInv, RowsAgree, PhaseFine, InFlight, CalendarMoves, ServerGrows
<1>4. SnapFine'
  BY <1>0, SnapKept DEF TablesMove, CalmInv, RowsAgree
<1>5. CreatesHeard'
  BY <1>0, <1>1, HeardKept, StoreAssumption
     DEF TablesMove, CalmInv, RowsAgree, CalendarMoves
<1>6. VersionsAgree'
  <2>1. \A r \in RemoteIds, n \in Int : Behind(r, n) => Behind(r, n)'
    BY DEF Behind, RowsWith
  <2> QED
    BY <1>0, <2>1, VersionsBeside DEF TablesMove, CalmInv, RowsAgree, CalendarMoves
<1> QED
  BY <1>3, <1>4, <1>5, <1>6 DEF CalmInv, RowsAgree, TablesMove

-----------------------------------------------------------------------------
(* Every step of the engine keeps CalmInv.                                 *)

\* updateOutboxState at the end of an attempt.
LEMMA SettleCalm ==
    ASSUME EngineInv, EngineInv', CalmInv, CalendarMoves, InFlight, token' = token,
           NEW state \in {"pending", "retry_wait", "blocked"}, SetState(job.item, state),
           Finish \/ NextItem,
           \A p \in OpIds : p # job.item /\ server'[p].state = "live" => server[p].state = "live"
    PROVE  CalmInv'
<1> DEFINE o == job.item
<1>1. o \in DOMAIN outbox /\ outbox[o].state \in ActiveStates /\ IsFirst(o)
      /\ outbox[o].state # "blocked"
  BY ItemFacts DEF CalmInv, VersionsAgree
<1>2. state \in ActiveStates /\ state # "sending"
  BY DEF ActiveStates
<1>3. QueuesFine'
  BY <1>1, <1>2, SetStateQueues, StoreAssumption DEF CalmInv, RowsAgree, EngineInv
<1>4. RowsBeside(o) /\ outbox'[o].state = state
  BY <1>1, SetStateRows, StoreAssumption DEF EngineInv
<1>5. UNCHANGED <<events, conflicts>>
  BY DEF SetState
<1>6. VersionsKept({})
  BY <1>5, SameTablesVersions, StoreAssumption
     DEF CalmInv, VersionsAgree, CalendarMoves, EngineInv, EngineOK
<1> QED
  BY <1>1, <1>2, <1>3, <1>4, <1>6, RowEndsCalm DEF TablesMove

\* The completion of a removal whose event lives at the server no more.
LEMMA RemovalCalm ==
    ASSUME EngineInv, EngineInv', CalmInv, CalendarMoves, InFlight, token' = token,
           AcknowledgeRemoval(job.item), NextItem, Sent.op = "remove",
           Sent.rid # None => server'[Sent.rid].state # "live",
           \A p \in OpIds : p # job.item /\ server'[p].state = "live" => server[p].state = "live"
    PROVE  CalmInv'
<1> DEFINE o == job.item
<1>1. /\ o \in DOMAIN outbox /\ outbox[o].state \in ActiveStates /\ IsFirst(o)
      /\ outbox[o].state # "blocked" /\ outbox[o].op = "remove" /\ Sent.rid = HomeOf(o)
  BY ItemFacts DEF CalmInv, VersionsAgree
<1>2. QueuesFine'
  BY <1>1, AcknowledgeRemovalQueues, StoreAssumption DEF CalmInv, RowsAgree, EngineInv
<1>3. RowsBeside(o) /\ (o \in DOMAIN outbox' => outbox'[o].state = "done")
  BY <1>1, AcknowledgeRemovalRows, StoreAssumption DEF EngineInv
<1>4. VersionsKept({})
  BY <1>1, AcknowledgeRemovalVersions, StoreAssumption
     DEF CalmInv, VersionsAgree, CalendarMoves, EngineInv, EngineOK
<1> QED
  BY <1>1, <1>2, <1>3, <1>4, RowEndsCalm DEF TablesMove

\* The completion of a create or an update that the server has just accepted.
LEMMA AcceptedCalm ==
    ASSUME EngineInv, EngineInv', CalmInv, CalendarMoves, InFlight, token' = token,
           NEW v \in Versions, Acknowledge(job.item, v), NextItem, Sent.op # "remove",
           Sent.op = "create" => server[job.item].state = "never",
           Sent.op # "create" => Sent.rid = v.rid,
           outbox[job.item].event \notin DOMAIN conflicts,
           server'[v.rid] # server[v.rid], v.etag = server'[v.rid].etag,
           server'[v.rid].state = "live" => v.content = server'[v.rid].content,
           \A p \in OpIds : p # job.item /\ server'[p].state = "live" => server[p].state = "live"
    PROVE  CalmInv'
<1> DEFINE o == job.item
<1>1. /\ o \in DOMAIN outbox /\ outbox[o].state \in ActiveStates /\ IsFirst(o)
      /\ outbox[o].state # "blocked" /\ outbox[o].op = Sent.op /\ Sent.rid = HomeOf(o)
      /\ Sent.op = "create" => HomeOf(o) = None
  BY ItemFacts DEF CalmInv, VersionsAgree
<1>2. ~Purges(o)
  BY <1>1 DEF Purges
<1>3. v.rid # None /\ HomeOf(o) \in {None, v.rid}
  BY <1>1 DEF Versions, RemoteIds, None
<1>4. LaterOps(o) # {} => v.rid = HomeOf(o)
  <2> SUFFICES ASSUME LaterOps(o) # {}, Sent.op = "create" PROVE FALSE
    BY <1>1
  <2>1. PICK q \in ActiveOps(outbox[o].event) : q # o
    BY DEF LaterOps
  <2>2. q \in Int /\ o \in Int
    BY <1>1, <2>1, TableMembers, StoreAssumption DEF ActiveOps, OpsOf, EngineInv
  <2>3. ~(q <= o)
    BY <1>1, <2>1, <2>2 DEF IsFirst
  <2>4. HeardOf(o) /\ Created(o)
    BY <1>1 DEF CalmInv, RowsAgree, CreatesHeard, Created
  <2> QED
    BY <1>1, <2>1, <2>3, <2>4 DEF HeardOf
<1>5. QueuesFine'
  BY <1>1, <1>2, <1>3, <1>4, AcknowledgeQueues, StoreAssumption
     DEF CalmInv, RowsAgree, EngineInv
<1>6. RowsBeside(o) /\ (o \in DOMAIN outbox' => outbox'[o].state = "done")
  BY <1>1, <1>2, AcknowledgeRows, StoreAssumption DEF EngineInv
<1>7. VersionsKept({})
  BY <1>2, <1>3, AcknowledgeVersions, StoreAssumption
     DEF CalmInv, VersionsAgree, CalendarMoves, EngineInv, EngineOK
<1> QED
  BY <1>1, <1>5, <1>6, <1>7, RowEndsCalm DEF TablesMove

\* A completion that the unique index rejects ends the job.
LEMMA CollisionCalm ==
    ASSUME EngineInv, EngineInv', CalmInv, CalendarMoves, InFlight, token' = token,
           UNCHANGED storeVars, Finish,
           Sent.op = "create" => server'[job.item].state # "never",
           \A p \in OpIds : p # job.item /\ server'[p].state = "live" => server[p].state = "live"
    PROVE  CalmInv'
<1>1. TablesMove(job.item) /\ outbox' = outbox
  BY StoreStays DEF storeVars
<1>2. outbox[job.item].state # "blocked" /\ outbox[job.item].op = Sent.op
  BY ItemFacts DEF CalmInv, VersionsAgree
<1> QED
  BY <1>1, <1>2, RowEndsCalm

\* What it means that the server accepts a mutation: a new version of an event
\* without a conflict; no event but the row's own comes to life.
LEMMA AcceptedFacts ==
    ASSUME EngineInv, CalmInv, Mutating, Accepts(job.item, Sent), ServerApplies(job.item, Sent)
    PROVE  LET r == Target(job.item, Sent) IN
           /\ InFlight /\ r \in RemoteIds /\ CalendarMoves
           /\ server'[r] # server[r] /\ server'[r].etag = clock + 1
           /\ server'[r].content = Sent.content /\ server'[r].state # "never"
           /\ Sent.op = "remove" => server'[r].state = "gone"
           /\ outbox[job.item].event \notin DOMAIN conflicts
           /\ \A p \in OpIds :
                p # job.item /\ server'[p].state = "live" => server[p].state = "live"
<1> DEFINE r == Target(job.item, Sent)
           state == IF Sent.op = "remove" \/ Sent.deleted THEN "gone" ELSE "live"
           e == outbox[job.item].event
<1>1. InFlight
  BY DEF InFlight, Mutating
<1>2. /\ job.item \in OpIds /\ Sent.rid = HomeOf(job.item) /\ e \in DOMAIN events
      /\ Sent.expected = events[e].etag
      /\ Sent.op = "create" => HomeOf(job.item) = None
  BY <1>1, ItemFacts DEF CalmInv, VersionsAgree
<1>3. r \in RemoteIds /\ ~Gone(r) /\ Publish(r, state, Sent.content)
      /\ state \in {"live", "gone"} /\ (Sent.op = "remove" => state = "gone")
  BY AcceptedGrows, StoreAssumption DEF ServerApplies
<1>4. Sent.op # "create" => IsLive(r) /\ Sent.rid = r /\ Matches(Sent)
  BY DEF Accepts, Target
<1>5. Sent.op = "create" => r = job.item
  BY DEF Target
<1> HIDE DEF r, state
<1>6. /\ CalendarMoves
      /\ server'[r] = [state |-> state, etag |-> clock + 1, content |-> Sent.content]
      /\ server'[r] # server[r] /\ \A x \in RemoteIds \ {r} : server'[x] = server[x]
  BY <1>3, PublishMoves, StoreAssumption
     DEF EngineInv, EngineOK, CalmInv, VersionsAgree
<1>7. e \notin DOMAIN conflicts
  <2> SUFFICES ASSUME e \in DOMAIN conflicts PROVE FALSE
    OBVIOUS
  <2>1. ConflictTrue(server, events[e], conflicts[e]) /\ RowTrue(server, events[e])
    BY <1>2 DEF CalmInv, VersionsAgree, TablesTrue
  <2>2. HomeOf(job.item) # None /\ events[e].rid = HomeOf(job.item)
    BY <2>1 DEF ConflictTrue, HomeOf
  <2>3. IsLive(r) /\ Sent.rid = r /\ Matches(Sent) /\ events[e].rid = r /\ r # None
    BY <1>2, <1>4, <2>2
  <2>4. events[e].etag # None /\ server[r].etag = events[e].etag
    BY <1>2, <2>1, <2>3 DEF RowTrue, Matches
  <2>5. conflicts[e].rev # None
    BY <2>1, <2>3 DEF ConflictTrue, IsLive
  <2>6. events[e].etag < conflicts[e].rev /\ conflicts[e].rev <= events[e].etag
    BY <2>1, <2>3, <2>4, <2>5 DEF ConflictTrue, Faithful
  <2>7. events[e].etag \in Int /\ conflicts[e].rev \in Int
    BY <1>2, VersionMembers, StoreAssumption DEF EngineInv, EngineOK
  <2> QED
    BY <2>6, <2>7
<1>8. ASSUME NEW p \in OpIds, p # job.item, server'[p].state = "live"
      PROVE  server[p].state = "live"
  <2>1. p \in RemoteIds
    BY OpIdsAreRemoteIds, StoreAssumption
  <2> QED
    BY <1>4, <1>5, <1>6, <1>8, <2>1 DEF IsLive
<1> QED
  BY <1>1, <1>3, <1>6, <1>7, <1>8 DEF r

\* 2xx.
LEMMA AcceptedStepCalm ==
    ASSUME EngineInv, EngineInv', CalmInv, MutationAccepted
    PROVE  CalmInv'
<1> DEFINE v == [rid |-> Target(job.item, Sent), etag |-> clock + 1,
                 content |-> Sent.content]
           r == Target(job.item, Sent)
<1>1. /\ InFlight /\ r \in RemoteIds /\ CalendarMoves
      /\ server'[r] # server[r] /\ server'[r].etag = clock + 1
      /\ server'[r].content = Sent.content /\ server'[r].state # "never"
      /\ Sent.op = "remove" => server'[r].state = "gone"
      /\ outbox[job.item].event \notin DOMAIN conflicts
      /\ \A p \in OpIds :
            p # job.item /\ server'[p].state = "live" => server[p].state = "live"
  BY AcceptedFacts DEF MutationAccepted
<1>2. job.item \in DOMAIN outbox /\ token' = token
  BY <1>1, ItemFacts DEF CalmInv, VersionsAgree, MutationAccepted
<1>3. v \in Versions
  BY AcceptedOK, StoreAssumption DEF MutationAccepted
<1>4. v.rid = r /\ v.etag = clock + 1 /\ v.content = Sent.content
  OBVIOUS
<1>5. IF Sent.op = "remove" THEN CompleteRemoval ELSE Complete(v)
  BY DEF MutationAccepted
<1>6. /\ Sent.op = "create" => r = job.item /\ server[job.item].state = "never"
      /\ Sent.op # "create" => r = Sent.rid
  BY DEF MutationAccepted, Accepts, Target
<1> HIDE DEF v, r
<1>7. CASE Sent.op = "remove"
  <2>1. AcknowledgeRemoval(job.item) /\ NextItem
    BY <1>2, <1>5, <1>7 DEF CompleteRemoval
  <2> QED
    BY <1>1, <1>2, <1>6, <1>7, <2>1, RemovalCalm
<1>8. CASE Sent.op # "remove" /\ AckCollides(job.item, v)
  <2>1. UNCHANGED storeVars /\ Finish
    BY <1>5, <1>8 DEF Complete
  <2> QED
    BY <1>1, <1>2, <1>6, <2>1, CollisionCalm
<1>9. CASE Sent.op # "remove" /\ ~AckCollides(job.item, v)
  <2>1. Acknowledge(job.item, v) /\ NextItem
    BY <1>2, <1>5, <1>9 DEF Complete
  <2> QED
    BY <1>1, <1>2, <1>3, <1>4, <1>6, <1>9, <2>1, AcceptedCalm
<1> QED
  BY <1>7, <1>8, <1>9

\* The reply got lost.
LEMMA ReplyLostCalm ==
    ASSUME EngineInv, EngineInv', CalmInv, ReplyLost
    PROVE  CalmInv'
<1>1. /\ InFlight /\ CalendarMoves
      /\ \A p \in OpIds :
            p # job.item /\ server'[p].state = "live" => server[p].state = "live"
  BY AcceptedFacts DEF ReplyLost
<1>2. job.item \in DOMAIN outbox
  BY <1>1, ItemFacts DEF CalmInv, VersionsAgree
<1>3. SetState(job.item, "retry_wait") /\ NextItem /\ token' = token
  BY <1>2 DEF ReplyLost, Settle
<1> QED
  BY <1>1, <1>3, SettleCalm

\* An attempt that ends without the server having changed.
LEMMA GivenUpCalm ==
    ASSUME EngineInv, EngineInv', CalmInv, InFlight, UNCHANGED <<remoteVars, token>>,
           NEW state \in {"retry_wait", "blocked"}, Settle(state)
    PROVE  CalmInv'
<1>1. job.item \in DOMAIN outbox
  BY ItemFacts DEF CalmInv, VersionsAgree
<1>2. CalendarMoves /\ server' = server
  BY CalendarStays DEF EngineInv, EngineOK, CalmInv, VersionsAgree
<1>3. SetState(job.item, state) /\ NextItem
  BY <1>1 DEF Settle
<1> QED
  BY <1>2, <1>3, SettleCalm

\* 404 or 410 on a removal, and a removal that has nothing to remove.
LEMMA RemovalEndsCalm ==
    ASSUME EngineInv, EngineInv', CalmInv, UNCHANGED <<remoteVars, token>>,
           RemovalAlreadyDone \/ CompleteLocally
    PROVE  CalmInv'
<1>1. InFlight /\ Sent.op = "remove" /\ (Sent.rid # None => ~IsLive(Sent.rid))
  BY DEF RemovalAlreadyDone, CompleteLocally, Mutating, InFlight, CalmInv, RowsAgree, PhaseFine
<1>2. job.item \in DOMAIN outbox /\ Sent \in OutboxRows
  BY <1>1, ItemFacts DEF CalmInv, VersionsAgree
<1>3. CalendarMoves /\ server' = server
  BY CalendarStays DEF EngineInv, EngineOK, CalmInv, VersionsAgree
<1>4. AcknowledgeRemoval(job.item) /\ NextItem
  BY <1>2 DEF RemovalAlreadyDone, CompleteLocally, CompleteRemoval
<1>5. Sent.rid # None => server'[Sent.rid].state # "live"
  BY <1>1, <1>2, <1>3 DEF IsLive, OutboxRows
<1> QED
  BY <1>1, <1>3, <1>4, <1>5, RemovalCalm

\* The created event was found at the server: the pull of this job put it into
\* the store under another event, so the index rejects the completion.
LEMMA ReconcileCollides ==
    ASSUME EngineInv, CalmInv, Reconcile
    PROVE  /\ InFlight /\ Sent.op = "create" /\ server[job.item].state = "live"
           /\ UNCHANGED storeVars /\ Finish
<1> DEFINE v == [rid |-> job.item, etag |-> server[job.item].etag,
                 content |-> server[job.item].content]
<1>1. /\ InFlight /\ Sent.op = "create" /\ server[job.item].state = "live"
      /\ DOMAIN job.todo = {} /\ job.phase = "reconcile"
  BY DEF Reconcile, InFlight, CalmInv, RowsAgree, PhaseFine, IsLive
<1>2. /\ job.item \in DOMAIN outbox /\ job.item \in DOMAIN job.snap /\ job.item \in OpIds
      /\ HomeOf(job.item) = None /\ outbox[job.item].op = "create" /\ job.item # None
  BY <1>1, ItemFacts DEF CalmInv, VersionsAgree, OpIds, None
<1>3. RowsWith(job.item) # {}
  BY <1>1, <1>2 DEF CalmInv, VersionsAgree, CreateSeen
<1>4. outbox[job.item].event \notin RowsWith(job.item)
  BY <1>2 DEF RowsWith, HomeOf
<1>5. v.rid = job.item /\ Complete(v)
  BY DEF Reconcile
<1> HIDE DEF v
<1>6. AckCollides(job.item, v)
  BY <1>2, <1>3, <1>4, <1>5 DEF AckCollides, Purges
<1> QED
  BY <1>1, <1>5, <1>6 DEF Complete

\* So the job ends.
LEMMA ReconcileCalm ==
    ASSUME EngineInv, EngineInv', CalmInv, Reconcile
    PROVE  CalmInv'
<1>1. /\ InFlight /\ Sent.op = "create" /\ server[job.item].state = "live"
      /\ UNCHANGED storeVars /\ Finish
  BY ReconcileCollides
<1>2. CalendarMoves /\ server' = server /\ token' = token
  BY CalendarStays DEF EngineInv, EngineOK, CalmInv, VersionsAgree, Reconcile
<1> QED
  BY <1>1, <1>2, CollisionCalm

\* A reply that is looked into: the job turns to another phase with the row.
LEMMA LookedIntoCalm ==
    ASSUME EngineInv, EngineInv', RemoteIdentityUnique, HomeInv, CalmInv,
           Refused \/ UpdateTargetGone \/ Hydrate
    PROVE  CalmInv'
<1>0. /\ JobOK(job) /\ UNCHANGED remoteVars /\ server' = server /\ token' = token
      /\ TypeOK /\ TypeOK' /\ ServerOK /\ ClocksFine /\ TablesTrue /\ QueuesFine
  BY DEF EngineInv, EngineOK, Refused, UpdateTargetGone, Hydrate, remoteVars,
         CalmInv, VersionsAgree, RowsAgree
<1>1. InFlight /\ job.phase \notin {"apply", "drain"}
      /\ (job.phase = "mutate" => ~(Sent.op = "remove" /\ Sent.rid = None))
  BY DEF Refused, UpdateTargetGone, Hydrate, Mutating, InFlight, CalmInv, RowsAgree, PhaseFine
<1>2. /\ job.item \in DOMAIN job.snap /\ job.item \in DOMAIN outbox /\ job.item \in OpIds
      /\ Sent.rid = HomeOf(job.item) /\ job.item # None /\ Sent \in OutboxRows
  BY <1>1, ItemFacts DEF CalmInv, VersionsAgree, OpIds, None
<1>3. PICK phase \in {"reconcile", "hydrate", "settle"} :
        /\ Goto(phase)
        /\ phase = "reconcile" => Sent.op = "create" /\ server[job.item].state # "never"
        /\ phase = "hydrate" => Sent.op # "create"
  BY DEF Refused, UpdateTargetGone, Hydrate, Accepts
<1>4. /\ job'.phase = phase /\ job'.todo = job.todo /\ job'.cursor = job.cursor
      /\ job'.snap = job.snap /\ job'.item = job.item
  BY <1>0, <1>3, PhasedJob
<1>5. InFlight' /\ Sent' = Sent
  BY <1>3, <1>4 DEF InFlight, Sent
<1>6. PhaseFine'
  BY <1>0, <1>1, <1>2, <1>3, <1>4, <1>5 DEF CalmInv, RowsAgree, PhaseFine, InFlight
<1>7. None \notin DOMAIN outbox /\ None \notin DOMAIN outbox' /\ None \notin DOMAIN job.snap
  BY DEF EngineInv, EngineOK, JobOK, TypeOK, OutboxOK, OpIds, None
<1>8. TablesMove(None)
  <2>1. CASE UNCHANGED storeVars
    BY <1>0, <2>1, StoreStays, CalendarStays
  <2>2. ASSUME Sent.rid \in RemoteIds, ~IsLive(Sent.rid), RemoveRemote(Sent.rid)
        PROVE  TablesMove(None)
    <3>1. Gone(Sent.rid) \/ RowsWith(Sent.rid) = {}
      BY <2>2, NotLiveIsGone
    <3> QED
      BY <1>0, <2>2, <3>1, RemoveRemoteVersions, RemoveRemoteQueues, RemoveRemoteRows,
         StoreAssumption DEF TablesMove
  <2>3. ASSUME Sent.rid \in RemoteIds, IsLive(Sent.rid),
               ApplyRemote(Sent.rid, server[Sent.rid].etag, server[Sent.rid].content)
        PROVE  TablesMove(None)
    <3> DEFINE r == Sent.rid
    <3>1. server[r].etag \in Etags /\ server[r].state = "live" /\ server[r].etag \in Int
      BY <1>0, <2>3 DEF ServerOK, Resources, IsLive, Etags, None
    <3>2. Faithful(server, r, server[r].etag, server[r].content)
      BY <3>1 DEF Faithful
    <3>3. \A e \in RowsWith(r) : events[e].etag <= server[r].etag
      BY <1>0, <2>3 DEF TablesTrue, RowTrue, RowsWith, RemoteIds, None
    <3>4. VersionsKept({})
      BY <1>0, <2>3, <3>1, <3>2, <3>3, ApplyRemoteVersions, StoreAssumption
    <3>5. QueuesFine'
      BY <1>0, <2>3, ApplyRemoteQueues, StoreAssumption
    <3>6. outbox' = outbox
      BY <2>3 DEF ApplyRemote
    <3> QED
      BY <3>4, <3>5, <3>6, SameRows DEF TablesMove
  <2>4. Hydrate => Sent.rid \in RemoteIds
    BY DEF Hydrate, EngineInv, EngineOK, ItemOK, Sent
  <2>5. UpdateTargetGone => Sent.rid = None \/ Sent.rid \in RemoteIds
    BY <1>2 DEF OutboxRows
  <2> QED
    BY <2>1, <2>2, <2>3, <2>4, <2>5 DEF Refused, UpdateTargetGone, Hydrate
<1> QED
  BY <1>0, <1>1, <1>4, <1>5, <1>6, <1>7, <1>8, RowGoesOnCalm

\* A step of the job that leaves store and server alone and ends it, or turns to
\* a phase with no row in flight.
LEMMA TurnCalm ==
    ASSUME EngineInv, EngineInv', CalmInv, UNCHANGED <<storeVars, remoteVars, token>>,
           \/ Finish /\ ~InFlight
           \/ /\ job'.snap = job.snap /\ job'.todo = job.todo /\ job'.cursor = job.cursor
              /\ job.phase \notin {"apply", "complete", "mutate", "hydrate", "reconcile",
                                   "settle"}
              /\ \/ job'.phase = "dispatch"
                 \/ job'.phase \in {"list", "resolve"} /\ DOMAIN job.snap = {}
    PROVE  CalmInv'
<1>0. /\ CalendarMoves /\ server' = server /\ token' = token /\ UNCHANGED remoteVars
      /\ UNCHANGED storeVars
  BY CalendarStays DEF EngineInv, EngineOK, CalmInv, VersionsAgree
<1>1. TablesMove(None)
  BY <1>0, StoreStays
<1>2. None \notin DOMAIN outbox /\ None \notin DOMAIN outbox' /\ None \notin DOMAIN job.snap
  BY DEF EngineInv, EngineOK, JobOK, TypeOK, OutboxOK, OpIds, None
<1>3. CASE Finish /\ ~InFlight
  BY <1>0, <1>1, <1>2, <1>3, RowEndsCalm
<1>4. CASE /\ job'.snap = job.snap /\ job'.todo = job.todo /\ job'.cursor = job.cursor
           /\ job.phase \notin {"apply", "complete", "mutate", "hydrate", "reconcile",
                                "settle"}
           /\ \/ job'.phase = "dispatch"
              \/ job'.phase \in {"list", "resolve"} /\ DOMAIN job.snap = {}
  <2>1. ~InFlight /\ job'.phase \in {"dispatch", "list", "resolve"}
    BY <1>4 DEF InFlight
  <2>2. PhaseFine'
    BY <1>4, <2>1 DEF CalmInv, RowsAgree, PhaseFine, InFlight
  <2> QED
    BY <1>0, <1>1, <1>2, <1>4, <2>1, <2>2, RowGoesOnCalm
<1> QED
  BY <1>3, <1>4

\* The steps that look at the next row, or find none.
LEMMA DispatchCalm ==
    ASSUME EngineInv, EngineInv', RemoteIdentityUnique, HomeInv, CalmInv, Dispatch
    PROVE  CalmInv'
<1>0. /\ JobOK(job) /\ UNCHANGED remoteVars /\ server' = server /\ token' = token
      /\ TypeOK /\ TypeOK' /\ ServerOK /\ CalendarMoves
  BY CalendarStays
     DEF EngineInv, EngineOK, Dispatch, DrainOutbox, DispatchDone, CompleteLocally, DispatchNext,
         DispatchMissing, remoteVars, CalmInv, VersionsAgree
<1>1. CASE CompleteLocally
  BY <1>0, <1>1, RemovalEndsCalm
<1>2. ASSUME NEW o \in OpIds, DispatchMissing(o) PROVE CalmInv'
  BY <1>0, <1>2, TurnCalm DEF DispatchMissing, InFlight
<1>3. CASE DispatchDone
  <2>1. /\ job' = [IdleJob EXCEPT !.phase = "resolve", !.open = DOMAIN conflicts]
        /\ job.phase = "dispatch" /\ UNCHANGED storeVars
    BY <1>3 DEF DispatchDone
  <2>2. /\ job'.phase = "resolve" /\ job'.snap = Empty /\ job'.todo = Empty
        /\ job'.cursor = None /\ job'.item = None
    BY <2>1 DEF IdleJob
  <2>3. DOMAIN Empty = {}
    BY DEF Empty
  <2>4. PhaseFine' /\ SnapFine' /\ ~InFlight' /\ ~InFlight
    BY <2>1, <2>2, <2>3 DEF PhaseFine, SnapFine, InFlight
  <2>5. TablesMove(None)
    BY <1>0, <2>1, StoreStays
  <2>6. CreatesHeard'
    <3>1. None \notin DOMAIN outbox /\ None \notin DOMAIN outbox'
      BY <1>0 DEF TypeOK, OutboxOK, OpIds, None
    <3> QED
      BY <1>0, <2>4, <2>5, <3>1, HeardKept, StoreAssumption
         DEF TablesMove, CalmInv, RowsAgree, CalendarMoves
  <2>7. VersionsAgree'
    BY <1>0, <2>2, <2>3, <2>5, VersionsOutside DEF TablesMove, CalmInv, RowsAgree, CalendarMoves
  <2> QED
    BY <2>4, <2>5, <2>6, <2>7 DEF CalmInv, RowsAgree, TablesMove
<1>4. CASE DrainOutbox
  <2> DEFINE ready == {o \in OpIds : Ready(o)}
             rows == [o \in ready |-> outbox[o]]
  <2>1. /\ job' = [job EXCEPT !.phase = "dispatch", !.snap = rows]
        /\ job.phase = "drain" /\ UNCHANGED storeVars
    BY <1>4 DEF DrainOutbox
  <2>2. DOMAIN rows = ready /\ \A o \in ready : rows[o] = outbox[o]
    OBVIOUS
  <2> HIDE DEF rows
  <2>3. /\ job'.phase = "dispatch" /\ job'.snap = rows /\ job'.todo = job.todo
        /\ job'.cursor = job.cursor
    BY <1>0, <2>1 DEF JobOK
  <2>4. outbox' = outbox /\ events' = events /\ conflicts' = conflicts /\ TablesMove(None)
    BY <1>0, <2>1, StoreStays DEF storeVars
  <2>5. DOMAIN job'.todo = {} /\ ~InFlight /\ ~InFlight'
    BY <2>1, <2>3 DEF InFlight, CalmInv, RowsAgree, PhaseFine
  <2>6. PhaseFine'
    BY <2>3, <2>5 DEF PhaseFine, InFlight
  <2>7. SnapFine'
    <3> SUFFICES ASSUME NEW o \in ready
                 PROVE  /\ o \in DOMAIN outbox
                        /\ outbox[o].state \in QueuedStates \cup {"sending"}
                        /\ IsFirst(o) /\ SameRow(rows[o], outbox[o])
      <4>1. \A o : IsFirst(o)' <=> IsFirst(o)
        BY <2>4 DEF IsFirst, ActiveOps, OpsOf
      <4> QED
        BY <2>2, <2>3, <2>4, <4>1 DEF SnapFine
    <3>1. o \in DOMAIN outbox /\ outbox[o].state \in QueuedStates /\ DependencyMet(o)
      BY DEF Ready
    <3>2. PICK e \in DOMAIN events : e = outbox[o].event
      BY <1>0, <3>1, TableMembers, StoreAssumption
    <3>3. QueueFine(e) /\ o \in ActiveOps(e)
      BY <3>1, <3>2 DEF CalmInv, RowsAgree, QueuesFine, ActiveOps, OpsOf, ActiveStates,
                        QueuedStates
    <3>4. IsFirst(o)
      <4> SUFFICES ASSUME NEW q \in ActiveOps(e), ~(o <= q) PROVE FALSE
        BY <3>2 DEF IsFirst
      <4>1. q \in Int /\ o \in Int
        BY <1>0, <3>1, TableMembers, StoreAssumption DEF ActiveOps, OpsOf
      <4>2. q < o
        BY <4>1
      <4>3. outbox[o].dep \in ActiveOps(e)
        BY <3>3, <4>2 DEF QueueFine
      <4>4. /\ outbox[o].dep \in DOMAIN outbox /\ outbox[o].dep # None
            /\ outbox[outbox[o].dep].state \in ActiveStates
        BY <1>0, <4>3, TableMembers, StoreAssumption DEF ActiveOps, OpsOf
      <4> QED
        BY <3>1, <4>4 DEF DependencyMet, ActiveStates
    <3> QED
      BY <2>2, <3>1, <3>4 DEF SameRow
  <2>8. CreatesHeard'
    <3>1. None \notin DOMAIN outbox /\ None \notin DOMAIN outbox'
      BY <1>0 DEF TypeOK, OutboxOK, OpIds, None
    <3> QED
      BY <1>0, <2>4, <2>5, <3>1, HeardKept, StoreAssumption
         DEF TablesMove, CalmInv, RowsAgree, CalendarMoves
  <2>9. VersionsAgree'
    <3>1. TablesTrue /\ ClocksFine /\ TokenCovers /\ CreateSeen /\ DOMAIN job.todo = {}
      BY <2>3, <2>5 DEF CalmInv, VersionsAgree
    <3>2. TablesTrue'
      BY <2>4 DEF TablesMove, VersionsKept
    <3>3. ClocksFine'
      BY <1>0, <2>3, <3>1 DEF ClocksFine, remoteVars
    <3>4. StagedFine'
      BY <2>5 DEF StagedFine
    <3>5. TokenCovers'
      <4> SUFFICES ASSUME NEW r \in RemoteIds, server[r].etag <= token PROVE InStore(r)'
        BY <1>0, <2>3 DEF TokenCovers, Horizon
      <4>1. InStore(r)
        BY <2>1, <3>1 DEF TokenCovers, Horizon
      <4> QED
        BY <1>0, <2>4, <4>1 DEF TablesMove, VersionsKept
    <3>6. CreateSeen'
      <4>1. \A o \in OpIds : server[o].state = "live" => RowsWith(o) # {}
        BY <2>1, <3>1 DEF CreateSeen
      <4>2. \A o : RowsWith(o)' = RowsWith(o)
        BY <2>4 DEF RowsWith
      <4> QED
        BY <1>0, <4>1, <4>2 DEF CreateSeen
    <3> QED
      BY <3>2, <3>3, <3>4, <3>5, <3>6 DEF VersionsAgree
  <2> QED
    BY <2>4, <2>6, <2>7, <2>8, <2>9 DEF CalmInv, RowsAgree, TablesMove
<1>5. ASSUME NEW o \in OpIds, DispatchNext(o) PROVE CalmInv'
  <2> DEFINE phase == IF job.snap[o].op = "remove" /\ job.snap[o].rid = None
                      THEN "complete" ELSE "mutate"
  <2>1. /\ job.phase = "dispatch" /\ o \in DOMAIN job.snap /\ SetState(o, "sending")
        /\ job' = [job EXCEPT !.item = o, !.phase = phase]
    BY <1>5 DEF DispatchNext
  <2>2. /\ phase \in {"complete", "mutate"}
        /\ phase = "complete" <=> job.snap[o].op = "remove" /\ job.snap[o].rid = None
    OBVIOUS
  <2> HIDE DEF phase
  <2>3. /\ job'.phase = phase /\ job'.item = o /\ job'.snap = job.snap
        /\ job'.todo = job.todo /\ job'.cursor = job.cursor
    BY <1>0, <2>1 DEF JobOK
  <2>4. /\ o \in DOMAIN outbox /\ outbox[o].state \in ActiveStates
        /\ outbox[o].state # "blocked" /\ IsFirst(o)
    BY <2>1 DEF CalmInv, RowsAgree, SnapFine, ActiveStates, QueuedStates
  <2>5. QueuesFine'
    BY <1>0, <2>1, <2>4, SetStateQueues, StoreAssumption DEF CalmInv, RowsAgree, ActiveStates
  <2>6. RowsBeside(o) /\ outbox'[o].state = "sending" /\ SameRow(outbox'[o], outbox[o])
        /\ o \in DOMAIN outbox'
    BY <1>0, <2>1, <2>4, SetStateRows, StoreAssumption
  <2>7. VersionsKept({})
    BY <1>0, <2>1, SameTablesVersions, StoreAssumption
       DEF SetState, CalmInv, VersionsAgree, CalendarMoves, EngineInv, EngineOK
  <2>8. PhaseFine'
    BY <2>1, <2>2, <2>3 DEF CalmInv, RowsAgree, PhaseFine, InFlight, Sent
  <2>9. ~InFlight /\ InFlight'
    BY <2>1, <2>2, <2>3 DEF InFlight
  <2> QED
    BY <1>0, <2>1, <2>2, <2>3, <2>4, <2>5, <2>6, <2>7, <2>8, <2>9, RowGoesOnCalm DEF TablesMove
<1> QED
  BY <1>1, <1>2, <1>3, <1>4, <1>5 DEF Dispatch

-----------------------------------------------------------------------------
(* The commands that do not meet the job.                                  *)

\* A create that a transaction leaves as it is, with no new row behind it.
LEMMA HeardAsBefore ==
    ASSUME InFlight => InFlight' /\ job'.item = job.item, ServerGrows,
           NEW p \in DOMAIN outbox, p \in RemoteIds, HeardOf(p),
           p \in DOMAIN outbox', NEW e, outbox[p].event = e, outbox'[p].event = e,
           outbox'[p].op = "create" => outbox[p].op = "create",
           outbox'[p].state = outbox[p].state \/ outbox'[p].state = "done",
           ActiveOps(e)' \subseteq ActiveOps(e)
    PROVE  HeardOf(p)'
<1> SUFFICES ASSUME outbox'[p].op = "create"
             PROVE  /\ outbox'[p].state = "sending" =>
                        server'[p].state # "never" \/ (InFlight' /\ job'.item = p)
                    /\ /\ outbox'[p].state \in ActiveStates
                       /\ ~(\A q \in ActiveOps(e)' : q <= p)
                       => server'[p].state # "never" \/ outbox'[p].state = "blocked"
  BY DEF HeardOf, Created, ActiveOps, OpsOf
<1>1. server[p].state # "never" => server'[p].state # "never"
  BY DEF ServerGrows
<1>2. outbox'[p].state \in ActiveStates \cup {"sending"} => outbox'[p].state = outbox[p].state
  BY DEF ActiveStates
<1> QED
  BY <1>1, <1>2 DEF HeardOf, Created

\* The commands that write an event put a row behind a create only when that
\* create was sent and not settled, or given up.
LEMMA UserEditHeard ==
    ASSUME StoreAssumption, TypeOK, DependencyOrder, ServerGrows, CreatesHeard, UNCHANGED job,
           InFlight => job.item \in DOMAIN job.snap, ApartFromJob,
           NEW e \in EventIds, NEW row, NEW op, SaveLocalEvent(e, row, op),
           op = "create" => OpsOf(e) = {}
    PROVE  CreatesHeard'
<1>0. /\ \A p \in DOMAIN outbox : p \in RemoteIds /\ HeardOf(p) /\ p \in Int
      /\ InFlight' = InFlight /\ job'.item = job.item
  BY HomeTypes, TableMembers DEF CreatesHeard, InFlight
<1>1. ASSUME NEW o \in OpIds, CancelUnsynced(e, o, op) PROVE CreatesHeard'
  <2>1. /\ DOMAIN outbox' = DOMAIN outbox \ OpsOf(e)
        /\ \A p \in DOMAIN outbox' : outbox'[p] = outbox[p]
    BY <1>1 DEF CancelUnsynced, DeleteEvent, Restrict
  <2>2. \A f : ActiveOps(f)' \subseteq ActiveOps(f)
    BY <2>1 DEF ActiveOps, OpsOf
  <2> QED
    BY <1>0, <2>1, <2>2, HeardAsBefore DEF CreatesHeard
<1>2. ASSUME NEW o \in OpIds, Coalesce(e, o, row, op) PROVE CreatesHeard'
  <2>1. /\ o \in DOMAIN outbox /\ outbox[o].event = e /\ outbox[o].state \in QueuedStates
        /\ op # "create" /\ outbox[o] \in OutboxRows
    BY <1>2, TableMembers DEF Coalesce, IsNewest, QueuedOps, OpsOf
  <2>2. /\ DOMAIN outbox' = DOMAIN outbox
        /\ \A p \in DOMAIN outbox \ {o} : outbox'[p] = outbox[p]
        /\ outbox'[o].event = e /\ outbox'[o].state = "pending"
        /\ (outbox'[o].op = "create" => outbox[o].op = "create")
    BY <1>2, <2>1 DEF Coalesce, QueueRow
  <2>3. \A f : ActiveOps(f)' = ActiveOps(f)
    BY <2>1, <2>2 DEF ActiveOps, OpsOf, ActiveStates, QueuedStates
  <2>4. ASSUME NEW p \in DOMAIN outbox \ {o} PROVE HeardOf(p)'
    BY <1>0, <2>2, <2>3, HeardAsBefore
  <2>5. HeardOf(o)'
    <3>1. ActiveOps(e)' = ActiveOps(e) /\ HeardOf(o) /\ o \in RemoteIds
      BY <1>0, <2>1, <2>3
    <3>2. server[o].state # "never" => server'[o].state # "never"
      BY <3>1 DEF ServerGrows
    <3>3. outbox[o].state \in ActiveStates /\ outbox[o].state # "blocked"
      BY <2>1 DEF ActiveStates, QueuedStates
    <3>4. SUFFICES ASSUME outbox'[o].op = "create", ~(\A q \in ActiveOps(e)' : q <= o)
                   PROVE  server'[o].state # "never"
      BY <2>2 DEF HeardOf, Created, ActiveOps, OpsOf
    <3> QED
      BY <2>1, <2>2, <3>1, <3>2, <3>3, <3>4 DEF HeardOf, Created
  <2> QED
    BY <2>2, <2>4, <2>5 DEF CreatesHeard
<1>3. ASSUME NEW dep, Enqueue(e, dep, row, op) PROVE CreatesHeard'
  <2>1. /\ DOMAIN outbox' = DOMAIN outbox \cup {nextOp} /\ nextOp \in Int
        /\ \A p \in DOMAIN outbox : p < nextOp /\ p # nextOp
        /\ \A p \in DOMAIN outbox : outbox'[p] = outbox[p]
        /\ outbox'[nextOp].event = e /\ outbox'[nextOp].state = "pending"
    BY <1>0, <1>3, TableMembers DEF Enqueue, Put, QueueRow, DependencyOrder
  <2>2. ASSUME NEW p \in DOMAIN outbox PROVE HeardOf(p)'
    <3>1. CASE outbox[p].event = e
      <4>1. p \notin QueuedOps(e)
        BY <1>3 DEF Enqueue
      <4>2. outbox[p].state \notin QueuedStates /\ outbox[p] \in OutboxRows
        BY <3>1, <4>1, TableMembers DEF QueuedOps, OpsOf
      <4>3. outbox[p].state \in {"sending", "blocked", "done"}
        BY <4>2 DEF OutboxRows, ActiveStates, QueuedStates
      <4>4. server[p].state # "never" => server'[p].state # "never"
        BY <1>0 DEF ServerGrows
      <4>5. HeardOf(p) /\ outbox'[p] = outbox[p]
        BY <1>0, <2>1
      <4>6. Created(p) => p \notin DOMAIN job.snap
        <5>1. OpsOf(e)' # OpsOf(e)
          BY <2>1 DEF OpsOf
        <5> QED
          BY <3>1, <5>1 DEF ApartFromJob, Created
      <4> QED
        BY <4>3, <4>4, <4>5, <4>6 DEF HeardOf, Created, ActiveStates
    <3>2. CASE outbox[p].event # e
      <4>1. PICK f : f = outbox[p].event
        OBVIOUS
      <4>2. ActiveOps(f)' \subseteq ActiveOps(f)
        BY <2>1, <3>2, <4>1 DEF ActiveOps, OpsOf
      <4> QED
        BY <1>0, <2>1, <4>1, <4>2, HeardAsBefore
    <3> QED
      BY <3>1, <3>2
  <2>3. \A q \in DOMAIN outbox' : q <= nextOp
    BY <1>0, <2>1
  <2>4. ASSUME NEW n, n = nextOp PROVE HeardOf(n)'
    BY <2>1, <2>3, <2>4 DEF HeardOf, Created, ActiveOps, OpsOf
  <2> QED
    BY <2>1, <2>2, <2>4 DEF CreatesHeard
<1> QED
  BY <1>1, <1>2, <1>3 DEF SaveLocalEvent

\* A decision finishes every row of the event; the kept side is queued last.
LEMMA ResolveHeard ==
    ASSUME StoreAssumption, TypeOK, DependencyOrder, ServerGrows, CreatesHeard,
           InFlight => InFlight' /\ job'.item = job.item,
           NEW e, NEW content, NEW deleted, KeepRemote(e) \/ KeepLocal(e, content, deleted)
    PROVE  CreatesHeard'
<1>0. \A p \in DOMAIN outbox : /\ p \in RemoteIds /\ HeardOf(p) /\ p \in Int
                               /\ outbox[p] \in OutboxRows
  BY HomeTypes, TableMembers DEF CreatesHeard
<1>1. ASSUME NEW p \in DOMAIN outbox, p \in DOMAIN outbox', outbox'[p] = Finished(e)[p],
             \A f : f # e => ActiveOps(f)' \subseteq ActiveOps(f)
      PROVE  HeardOf(p)'
  <2>1. IF outbox[p].event = e THEN outbox'[p] = [outbox[p] EXCEPT !.state = "done"]
                               ELSE outbox'[p] = outbox[p]
    BY <1>1 DEF Finished
  <2>2. CASE outbox[p].event = e
    BY <1>0, <2>1, <2>2 DEF HeardOf, Created, ActiveStates, OutboxRows
  <2>3. CASE outbox[p].event # e
    <3>1. PICK f : f = outbox[p].event /\ f # e
      BY <2>3
    <3> QED
      BY <1>0, <1>1, <2>1, <2>3, <3>1, HeardAsBefore
  <2> QED
    BY <2>2, <2>3
<1>2. \A p \in DOMAIN outbox : IF outbox[p].event = e THEN Finished(e)[p].state = "done"
                                                           /\ Finished(e)[p].event = e
                                                      ELSE Finished(e)[p] = outbox[p]
  BY <1>0 DEF Finished, OutboxRows
<1>3. CASE KeepRemote(e)
  <2>1. outbox' = Finished(e) /\ DOMAIN outbox' = DOMAIN outbox
    BY <1>3 DEF KeepRemote, Finished
  <2>2. \A f : f # e => ActiveOps(f)' \subseteq ActiveOps(f)
    BY <1>2, <2>1 DEF ActiveOps, OpsOf
  <2> QED
    BY <1>1, <2>1, <2>2 DEF CreatesHeard
<1>4. CASE KeepLocal(e, content, deleted)
  <2>1. /\ DOMAIN outbox' = DOMAIN outbox \cup {nextOp} /\ nextOp \in Int
        /\ \A p \in DOMAIN outbox : p < nextOp /\ p # nextOp
        /\ \A p \in DOMAIN outbox : outbox'[p] = Finished(e)[p]
        /\ outbox'[nextOp].event = e /\ outbox'[nextOp].state = "pending"
    BY <1>0, <1>4, TableMembers DEF KeepLocal, Put, QueueRow, DependencyOrder, Finished
  <2>2. \A f : f # e => ActiveOps(f)' \subseteq ActiveOps(f)
    BY <1>2, <2>1 DEF ActiveOps, OpsOf
  <2>3. \A q \in DOMAIN outbox' : q <= nextOp
    BY <1>0, <2>1
  <2>4. ASSUME NEW n, n = nextOp PROVE HeardOf(n)'
    BY <2>1, <2>3, <2>4 DEF HeardOf, Created, ActiveOps, OpsOf
  <2> QED
    BY <1>1, <2>1, <2>2, <2>4 DEF CreatesHeard
<1> QED
  BY <1>3, <1>4

\* A step of the store while no job runs, or at the end of one.
LEMMA StoreAloneCalm ==
    ASSUME EngineInv, EngineInv', CalmInv, UNCHANGED <<remoteVars, token>>,
           QueuesFine', CreatesHeard', VersionsKept({}),
           job'.phase \in {"idle", "resolve"}, job.phase \in {"idle", "resolve"},
           job'.snap = job.snap, job'.todo = job.todo, job'.cursor = job.cursor
    PROVE  CalmInv'
<1>1. CalendarMoves /\ server' = server /\ token' = token
  BY CalendarStays DEF EngineInv, EngineOK, CalmInv, VersionsAgree
<1>2. DOMAIN job'.snap = {} /\ DOMAIN job'.todo = {}
  BY DEF CalmInv, RowsAgree, PhaseFine
<1>3. PhaseFine' /\ SnapFine'
  BY <1>2 DEF PhaseFine, SnapFine, InFlight
<1>4. VersionsAgree'
  BY <1>1, <1>2, VersionsOutside DEF CalmInv, RowsAgree, CalendarMoves
<1> QED
  BY <1>3, <1>4 DEF CalmInv, RowsAgree

\* The decision of a conflict.
LEMMA ResolveCalm ==
    ASSUME EngineInv, EngineInv', DependencyOrder, CalmInv, UNCHANGED <<remoteVars, token>>,
           job'.phase = job.phase, job.phase \in {"idle", "resolve"},
           job'.snap = job.snap, job'.todo = job.todo, job'.cursor = job.cursor,
           NEW e, NEW content, NEW deleted, KeepRemote(e) \/ KeepLocal(e, content, deleted)
    PROVE  CalmInv'
<1>1. /\ TypeOK /\ TypeOK' /\ ServerOK /\ ClocksFine /\ TablesTrue /\ QueuesFine
      /\ CreatesHeard /\ UNCHANGED remoteVars
  BY DEF EngineInv, EngineOK, CalmInv, VersionsAgree, RowsAgree
<1>2. ~InFlight /\ ServerGrows
  BY <1>1, CalendarStays DEF InFlight, CalendarMoves
<1>3. CreatesHeard'
  BY <1>1, <1>2, ResolveHeard, StoreAssumption
<1>4. QueuesFine'
  BY <1>1, KeepRemoteQueues, KeepLocalQueues, StoreAssumption
<1>5. VersionsKept({})
  BY <1>1, KeepRemoteVersions, KeepLocalVersions, StoreAssumption
<1> QED
  BY <1>1, <1>3, <1>4, <1>5, StoreAloneCalm

\* A row that is unfinished after a command was so before, or is the new one.
RowsOfCommand ==
    \A q \in DOMAIN outbox' :
        outbox'[q].state \in ActiveStates =>
            \/ q = nextOp
            \/ /\ q \in DOMAIN outbox /\ outbox[q].state \in ActiveStates
               /\ outbox'[q].event = outbox[q].event

\* What a command says of a remote event, the store knew already.
VersionsOfCommand == \A r \in RemoteIds, n \in Int : Behind(r, n) => Behind(r, n)'

\* A command that writes an event keeps its identity and revision.
LEMMA UserEditApart ==
    ASSUME StoreAssumption, TypeOK, NEW e, NEW row, NEW op, SaveLocalEvent(e, row, op),
           \/ row.rid = None
           \/ e \in DOMAIN events /\ row.rid = events[e].rid /\ row.etag = events[e].etag
    PROVE  RowsOfCommand /\ VersionsOfCommand
<1>1. ASSUME NEW o \in OpIds, CancelUnsynced(e, o, op)
      PROVE  RowsOfCommand /\ VersionsOfCommand
  <2>1. /\ DOMAIN outbox' \subseteq DOMAIN outbox /\ DOMAIN events' \subseteq DOMAIN events
        /\ DOMAIN conflicts' \subseteq DOMAIN conflicts
        /\ \A p \in DOMAIN outbox' : outbox'[p] = outbox[p]
        /\ \A f \in DOMAIN events' : events'[f] = events[f]
        /\ \A f \in DOMAIN conflicts' : conflicts'[f] = conflicts[f]
    BY <1>1 DEF CancelUnsynced, DeleteEvent, Restrict
  <2> QED
    BY <2>1 DEF RowsOfCommand, VersionsOfCommand, Behind, RowsWith
<1>2. ASSUME events' = Put(events, e, row), conflicts' = conflicts PROVE VersionsOfCommand
  <2> SUFFICES ASSUME NEW r \in RemoteIds, NEW n \in Int, Behind(r, n), NEW f \in RowsWith(r)'
               PROVE  /\ events'[f].etag <= n
                      /\ f \in DOMAIN conflicts' => conflicts'[f].rev <= n
    BY DEF VersionsOfCommand, Behind
  <2>1. r # None
    BY StoreAssumption DEF RemoteIds, None, StoreAssumption
  <2>2. f \in DOMAIN events' /\ events'[f].rid = r
    BY DEF RowsWith
  <2>3. f \in RowsWith(r) /\ events'[f].etag = events[f].etag
    BY <1>2, <2>1, <2>2 DEF Put, RowsWith
  <2> QED
    BY <1>2, <2>3 DEF Behind
<1>3. ASSUME NEW o \in OpIds, Coalesce(e, o, row, op)
      PROVE  RowsOfCommand /\ VersionsOfCommand
  <2>1. /\ o \in DOMAIN outbox /\ outbox[o].event = e /\ outbox[o].state \in QueuedStates
    BY <1>3 DEF Coalesce, IsNewest, QueuedOps, OpsOf
  <2>2. /\ DOMAIN outbox' = DOMAIN outbox /\ outbox'[o].event = e
        /\ \A p \in DOMAIN outbox \ {o} : outbox'[p] = outbox[p]
    BY <1>3, <2>1 DEF Coalesce, QueueRow
  <2> QED
    BY <1>2, <1>3, <2>1, <2>2 DEF Coalesce, RowsOfCommand, ActiveStates, QueuedStates
<1>4. ASSUME NEW dep, Enqueue(e, dep, row, op)
      PROVE  RowsOfCommand /\ VersionsOfCommand
  BY <1>2, <1>4 DEF Enqueue, Put, RowsOfCommand
<1> QED
  BY <1>1, <1>3, <1>4 DEF SaveLocalEvent

\* A decision takes over the revision that the conflict names.
LEMMA ResolveApart ==
    ASSUME StoreAssumption, TypeOK, NEW e, NEW content, NEW deleted,
           KeepRemote(e) \/ KeepLocal(e, content, deleted)
    PROVE  RowsOfCommand /\ VersionsOfCommand
<1>0. /\ e \in DOMAIN conflicts /\ e \in DOMAIN events /\ events[e] \in EventRows
      /\ conflicts' = Restrict(conflicts, DOMAIN conflicts \ {e})
  BY TableMembers, StoreAssumption
     DEF KeepRemote, KeepLocal, CloseConflict, TypeOK, ConflictsOK
<1>1. /\ DOMAIN conflicts' = DOMAIN conflicts \ {e}
      /\ \A f \in DOMAIN conflicts' : conflicts'[f] = conflicts[f]
  BY <1>0 DEF Restrict
<1>2. /\ DOMAIN events' = DOMAIN events
      /\ \A f \in DOMAIN events \ {e} : events'[f] = events[f]
      /\ events'[e].rid \in {events[e].rid, None}
      /\ \/ events'[e].etag = conflicts[e].rev
         \/ events'[e].etag = events[e].etag
  <2>1. CASE KeepRemote(e)
    BY <1>0, <2>1 DEF KeepRemote, RemoteSide, EventRows
  <2>2. CASE KeepLocal(e, content, deleted)
    <3> DEFINE gone == conflicts[e].rev = None
               row == [rid |-> IF gone THEN None ELSE events[e].rid,
                       etag |-> conflicts[e].rev, content |-> content,
                       dirty |-> TRUE, deleted |-> deleted]
    <3>1. events' = Put(events, e, row)
      BY <2>2 DEF KeepLocal
    <3>2. row.rid \in {events[e].rid, None} /\ row.etag = conflicts[e].rev
      OBVIOUS
    <3> HIDE DEF row
    <3> QED
      BY <1>0, <3>1, <3>2 DEF Put
  <2> QED
    BY <2>1, <2>2
<1>3. VersionsOfCommand
  <2> SUFFICES ASSUME NEW r \in RemoteIds, NEW n \in Int, Behind(r, n), NEW f \in RowsWith(r)'
               PROVE  /\ events'[f].etag <= n
                      /\ f \in DOMAIN conflicts' => conflicts'[f].rev <= n
    BY DEF VersionsOfCommand, Behind
  <2>1. r # None
    BY StoreAssumption DEF RemoteIds, None, StoreAssumption
  <2>2. f \in RowsWith(r)
    BY <1>2, <2>1 DEF RowsWith
  <2>3. events[f].etag <= n /\ (f \in DOMAIN conflicts => conflicts[f].rev <= n)
    BY <2>2 DEF Behind
  <2>4. CASE f = e
    BY <1>0, <1>1, <1>2, <2>3, <2>4
  <2>5. CASE f # e
    BY <1>1, <1>2, <2>2, <2>3, <2>5 DEF RowsWith
  <2> QED
    BY <2>4, <2>5
<1>4. RowsOfCommand
  <2>1. ASSUME NEW p \in DOMAIN outbox
        PROVE  /\ Finished(e)[p].event = outbox[p].event
               /\ Finished(e)[p].state \in ActiveStates => outbox[p].state \in ActiveStates
    <3>1. outbox[p] \in OutboxRows
      BY TableMembers
    <3> QED
      BY <3>1 DEF Finished, OutboxRows, ActiveStates
  <2>2. DOMAIN Finished(e) = DOMAIN outbox
    BY DEF Finished
  <2>3. \A p \in DOMAIN outbox' : p = nextOp \/ (p \in DOMAIN outbox /\ outbox'[p] = Finished(e)[p])
    BY <2>2 DEF KeepRemote, KeepLocal, Put
  <2> QED
    BY <2>1, <2>3 DEF RowsOfCommand
<1> QED
  BY <1>3, <1>4

\* A command that keeps apart from the job, whatever the job is doing.
LEMMA CommandCalm ==
    ASSUME EngineInv, EngineInv', DependencyOrder, CalmInv, ApartFromJob,
           UNCHANGED <<remoteVars, token, job>>,
           QueuesFine', CreatesHeard', VersionsKept({}), RowsOfCommand, VersionsOfCommand
    PROVE  CalmInv'
<1>0. /\ job' = job /\ token' = token /\ UNCHANGED remoteVars /\ DOMAIN job.snap \subseteq OpIds
  BY DEF EngineInv, EngineOK, JobOK, remoteVars
<1>1. CalendarMoves /\ server' = server
  BY <1>0, CalendarStays DEF EngineInv, EngineOK, CalmInv, VersionsAgree
<1>2. PhaseFine'
  BY <1>0, <1>1 DEF CalmInv, RowsAgree, PhaseFine, InFlight, Sent
<1>3. SnapFine'
  <2> SUFFICES ASSUME NEW o \in DOMAIN job.snap
               PROVE  /\ o \in DOMAIN outbox'
                      /\ outbox'[o].state \in QueuedStates \cup {"sending"}
                      /\ IsFirst(o)' /\ SameRow(job.snap[o], outbox'[o])
    BY <1>0 DEF SnapFine
  <2>1. /\ o \in DOMAIN outbox /\ outbox[o].state \in QueuedStates \cup {"sending"}
        /\ IsFirst(o) /\ SameRow(job.snap[o], outbox[o])
    BY DEF CalmInv, RowsAgree, SnapFine
  <2>2. o \in DOMAIN outbox' /\ outbox'[o] = outbox[o]
    BY <2>1 DEF ApartFromJob
  <2>3. o \in Int /\ nextOp \in Int /\ o < nextOp
    BY <1>0, <2>1 DEF DependencyOrder, OpIds, EngineInv, EngineOK, TypeOK, CountersOK
  <2>4. \A q \in ActiveOps(outbox[o].event)' : q = nextOp \/ q \in ActiveOps(outbox[o].event)
    BY <2>2 DEF RowsOfCommand, ActiveOps, OpsOf
  <2>5. IsFirst(o)'
    BY <2>1, <2>2, <2>3, <2>4 DEF IsFirst
  <2> QED
    BY <2>1, <2>2, <2>5
<1>4. VersionsAgree'
  BY <1>0, <1>1, VersionsBeside
     DEF CalmInv, RowsAgree, CalendarMoves, VersionsOfCommand
<1> QED
  BY <1>2, <1>3, <1>4 DEF CalmInv, RowsAgree

\* The commands of the user.
LEMMA UserTurnCalm ==
    ASSUME EngineInv, EngineInv', DependencyOrder, CalmInv, UserTurn, ApartFromJob
    PROVE  CalmInv'
<1>1. /\ TypeOK /\ TypeOK' /\ ServerOK /\ ClocksFine /\ TablesTrue /\ QueuesFine
      /\ CreatesHeard /\ UNCHANGED <<remoteVars, token, job>> /\ UNCHANGED remoteVars
      /\ job' = job /\ (InFlight => job.item \in DOMAIN job.snap)
  BY DEF EngineInv, EngineOK, CalmInv, VersionsAgree, RowsAgree, PhaseFine, UserTurn,
         remoteVars
<1>2. (InFlight => InFlight' /\ job'.item = job.item) /\ ServerGrows
  BY <1>1, CalendarStays DEF InFlight, CalendarMoves
<1>3. ASSUME NEW e \in EventIds, NEW c \in Contents, NEW deleted \in BOOLEAN,
             CreateEvent(e, c) \/ UpdateEvent(e, c, deleted) \/ RemoveEvent(e)
      PROVE  CalmInv'
  <2>1. ASSUME NEW row, NEW op, SaveLocalEvent(e, row, op),
               op = "create" => e \notin DOMAIN events,
               \/ row.rid = None
               \/ /\ e \in DOMAIN events /\ row.rid = events[e].rid
                  /\ row.etag = events[e].etag
        PROVE  CreatesHeard' /\ RowsOfCommand /\ VersionsOfCommand
    <3>1. e \notin DOMAIN events => OpsOf(e) = {}
      BY <1>1, TableMembers, StoreAssumption DEF OpsOf
    <3>2. CreatesHeard'
      BY <1>1, <1>2, <2>1, <3>1, UserEditHeard, StoreAssumption
    <3> QED
      BY <1>1, <2>1, <3>2, UserEditApart, StoreAssumption
  <2>2. CreateEvent(e, c) => CreatesHeard' /\ RowsOfCommand /\ VersionsOfCommand
    BY <2>1 DEF CreateEvent
  <2>3. ASSUME UpdateEvent(e, c, deleted) \/ RemoveEvent(e)
        PROVE  CreatesHeard' /\ RowsOfCommand /\ VersionsOfCommand
    <3>1. e \in DOMAIN events /\ events[e] \in EventRows
      BY <1>1, <2>3, TableMembers, StoreAssumption DEF UpdateEvent, RemoveEvent
    <3>2. PICK row, op : /\ SaveLocalEvent(e, row, op) /\ op # "create"
                         /\ row.rid = events[e].rid /\ row.etag = events[e].etag
      <4>1. CASE UpdateEvent(e, c, deleted)
        <5> DEFINE new == [events[e] EXCEPT !.content = c, !.dirty = TRUE,
                                            !.deleted = deleted]
        <5>1. SaveLocalEvent(e, new, "update")
          BY <4>1 DEF UpdateEvent
        <5>2. new.rid = events[e].rid /\ new.etag = events[e].etag
          BY <3>1 DEF EventRows
        <5> HIDE DEF new
        <5> QED
          BY <5>1, <5>2
      <4>2. CASE RemoveEvent(e)
        <5> DEFINE new == [events[e] EXCEPT !.dirty = TRUE, !.deleted = TRUE]
        <5>1. SaveLocalEvent(e, new, "remove")
          BY <4>2 DEF RemoveEvent
        <5>2. new.rid = events[e].rid /\ new.etag = events[e].etag
          BY <3>1 DEF EventRows
        <5> HIDE DEF new
        <5> QED
          BY <5>1, <5>2
      <4> QED
        BY <2>3, <4>1, <4>2
    <3> QED
      BY <2>1, <3>1, <3>2
  <2>4. QueuesFine'
    BY <1>1, <1>3, UserEditQueues, StoreAssumption
  <2>5. VersionsKept({})
    BY <1>1, <1>3, UserEditVersions, StoreAssumption
  <2> QED
    BY <1>1, <1>3, <2>2, <2>3, <2>4, <2>5, CommandCalm
<1>4. ASSUME NEW e \in EventIds, RemoveEvent(e)
      PROVE  CalmInv'
  <2>1. PICK c \in Contents : TRUE
    BY <1>1, <1>4 DEF RemoveEvent, TypeOK, EventsOK, EventRows
  <2> QED
    BY <1>3, <1>4, <2>1
<1>5. ASSUME NEW e \in EventIds, ResolveByUser(e)
      PROVE  CalmInv'
  <2>1. PICK content, deleted : KeepRemote(e) \/ KeepLocal(e, content, deleted)
    BY <1>5 DEF ResolveByUser, KeepLocalSnapshot
  <2>2. CreatesHeard'
    BY <1>1, <1>2, <2>1, ResolveHeard, StoreAssumption
  <2>3. QueuesFine'
    BY <1>1, <2>1, KeepRemoteQueues, KeepLocalQueues, StoreAssumption
  <2>4. VersionsKept({})
    BY <1>1, <2>1, KeepRemoteVersions, KeepLocalVersions, StoreAssumption
  <2>5. RowsOfCommand /\ VersionsOfCommand
    BY <1>1, <2>1, ResolveApart, StoreAssumption
  <2> QED
    BY <1>1, <2>2, <2>3, <2>4, <2>5, CommandCalm
<1>6. \/ \E e \in EventIds, c \in Contents : CreateEvent(e, c)
      \/ \E e \in EventIds, c \in Contents, deleted \in BOOLEAN : UpdateEvent(e, c, deleted)
      \/ \E e \in EventIds : RemoveEvent(e) \/ ResolveByUser(e)
  BY DEF UserTurn, UserStep, ApartFromJob
<1> QED
  BY <1>3, <1>4, <1>5, <1>6

\* The daemon's decisions after a job.
LEMMA ResolutionCalm ==
    ASSUME EngineInv, EngineInv', DependencyOrder, CalmInv, Resolution
    PROVE  CalmInv'
<1>1. JobOK(job) /\ UNCHANGED <<remoteVars, token>> /\ UNCHANGED remoteVars /\ token' = token
  BY DEF EngineInv, EngineOK, Resolution, ResolveNewest, ResolveDone
<1>2. ASSUME NEW e \in EventIds, ResolveNewest(e) PROVE CalmInv'
  <2>1. job' = [job EXCEPT !.open = @ \ {e}] /\ job.phase = "resolve"
    BY <1>2 DEF ResolveNewest
  <2>2. /\ job'.phase = "resolve" /\ job'.todo = job.todo /\ job'.snap = job.snap
        /\ job'.cursor = job.cursor
    BY <1>1, <2>1 DEF JobOK
  <2>3. CASE UNCHANGED storeVars
    <3>1. DOMAIN job.snap = {} /\ job.phase = "resolve"
      BY <2>1 DEF CalmInv, RowsAgree, PhaseFine
    <3> QED
      BY <1>1, <2>2, <2>3, <3>1, TurnCalm
  <2>4. CASE KeepLocalSnapshot(e) \/ KeepRemote(e)
    BY <1>1, <2>1, <2>2, <2>4, ResolveCalm DEF KeepLocalSnapshot
  <2> QED
    BY <1>2, <2>3, <2>4 DEF ResolveNewest
<1>3. CASE ResolveDone
  BY <1>1, <1>3, TurnCalm DEF ResolveDone, InFlight
<1> QED
  BY <1>2, <1>3 DEF Resolution

\* The start of a job, the other clients and time.
LEMMA OthersCalm ==
    ASSUME EngineInv, EngineInv', CalmInv,
           \/ StartSync \/ Reconnect \/ Foreign
           \/ \E o \in OpIds : DeadlinePasses(o)
           \/ UNCHANGED drainVars
    PROVE  CalmInv'
<1>0. /\ JobOK(job) /\ TypeOK /\ TypeOK' /\ ServerOK /\ ClocksFine /\ QueuesFine /\ TablesTrue
  BY DEF EngineInv, EngineOK, CalmInv, VersionsAgree, RowsAgree
<1>1. CASE StartSync
  <2>1. /\ job' = [IdleJob EXCEPT !.phase = "list"] /\ job.phase = "idle"
        /\ UNCHANGED storeVars /\ UNCHANGED remoteVars /\ token' = token
    BY <1>1 DEF StartSync
  <2>2. /\ job'.phase = "list" /\ job'.snap = Empty /\ job'.todo = Empty
        /\ job'.cursor = None /\ job'.item = None
    BY <2>1 DEF IdleJob
  <2>3. DOMAIN Empty = {}
    BY DEF Empty
  <2>4. PhaseFine' /\ SnapFine' /\ ~InFlight' /\ ~InFlight
    BY <2>1, <2>2, <2>3 DEF PhaseFine, SnapFine, InFlight
  <2>5. CalendarMoves /\ server' = server
    BY <1>0, <2>1, CalendarStays
  <2>6. TablesMove(None)
    BY <2>1, <2>5, StoreStays
  <2>7. CreatesHeard'
    <3>1. None \notin DOMAIN outbox /\ None \notin DOMAIN outbox'
      BY <1>0 DEF TypeOK, OutboxOK, OpIds, None
    <3> QED
      BY <1>0, <2>4, <2>5, <2>6, <3>1, HeardKept, StoreAssumption
         DEF TablesMove, CalmInv, RowsAgree, CalendarMoves
  <2>8. VersionsAgree'
    BY <2>1, <2>2, <2>3, <2>5, <2>6, VersionsOutside
       DEF TablesMove, CalmInv, RowsAgree, CalendarMoves
  <2> QED
    BY <2>4, <2>6, <2>7, <2>8 DEF CalmInv, RowsAgree, TablesMove
<1>2. CASE Reconnect \/ UNCHANGED drainVars
  <2>1. UNCHANGED storeVars /\ UNCHANGED remoteVars /\ UNCHANGED <<token, job>>
    BY <1>2 DEF Reconnect, drainVars
  <2>2. CalendarMoves /\ server' = server /\ UNCHANGED <<events, conflicts>>
    BY <1>0, <2>1, CalendarStays DEF storeVars
  <2> QED
    BY <2>1, <2>2, StoreStays, JobStaysCalm
<1>3. CASE Foreign
  <2>1. PICK r \in RemoteIds, state \in {"live", "gone"}, c \in Contents :
            ForeignChange(r, state, c)
    BY <1>3 DEF Foreign
  <2>2. ~Gone(r) /\ Publish(r, state, c) /\ UNCHANGED storeVars /\ UNCHANGED <<token, job>>
        /\ (server[r].state = "live" \/ r > MaxOps)
    BY <2>1 DEF ForeignChange, Gone
  <2>3. CalendarMoves /\ \A x \in RemoteIds \ {r} : server'[x] = server[x]
    BY <1>0, <2>2, PublishMoves, StoreAssumption
  <2>4. \A p \in OpIds : server'[p].state = "live" => server[p].state = "live"
    <3>1. \A p \in OpIds : p \in RemoteIds /\ ~(p > MaxOps)
      BY OpIdsAreRemoteIds, StoreAssumption DEF OpIds, StoreAssumption
    <3> QED
      BY <2>2, <2>3, <3>1
  <2>5. UNCHANGED <<events, conflicts>>
    BY <2>2 DEF storeVars
  <2> QED
    BY <2>2, <2>3, <2>4, <2>5, StoreStays, JobStaysCalm
<1>4. ASSUME NEW o \in OpIds, DeadlinePasses(o) PROVE CalmInv'
  <2>1. /\ GraceOver(o) \/ BackoffOver(o)
        /\ UNCHANGED remoteVars /\ UNCHANGED <<token, job>> /\ UNCHANGED <<events, conflicts>>
    BY <1>4 DEF DeadlinePasses, GraceOver, BackoffOver
  <2>2. QueuesFine'
    BY <1>0, <2>1, TimeQueues, StoreAssumption
  <2>3. CalendarMoves /\ server' = server
    BY <1>0, <2>1, CalendarStays
  <2>4. VersionsKept({})
    BY <1>0, <2>1, <2>3, SameTablesVersions, StoreAssumption
       DEF EngineInv, EngineOK, CalendarMoves
  <2>5. /\ o \in DOMAIN outbox /\ outbox[o] \in OutboxRows /\ DOMAIN outbox' = DOMAIN outbox
        /\ \A p \in DOMAIN outbox \ {o} : outbox'[p] = outbox[p]
        /\ \/ outbox'[o] = [outbox[o] EXCEPT !.grace = FALSE]
           \/ outbox'[o] = [outbox[o] EXCEPT !.backoff = FALSE]
    BY <1>0, <2>1, TableMembers, StoreAssumption DEF GraceOver, BackoffOver
  <2>6. outbox'[o].state = outbox[o].state /\ SameRow(outbox'[o], outbox[o])
    BY <2>5 DEF OutboxRows, SameRow
  <2>7. RowsBeside(None)
    BY <2>5, <2>6 DEF RowsBeside, SameRow
  <2> QED
    BY <2>1, <2>2, <2>3, <2>4, <2>7, JobStaysCalm DEF TablesMove
<1> QED
  BY <1>1, <1>2, <1>3, <1>4

-----------------------------------------------------------------------------
(* The replies and the faults.                                             *)

\* The replies to a mutation and what follows them.
LEMMA MutationCalm ==
    ASSUME EngineInv, EngineInv', RemoteIdentityUnique, HomeInv, CalmInv, MutationResult
    PROVE  CalmInv'
<1>1. CASE MutationAccepted
  BY <1>1, AcceptedStepCalm
<1>2. CASE RemovalAlreadyDone
  BY <1>2, RemovalEndsCalm DEF RemovalAlreadyDone, remoteVars
<1>3. CASE Refused \/ UpdateTargetGone \/ Hydrate
  BY <1>3, LookedIntoCalm
<1>4. CASE BlockRow
  BY <1>4, GivenUpCalm DEF BlockRow, InFlight, remoteVars
<1>5. CASE Reconcile
  BY <1>5, ReconcileCalm
<1>6. ASSUME NEW state \in {"retry_wait", "blocked"}, ReconcilePending(state) PROVE CalmInv'
  BY <1>6, GivenUpCalm DEF ReconcilePending, InFlight, remoteVars
<1>7. CASE TokenRefreshed
  <2>1. job.phase = "refresh" /\ Goto("dispatch") /\ JobOK(job)
    BY <1>7 DEF TokenRefreshed, EngineInv, EngineOK
  <2>2. /\ job'.phase = "dispatch" /\ job'.todo = job.todo /\ job'.cursor = job.cursor
        /\ job'.snap = job.snap
    BY <2>1, PhasedJob
  <2>3. UNCHANGED <<storeVars, remoteVars, token>>
    BY <1>7 DEF TokenRefreshed
  <2> QED
    BY <2>1, <2>2, <2>3, TurnCalm
<1> QED
  BY <1>1, <1>2, <1>3, <1>4, <1>5, <1>6, <1>7 DEF MutationResult

\* 401 on a mutation.
LEMMA AuthRefusedCalm ==
    ASSUME EngineInv, EngineInv', CalmInv, AuthRefused
    PROVE  CalmInv'
<1> DEFINE o == job.item
<1>0. /\ JobOK(job) /\ UNCHANGED remoteVars /\ token' = token /\ InFlight
      /\ TypeOK /\ TypeOK' /\ job.phase # "apply"
  BY DEF EngineInv, EngineOK, AuthRefused, InFlight
<1>1. CalendarMoves /\ server' = server
  BY <1>0, CalendarStays DEF EngineInv, EngineOK, CalmInv, VersionsAgree
<1>2. /\ o \in DOMAIN outbox /\ outbox[o].state \in ActiveStates /\ IsFirst(o)
      /\ outbox[o].state # "blocked"
  BY <1>0, ItemFacts DEF CalmInv, VersionsAgree
<1>3. SetState(o, "pending")
  BY <1>2 DEF AuthRefused
<1>4. CASE Finish
  BY <1>0, <1>1, <1>3, <1>4, SettleCalm
<1>5. CASE job' = [job EXCEPT !.phase = "refresh", !.item = None, !.refreshed = TRUE]
  <2>1. /\ job'.phase = "refresh" /\ job'.todo = job.todo /\ job'.snap = job.snap
        /\ job'.cursor = job.cursor
    BY <1>0, <1>5 DEF JobOK
  <2>2. PhaseFine' /\ ~InFlight'
    BY <1>0, <2>1 DEF CalmInv, RowsAgree, PhaseFine, InFlight
  <2>3. QueuesFine'
    BY <1>0, <1>2, <1>3, SetStateQueues, StoreAssumption
       DEF CalmInv, RowsAgree, ActiveStates
  <2>4. RowsBeside(o) /\ outbox'[o].state = "pending" /\ SameRow(outbox'[o], outbox[o])
        /\ o \in DOMAIN outbox'
    BY <1>0, <1>2, <1>3, SetStateRows, StoreAssumption
  <2>5. VersionsKept({})
    BY <1>0, <1>1, <1>3, SameTablesVersions, StoreAssumption
       DEF SetState, CalmInv, VersionsAgree, CalendarMoves, EngineInv, EngineOK
  <2>6. "pending" \in QueuedStates
    BY DEF QueuedStates
  <2> QED
    BY <1>0, <1>2, <2>1, <2>2, <2>3, <2>4, <2>5, <2>6, RowGoesOnCalm DEF TablesMove
<1> QED
  BY <1>2, <1>4, <1>5 DEF AuthRefused, Reauthorize

\* The daemon dies.
LEMMA CrashCalm ==
    ASSUME EngineInv, EngineInv', CalmInv, Crash
    PROVE  CalmInv'
<1>0. /\ TypeOK /\ TypeOK' /\ ServerOK /\ ServerOK' /\ ClocksFine /\ QueuesFine /\ TablesTrue
      /\ token' = token /\ Recover /\ Finish /\ CreatesHeard
  BY DEF EngineInv, EngineOK, CalmInv, VersionsAgree, RowsAgree, Crash
<1>1. CalendarMoves
  <2>1. CASE UNCHANGED remoteVars
    BY <1>0, <2>1, CalendarStays
  <2>2. CASE Mutating /\ Accepts(job.item, Sent) /\ ServerApplies(job.item, Sent)
    BY <2>2, AcceptedFacts
  <2> QED
    BY <2>1, <2>2 DEF Crash
<1>2. /\ job'.phase = "idle" /\ DOMAIN job'.todo = {} /\ DOMAIN job'.snap = {}
      /\ job'.cursor = None
  BY <1>0, FinishedJob
<1>3. PhaseFine' /\ SnapFine'
  BY <1>2 DEF PhaseFine, SnapFine, InFlight
<1>4. QueuesFine'
  BY <1>0, TimeQueues, StoreAssumption
<1>5. VersionsKept({})
  BY <1>0, <1>1, SameTablesVersions, StoreAssumption DEF Recover, CalendarMoves
<1>6. VersionsAgree'
  BY <1>0, <1>1, <1>2, <1>5, VersionsOutside DEF CalmInv, RowsAgree, CalendarMoves
<1>7. CreatesHeard'
  <2>1. /\ DOMAIN outbox' = DOMAIN outbox
        /\ \A p \in DOMAIN outbox :
            /\ outbox'[p].event = outbox[p].event /\ outbox'[p].op = outbox[p].op
            /\ outbox'[p].state = IF outbox[p].state = "sending" THEN "pending"
                                                                 ELSE outbox[p].state
    BY <1>0, TableMembers, StoreAssumption DEF Recover, OutboxRows
  <2>2. \A e : ActiveOps(e)' = ActiveOps(e)
    BY <2>1 DEF ActiveOps, OpsOf, ActiveStates
  <2> SUFFICES ASSUME NEW p \in DOMAIN outbox PROVE HeardOf(p)'
    BY <2>1 DEF CreatesHeard
  <2>3. PICK e : e = outbox[p].event
    OBVIOUS
  <2>4. ActiveOps(e)' = ActiveOps(e) /\ HeardOf(p) /\ p \in RemoteIds
    BY <1>0, <2>2, HomeTypes, StoreAssumption DEF CreatesHeard
  <2>5. server[p].state # "never" => server'[p].state # "never"
    BY <1>1, <2>4 DEF CalendarMoves, ServerGrows
  <2>6. SUFFICES ASSUME outbox'[p].op = "create"
                 PROVE  /\ outbox'[p].state # "sending"
                        /\ outbox'[p].state \in ActiveStates /\ ~(\A q \in ActiveOps(e)' : q <= p)
                           => server'[p].state # "never" \/ outbox'[p].state = "blocked"
    BY <2>1, <2>3 DEF HeardOf, Created, ActiveOps, OpsOf
  <2>7. outbox'[p].state \in ActiveStates => outbox[p].state \in ActiveStates
    BY <2>1 DEF ActiveStates
  <2>8. outbox[p].state = "blocked" => outbox'[p].state = "blocked"
    BY <2>1
  <2> QED
    BY <2>1, <2>3, <2>4, <2>5, <2>6, <2>7, <2>8 DEF HeardOf, Created
<1> QED
  BY <1>3, <1>4, <1>6, <1>7 DEF CalmInv, RowsAgree

\* Failures, lost replies, refused tokens and crashes.
LEMMA FaultCalm ==
    ASSUME EngineInv, EngineInv', CalmInv, FaultStep
    PROVE  CalmInv'
<1>1. CASE ListFails
  BY <1>1, TurnCalm DEF ListFails, InFlight
<1>2. CASE RefreshRejected
  BY <1>2, TurnCalm DEF RefreshRejected, Reauthorize, InFlight
<1>3. CASE ListRefused
  <2>1. job.phase = "list" /\ UNCHANGED <<storeVars, remoteVars, token>> /\ JobOK(job)
    BY <1>3 DEF ListRefused, EngineInv, EngineOK
  <2>2. CASE Finish
    BY <2>1, <2>2, TurnCalm DEF InFlight
  <2>3. CASE job' = [job EXCEPT !.refreshed = TRUE]
    <3>1. /\ job'.phase = "list" /\ job'.todo = job.todo /\ job'.snap = job.snap
          /\ job'.cursor = job.cursor
      BY <2>1, <2>3 DEF JobOK
    <3>2. DOMAIN job.snap = {}
      BY <2>1 DEF CalmInv, RowsAgree, PhaseFine
    <3> QED
      BY <2>1, <3>1, <3>2, TurnCalm
  <2> QED
    BY <1>3, <2>2, <2>3 DEF ListRefused, Reauthorize
<1>4. CASE ReplyLost
  BY <1>4, ReplyLostCalm
<1>5. CASE AuthRefused
  BY <1>5, AuthRefusedCalm
<1>6. CASE Crash
  BY <1>6, CrashCalm
<1>7. ASSUME NEW state \in {"retry_wait", "blocked"}, RequestFails(state) PROVE CalmInv'
  BY <1>7, GivenUpCalm DEF RequestFails, InFlight, remoteVars
<1> QED
  BY <1>1, <1>2, <1>3, <1>4, <1>5, <1>6, <1>7 DEF FaultStep

-----------------------------------------------------------------------------
(* The pull.                                                               *)

\* The list is what the token does not cover.
LEMMA ListReplyCalm ==
    ASSUME EngineInv, EngineInv', CalmInv, ListReply
    PROVE  CalmInv'
<1> DEFINE changed == {r \in RemoteIds : Changed(r)}
           listed == [r \in changed |-> server[r]]
<1>0. /\ JobOK(job) /\ TypeOK /\ TypeOK' /\ ServerOK /\ ClocksFine /\ TablesTrue
      /\ TokenCovers /\ UNCHANGED storeVars /\ UNCHANGED remoteVars /\ token' = token
      /\ job.phase = "list" /\ clock' = clock
  BY DEF EngineInv, EngineOK, CalmInv, VersionsAgree, ListReply, remoteVars
<1>1. job' = [job EXCEPT !.phase = "apply", !.cursor = clock, !.todo = listed]
  BY DEF ListReply
<1>2. DOMAIN listed = changed /\ \A r \in changed : listed[r] = server[r]
  OBVIOUS
<1> HIDE DEF listed
<1>3. /\ job'.phase = "apply" /\ job'.cursor = clock /\ job'.todo = listed
      /\ job'.snap = job.snap
  BY <1>0, <1>1 DEF JobOK
<1>4. DOMAIN job.snap = {} /\ DOMAIN job.todo = {}
  BY <1>0 DEF CalmInv, RowsAgree, PhaseFine
<1>5. CalendarMoves /\ server' = server
  BY <1>0, CalendarStays
<1>6. TablesMove(None) /\ events' = events /\ conflicts' = conflicts
  BY <1>0, <1>5, StoreStays DEF storeVars
<1>7. PhaseFine' /\ SnapFine' /\ ~InFlight /\ ~InFlight'
  BY <1>0, <1>3, <1>4 DEF PhaseFine, SnapFine, InFlight
<1>8. CreatesHeard'
  <2>1. None \notin DOMAIN outbox /\ None \notin DOMAIN outbox'
    BY <1>0 DEF TypeOK, OutboxOK, OpIds, None
  <2> QED
    BY <1>0, <1>5, <1>6, <1>7, <2>1, HeardKept, StoreAssumption
       DEF TablesMove, CalmInv, RowsAgree, CalendarMoves
<1>9. /\ clock \in Int /\ token \in Int /\ \A r \in RemoteIds : server[r].etag \in Int
      /\ \A r \in RemoteIds : server[r].etag <= clock
      /\ \A r : RowsWith(r)' = RowsWith(r)
  BY <1>0, <1>6, VersionMembers, StoreAssumption
     DEF ClocksFine, EngineInv, EngineOK, RowsWith
<1>10. ASSUME NEW r \in RemoteIds \ changed PROVE InStore(r)
  <2>1. server[r].state = "never" \/ server[r].etag <= token
    BY <1>9 DEF Changed
  <2>2. server[r].state = "never" => InStore(r)
    BY DEF InStore
  <2>3. server[r].etag <= token => InStore(r)
    BY <1>0, <1>4 DEF TokenCovers, Horizon
  <2> QED
    BY <2>1, <2>2, <2>3
<1>11. StagedFine'
  <2> SUFFICES ASSUME NEW r \in changed PROVE StagedTrue(r, server[r])'
    BY <1>2, <1>3, <1>5 DEF StagedFine
  <2>1. token < server[r].etag /\ r \in RemoteIds
    BY DEF Changed
  <2>2. Behind(r, server[r].etag)
    <3> SUFFICES ASSUME NEW e \in RowsWith(r)
                 PROVE  /\ events[e].etag <= server[r].etag
                        /\ e \in DOMAIN conflicts => conflicts[e].rev <= server[r].etag
      BY DEF Behind
    <3>1. e \in DOMAIN events /\ events[e].rid = r /\ r # None
      BY <2>1 DEF RowsWith, RemoteIds, None
    <3>2. events[e].etag <= server[r].etag /\ 0 <= server[r].etag
      BY <1>0, <2>1, <3>1 DEF TablesTrue, RowTrue, ServerOK, Resources, Etags, None
    <3> QED
      BY <1>0, <3>1, <3>2 DEF TablesTrue, ConflictTrue, Faithful, None
  <2>3. Faithful(server', r, server'[r].etag, server'[r].content)
    BY <1>5, <1>9, <2>1 DEF Faithful
  <2>4. /\ token' < server'[r].etag /\ server'[r].etag <= job'.cursor
        /\ Behind(r, server[r].etag)'
    BY <1>0, <1>3, <1>5, <1>6, <1>9, <2>1, <2>2 DEF Behind
  <2> QED
    BY <1>5, <2>3, <2>4 DEF StagedTrue, Behind
<1>12. TokenCovers'
  BY <1>2, <1>3, <1>5, <1>6, <1>10 DEF TokenCovers, TablesMove, VersionsKept
<1>13. CreateSeen'
  <2> SUFFICES ASSUME NEW o \in OpIds, server[o].state = "live", o \notin changed
               PROVE  RowsWith(o) # {}
    BY <1>2, <1>3, <1>5, <1>9 DEF CreateSeen
  <2>1. InStore(o)
    BY <1>10, OpIdsAreRemoteIds, StoreAssumption
  <2> QED
    BY <2>1 DEF InStore, Holds
<1>14. ClocksFine'
  BY <1>0, <1>3, <1>5, <1>9 DEF ClocksFine
<1>15. TablesTrue'
  BY <1>6 DEF TablesMove, VersionsKept
<1> QED
  BY <1>6, <1>7, <1>8, <1>11, <1>12, <1>13, <1>14, <1>15
     DEF CalmInv, RowsAgree, VersionsAgree, TablesMove

\* What the application of one change does to the tables.
LEMMA ChangeApplied ==
    ASSUME EngineInv, EngineInv', RemoteIdentityUnique, HomeInv, CalmInv,
           NEW r \in RemoteIds, ApplyChunk(r), NEW t, t = job.todo[r]
    PROVE  /\ QueuesFine' /\ RowsBeside(None) /\ VersionsKept({r})
           /\ t = server[r] => InStore(r)'
           /\ server[r].state = "live" => RowsWith(r)' # {}
           /\ \A q \in RemoteIds \ {r}, n \in Int : Behind(q, n) => Behind(q, n)'
<1>0. /\ JobOK(job) /\ TypeOK /\ TypeOK' /\ ServerOK /\ ClocksFine /\ TablesTrue /\ QueuesFine
      /\ UNCHANGED remoteVars /\ r \in DOMAIN job.todo
  BY DEF EngineInv, EngineOK, CalmInv, VersionsAgree, RowsAgree, ApplyChunk
<1>1. /\ t \in Resources /\ t.state # "never" /\ t.etag # None /\ server[r].state # "never"
      /\ t.state = "gone" => Gone(r)
  BY <1>0 DEF JobOK, EngineInv, EngineOK, StagedOK, HomeInv, JobKnows
<1>2. t.state \in {"live", "gone"} /\ t.etag \in Etags
  BY <1>1 DEF Resources
<1>3. StagedTrue(r, t)
  BY <1>0 DEF CalmInv, VersionsAgree, StagedFine
<1>4. CASE t.state = "live"
  <2>1. ApplyRemote(r, t.etag, t.content)
    BY <1>4 DEF ApplyChunk
  <2>2. QueuesFine' /\ outbox' = outbox
    BY <1>0, <2>1, ApplyRemoteQueues, StoreAssumption DEF ApplyRemote
  <2>3. /\ VersionsKept({r}) /\ RowsWith(r)' # {}
        /\ server[r].state = "live" /\ t.etag = server[r].etag => InStore(r)'
    BY <1>0, <1>2, <1>3, <2>1, ApplyRemoteVersions, StoreAssumption
       DEF StagedTrue, Behind
  <2>4. ASSUME NEW q \in RemoteIds \ {r}, NEW e \in RowsWith(q)'
        PROVE  /\ e \in RowsWith(q) /\ events'[e].etag = events[e].etag
               /\ e \in DOMAIN conflicts' => e \in DOMAIN conflicts
                                              /\ conflicts'[e] = conflicts[e]
    <3>0. e \in RowsWith(q) => /\ e \notin RowsWith(r)
                               /\ e \in DOMAIN conflicts' => e \in DOMAIN conflicts
                                                              /\ conflicts'[e] = conflicts[e]
      BY <2>1, <2>4 DEF ApplyRemote, RecordConflict, Put, RowsWith
    <3>1. CASE \E f \in EventIds :
                /\ f \notin DOMAIN events
                /\ events' = Put(events, f, [rid |-> r, etag |-> t.etag, content |-> t.content,
                                             dirty |-> FALSE, deleted |-> FALSE])
      BY <3>0, <3>1 DEF Put, RowsWith
    <3>2. ASSUME NEW f \in RowsWith(r),
                 events' = [events EXCEPT ![f].etag = t.etag, ![f].content = t.content,
                                          ![f].deleted = FALSE]
          PROVE  /\ e \in RowsWith(q) /\ events'[e].etag = events[e].etag
                 /\ e \in DOMAIN conflicts' => e \in DOMAIN conflicts
                                                /\ conflicts'[e] = conflicts[e]
      <4>1. f \in DOMAIN events /\ events[f] \in EventRows /\ events[f].rid = r
        BY <1>0, <3>2, TableMembers, StoreAssumption DEF RowsWith
      <4>2. /\ DOMAIN events' = DOMAIN events /\ events'[f].rid = r
            /\ \A g \in DOMAIN events \ {f} : events'[g] = events[g]
        BY <3>2, <4>1 DEF EventRows
      <4> QED
        BY <2>4, <3>0, <4>1, <4>2 DEF RowsWith
    <3>3. CASE UNCHANGED events
      BY <3>0, <3>3 DEF RowsWith
    <3> QED
      BY <2>1, <3>1, <3>2, <3>3 DEF ApplyRemote
  <2> QED
    BY <1>4, <2>2, <2>3, <2>4, SameRows DEF Behind
<1>5. CASE t.state = "gone"
  <2>1. RemoveRemote(r) /\ Gone(r)
    BY <1>1, <1>5 DEF ApplyChunk
  <2>2. QueuesFine' /\ RowsBeside(None)
    BY <1>0, <2>1, RemoveRemoteQueues, RemoveRemoteRows, StoreAssumption
  <2>3. VersionsKept({}) /\ InStore(r)'
    BY <1>0, <2>1, RemoveRemoteVersions, StoreAssumption
  <2>4. VersionsKept({r})
    BY <2>3 DEF VersionsKept
  <2>5. /\ DOMAIN events' \subseteq DOMAIN events /\ \A e \in DOMAIN events' : events'[e] = events[e]
        /\ \A e \in DOMAIN conflicts' :
             e \notin RowsWith(r) => e \in DOMAIN conflicts /\ conflicts'[e] = conflicts[e]
    BY <2>1 DEF RemoveRemote, DeleteEvent, Restrict, RecordConflict, Put
  <2>6. server[r].state # "live"
    BY <2>1 DEF Gone
  <2> QED
    BY <2>2, <2>3, <2>4, <2>5, <2>6 DEF RowsWith, Behind
<1> QED
  BY <1>2, <1>4, <1>5

\* One chunk.
LEMMA ApplyChunkCalm ==
    ASSUME EngineInv, EngineInv', RemoteIdentityUnique, HomeInv, CalmInv,
           NEW r \in RemoteIds, ApplyChunk(r)
    PROVE  CalmInv'
<1> DEFINE rest == Restrict(job.todo, DOMAIN job.todo \ {r})
           phase == IF DOMAIN job.todo = {r} THEN "drain" ELSE "apply"
           t == job.todo[r]
<1>0. /\ JobOK(job) /\ TypeOK /\ TypeOK' /\ ServerOK /\ ClocksFine /\ TablesTrue
      /\ StagedFine /\ TokenCovers /\ CreateSeen /\ UNCHANGED remoteVars
      /\ job.phase = "apply" /\ r \in DOMAIN job.todo /\ clock' = clock
  BY DEF EngineInv, EngineOK, CalmInv, VersionsAgree, ApplyChunk, remoteVars
<1>1. /\ job' = [job EXCEPT !.todo = rest, !.phase = phase]
      /\ token' = IF DOMAIN job.todo = {r} THEN job.cursor ELSE token
  BY DEF ApplyChunk
<1>2. DOMAIN rest = DOMAIN job.todo \ {r} /\ \A q \in DOMAIN rest : rest[q] = job.todo[q]
  BY DEF Restrict
<1>3. /\ phase = "drain" => DOMAIN rest = {} /\ token' = job.cursor
      /\ phase # "drain" => phase = "apply" /\ token' = token
  BY <1>1, <1>2
<1> HIDE DEF rest, phase
<1>4. /\ job'.phase = phase /\ job'.todo = rest /\ job'.snap = job.snap
      /\ job'.cursor = job.cursor
  BY <1>0, <1>1 DEF JobOK
<1>5. DOMAIN job.snap = {}
  BY <1>0 DEF CalmInv, RowsAgree, PhaseFine
<1>6. CalendarMoves /\ server' = server
  BY <1>0, CalendarStays
<1>7. /\ QueuesFine' /\ RowsBeside(None) /\ VersionsKept({r})
      /\ t = server[r] => InStore(r)'
      /\ server[r].state = "live" => RowsWith(r)' # {}
      /\ \A q \in RemoteIds \ {r}, n \in Int : Behind(q, n) => Behind(q, n)'
  BY ChangeApplied
<1>8. PhaseFine' /\ SnapFine' /\ ~InFlight /\ ~InFlight'
  BY <1>0, <1>3, <1>4, <1>5 DEF PhaseFine, SnapFine, InFlight
<1>9. CreatesHeard'
  <2>1. None \notin DOMAIN outbox /\ None \notin DOMAIN outbox'
    BY <1>0 DEF TypeOK, OutboxOK, OpIds, None
  <2> QED
    BY <1>0, <1>6, <1>7, <1>8, <2>1, HeardKept, StoreAssumption
       DEF CalmInv, RowsAgree, CalendarMoves
<1>10. Horizon = job.cursor /\ Horizon' = job.cursor
  BY <1>0, <1>3, <1>4 DEF Horizon
<1>11. StagedFine'
  <2> SUFFICES ASSUME NEW q \in DOMAIN rest PROVE StagedTrue(q, job.todo[q])'
    BY <1>2, <1>4 DEF StagedFine, StagedTrue, Behind
  <2>1. q \in DOMAIN job.todo /\ q # r /\ q \in RemoteIds /\ token' = token
    BY <1>0, <1>2, <1>3 DEF JobOK
  <2>2. StagedTrue(q, job.todo[q]) /\ job'.todo[q] = job.todo[q]
    BY <1>0, <1>2, <1>4, <2>1 DEF StagedFine
  <2>3. job.todo[q].etag \in Int
    BY <1>0, <2>1 DEF JobOK, Resources, Etags, None
  <2>4. Behind(q, job.todo[q].etag)'
    BY <1>7, <2>1, <2>2, <2>3 DEF StagedTrue
  <2> QED
    BY <1>4, <1>6, <2>1, <2>2, <2>4 DEF StagedTrue, Behind
<1>12. TokenCovers'
  <2> SUFFICES ASSUME NEW q \in RemoteIds \ DOMAIN rest, server[q].etag <= job.cursor
               PROVE  InStore(q)'
    BY <1>4, <1>6, <1>10 DEF TokenCovers
  <2>1. CASE q = r
    <3>1. StagedTrue(r, t)
      BY <1>0 DEF StagedFine
    <3>2. t = server[r]
      BY <2>1, <3>1 DEF StagedTrue
    <3> QED
      BY <1>7, <2>1, <3>2
  <2>2. CASE q # r
    <3>1. InStore(q)
      BY <1>0, <1>2, <1>10, <2>2 DEF TokenCovers
    <3> QED
      BY <1>6, <1>7, <2>2, <3>1 DEF VersionsKept
  <2> QED
    BY <2>1, <2>2
<1>13. CreateSeen'
  <2> SUFFICES ASSUME NEW o \in OpIds, server[o].state = "live", o \notin DOMAIN rest
               PROVE  RowsWith(o)' # {}
    BY <1>4, <1>6 DEF CreateSeen
  <2>1. o \in DOMAIN job.todo \/ RowsWith(o) # {}
    BY <1>0 DEF CreateSeen
  <2>2. o \in DOMAIN job.todo => o = r
    BY <1>2
  <2>3. o \in RemoteIds
    BY OpIdsAreRemoteIds, StoreAssumption
  <2> QED
    BY <1>6, <1>7, <2>1, <2>2, <2>3 DEF VersionsKept
<1>14. ClocksFine'
  <2>1. token' \in {token, job.cursor}
    BY <1>3
  <2>2. phase = "apply" => token' = token
    BY <1>3
  <2> QED
    BY <1>0, <1>4, <1>6, <2>1, <2>2 DEF ClocksFine
<1>15. TablesTrue'
  BY <1>7 DEF VersionsKept
<1> QED
  BY <1>7, <1>8, <1>9, <1>11, <1>12, <1>13, <1>14, <1>15 DEF CalmInv, RowsAgree, VersionsAgree

\* Nothing was listed.
LEMMA ApplyNothingCalm ==
    ASSUME EngineInv, EngineInv', CalmInv, ApplyNothing
    PROVE  CalmInv'
<1>0. /\ JobOK(job) /\ TypeOK /\ TypeOK' /\ ServerOK /\ ClocksFine /\ TablesTrue
      /\ TokenCovers /\ CreateSeen /\ UNCHANGED storeVars /\ UNCHANGED remoteVars
      /\ token' = job.cursor /\ job.phase = "apply" /\ DOMAIN job.todo = {}
      /\ Goto("drain") /\ clock' = clock
  BY DEF EngineInv, EngineOK, CalmInv, VersionsAgree, ApplyNothing, remoteVars
<1>1. /\ job'.phase = "drain" /\ job'.todo = job.todo /\ job'.cursor = job.cursor
      /\ job'.snap = job.snap
  BY <1>0, PhasedJob
<1>2. DOMAIN job.snap = {}
  BY <1>0 DEF CalmInv, RowsAgree, PhaseFine
<1>3. CalendarMoves /\ server' = server
  BY <1>0, CalendarStays
<1>4. TablesMove(None) /\ events' = events
  BY <1>0, <1>3, StoreStays DEF storeVars
<1>5. PhaseFine' /\ SnapFine' /\ ~InFlight /\ ~InFlight'
  BY <1>0, <1>1, <1>2 DEF PhaseFine, SnapFine, InFlight
<1>6. CreatesHeard'
  <2>1. None \notin DOMAIN outbox /\ None \notin DOMAIN outbox'
    BY <1>0 DEF TypeOK, OutboxOK, OpIds, None
  <2> QED
    BY <1>0, <1>3, <1>4, <1>5, <2>1, HeardKept, StoreAssumption
       DEF TablesMove, CalmInv, RowsAgree, CalendarMoves
<1>7. TokenCovers'
  <2>1. Horizon = job.cursor /\ Horizon' = job.cursor
    BY <1>0, <1>1 DEF Horizon
  <2> QED
    BY <1>0, <1>1, <1>3, <1>4, <2>1 DEF TokenCovers, TablesMove, VersionsKept
<1>8. CreateSeen'
  BY <1>0, <1>1, <1>3, <1>4 DEF CreateSeen, RowsWith
<1>9. ClocksFine' /\ StagedFine'
  BY <1>0, <1>1, <1>3 DEF ClocksFine, StagedFine
<1>10. TablesTrue'
  BY <1>4 DEF TablesMove, VersionsKept
<1> QED
  BY <1>4, <1>5, <1>6, <1>7, <1>8, <1>9, <1>10
     DEF CalmInv, RowsAgree, VersionsAgree, TablesMove

-----------------------------------------------------------------------------
(* The invariant and what it says.                                         *)

\* The engine begins in CalmInv.
LEMMA CalmInit ==
    ASSUME Init PROVE CalmInv
<1>1. /\ DOMAIN events = {} /\ DOMAIN outbox = {} /\ DOMAIN conflicts = {}
      /\ DOMAIN job.todo = {} /\ DOMAIN job.snap = {} /\ job.phase = "idle"
      /\ job.cursor = None /\ token = None /\ clock = NumForeign
  BY DEF Init, StoreInit, Empty, IdleJob
<1>2. PICK c \in Contents :
        server = [r \in RemoteIds |->
                    IF r > MaxOps
                    THEN [state |-> "live", etag |-> r - MaxOps, content |-> c]
                    ELSE [state |-> "never", etag |-> None, content |-> c]]
  BY DEF Init
<1>3. MaxOps \in Nat /\ NumForeign \in Nat
  BY StoreAssumption DEF StoreAssumption
<1>4. ASSUME NEW r \in RemoteIds
      PROVE  /\ server[r].etag <= clock
             /\ r > MaxOps => server[r].etag > token /\ server[r].state = "live"
             /\ ~(r > MaxOps) => server[r].state = "never"
  BY <1>1, <1>2, <1>3 DEF RemoteIds, None
<1>5. RowsAgree
  BY <1>1 DEF RowsAgree, QueuesFine, SnapFine, PhaseFine, CreatesHeard, InFlight
<1>6. TablesTrue /\ StagedFine
  BY <1>1 DEF TablesTrue, StagedFine
<1>7. ClocksFine
  BY <1>1, <1>3, <1>4 DEF ClocksFine, None
<1>8. TokenCovers
  <2> SUFFICES ASSUME NEW r \in RemoteIds, server[r].etag <= token PROVE InStore(r)
    BY <1>1 DEF TokenCovers, Horizon
  <2>1. server[r].etag \in Int /\ token \in Int
    BY <1>1, <1>2, <1>3 DEF RemoteIds, None
  <2>2. server[r].state = "never"
    BY <1>4, <2>1
  <2> QED
    BY <2>2 DEF InStore
<1>9. CreateSeen
  BY <1>1 DEF CreateSeen
<1> QED
  BY <1>5, <1>6, <1>7, <1>8, <1>9 DEF CalmInv, VersionsAgree

\* Every step keeps it.
LEMMA CalmStep ==
    ASSUME EngineInv, EngineInv', RemoteIdentityUnique, DependencyOrder, HomeInv, CalmInv,
           [CalmNext]_drainVars
    PROVE  CalmInv'
<1>1. Pull => CalmInv'
  BY ListReplyCalm, ApplyChunkCalm, ApplyNothingCalm DEF Pull
<1>2. Dispatch => CalmInv'
  BY DispatchCalm
<1>3. MutationResult => CalmInv'
  BY MutationCalm
<1>4. Resolution => CalmInv'
  BY ResolutionCalm
<1>5. FaultStep => CalmInv'
  BY FaultCalm
<1>6. UserTurn /\ ApartFromJob => CalmInv'
  BY UserTurnCalm
<1> QED
  BY <1>1, <1>2, <1>3, <1>4, <1>5, <1>6, OthersCalm DEF CalmNext, JobStep

\* The conjunction that every step keeps, with what was proved before.
CalmEngine == EngineInv /\ RemoteIdentityUnique /\ DependencyOrder /\ HomeInv /\ CalmInv

\* The calm behaviours are behaviours of the engine.
LEMMA CalmIsSpec ==
    CalmSpec => Spec
<1>1. [CalmNext]_drainVars => [Next]_drainVars
  BY DEF CalmNext, Next
<1> QED
  BY <1>1, PTL DEF CalmSpec, Spec

\* Until a command meets the job, the rows, the snapshot and the staged changes
\* agree with the events and with the server.
THEOREM CalmCorrect ==
    CalmSpec => []CalmEngine
<1>1. Init => CalmInv
  BY CalmInit
<1>2. EngineInv /\ EngineInv' /\ RemoteIdentityUnique /\ DependencyOrder /\ HomeInv /\ CalmInv
        /\ [CalmNext]_drainVars => CalmInv'
  BY CalmStep
<1> QED
  BY <1>1, <1>2, HomeCorrect, EngineIdentityCorrect, CalmIsSpec, PTL DEF CalmSpec, CalmEngine

\* Until a command meets the job, an event shown as synchronised says what the
\* server says, or the server has a newer version that has yet to be pulled: a
\* pull of a later version, an acknowledgement and a decided conflict each leave
\* the event clean only with the content of its revision.
THEOREM CleanIsFaithfulCorrect ==
    CalmSpec => []CleanIsFaithful
<1>1. CalmEngine => CleanIsFaithful
  <2> SUFFICES ASSUME CalmEngine, NEW e \in DOMAIN events, ~events[e].dirty
               PROVE  LET r == events[e].rid IN
                      /\ r # None
                      /\ events[e].etag <= server[r].etag
                      /\ events[e].etag = server[r].etag /\ server[r].state = "live" =>
                            events[e].content = server[r].content
    BY DEF CleanIsFaithful
  <2>1. events[e].dirty = FALSE /\ RowTrue(server, events[e])
    BY TableMembers, StoreAssumption
       DEF CalmEngine, EngineInv, CalmInv, VersionsAgree, TablesTrue, EventRows
  <2> QED
    BY <2>1 DEF RowTrue, Faithful
<1> QED
  BY <1>1, CalmCorrect, PTL

\* Until a command meets the job, nothing left to do means that the two calendars
\* are the same: without an unfinished row every event is clean, and what the
\* token covers, which is then everything, is in the store.
THEOREM ConvergedCorrect ==
    CalmSpec => []Converged
<1>1. CalmEngine => Converged
  <2> SUFFICES ASSUME CalmEngine, Quiet
               PROVE  /\ \A r \in RemoteIds : IsLive(r) =>
                            \E e \in RowsWith(r) : /\ events[e].content = server[r].content
                                                   /\ ~events[e].deleted
                      /\ \A e \in DOMAIN events : IsLive(events[e].rid) \/ events[e].deleted
    BY DEF Converged
  <2>1. /\ TypeOK /\ ServerOK /\ HomeInv /\ TablesTrue /\ ClocksFine /\ TokenCovers
        /\ QueuesFine /\ DOMAIN job.todo = {} /\ DOMAIN conflicts = {}
        /\ job.phase = "idle" /\ token = clock
    BY DEF CalmEngine, EngineInv, EngineOK, CalmInv, RowsAgree, VersionsAgree, PhaseFine,
           Quiet
  <2>2. ASSUME NEW e \in DOMAIN events
        PROVE  /\ events[e].dirty = FALSE /\ events[e].rid \in RemoteIds
               /\ events[e].deleted \in BOOLEAN /\ RowTrue(server, events[e])
    <3>1. ActiveOps(e) = {}
      BY DEF Quiet, ActiveOps, OpsOf, ActiveStates
    <3>2. ~events[e].dirty
      BY <2>1, <3>1 DEF QueuesFine, QueueFine
    <3>3. events[e] \in EventRows
      BY <2>1, TableMembers, StoreAssumption
    <3> QED
      BY <2>1, <3>2, <3>3 DEF TablesTrue, RowTrue, EventRows
  <2>3. ASSUME NEW r \in RemoteIds PROVE InStore(r)
    BY <2>1 DEF TokenCovers, Horizon, ClocksFine
  <2>4. ASSUME NEW r \in RemoteIds, IsLive(r)
        PROVE  \E e \in RowsWith(r) : events[e].content = server[r].content
                                      /\ ~events[e].deleted
    <3>1. PICK e : Holds(e, r)
      BY <2>3, <2>4 DEF InStore, IsLive
    <3>2. e \in RowsWith(r) /\ events[e].etag = server[r].etag
      BY <2>1, <3>1 DEF Holds
    <3>3. e \in DOMAIN events /\ events[e].rid = r /\ server[r].state = "live"
      BY <2>4, <3>2 DEF RowsWith, IsLive
    <3>4. events[e].content = server[r].content /\ events[e].deleted # TRUE
      BY <2>2, <3>2, <3>3 DEF RowTrue, Faithful
    <3> QED
      BY <3>2, <3>4
  <2>5. ASSUME NEW e \in DOMAIN events PROVE IsLive(events[e].rid) \/ events[e].deleted
    <3> DEFINE r == events[e].rid
    <3>1. r \in RemoteIds /\ e \in RowsWith(r) /\ e \in EventIds
      BY <2>1, <2>2, <2>5, TableMembers, StoreAssumption DEF RowsWith
    <3>2. r # None
      BY <3>1 DEF RemoteIds, None
    <3>3. server[r].state \in {"live", "gone"}
      BY <2>1, <2>5, <3>1, <3>2 DEF HomeInv, IdentityKnown, ServerOK, Resources
    <3>4. CASE server[r].state = "gone"
      BY <2>2, <2>3, <2>5, <3>1, <3>4 DEF InStore, Marked
    <3> QED
      BY <3>1, <3>3, <3>4 DEF IsLive
  <2> QED
    BY <2>4, <2>5
<1> QED
  BY <1>1, CalmCorrect, PTL

\* Until a command meets the job, a queued mutation keeps its event dirty, and so
\* does an open conflict: no pull overwrites an edit that is queued or undecided.
THEOREM QueuedIsDirtyCorrect ==
    CalmSpec => [](QueuedEditIsDirty /\ OpenConflictIsDirty)
<1>1. CalmEngine => QueuedEditIsDirty
  <2> SUFFICES ASSUME CalmEngine, NEW o \in DOMAIN outbox, outbox[o].state \in ActiveStates
               PROVE  events[outbox[o].event].dirty
    BY DEF QueuedEditIsDirty
  <2>1. PICK e : e = outbox[o].event
    OBVIOUS
  <2>2. e \in DOMAIN events /\ o \in ActiveOps(e)
    BY <2>1, TableMembers, StoreAssumption DEF CalmEngine, EngineInv, ActiveOps, OpsOf
  <2> QED
    BY <2>1, <2>2 DEF CalmEngine, CalmInv, RowsAgree, QueuesFine, QueueFine
<1>2. CalmEngine => OpenConflictIsDirty
  BY DEF CalmEngine, CalmInv, VersionsAgree, TablesTrue, ConflictTrue, OpenConflictIsDirty
<1> QED
  BY <1>1, <1>2, CalmCorrect, PTL

-----------------------------------------------------------------------------
(* What a step does to a local edit.                                       *)

\* What the user wrote stays, unless the user writes again or a conflict about
\* the event is open.
EditsRemain ==
    \A e \in DOMAIN events \cap DOMAIN events' :
        /\ events[e].dirty /\ events'[e].content # events[e].content
        => edits' # edits \/ e \in DOMAIN conflicts

\* What a provider's version, the end of a removal and a decision write.
LEMMA StoreEditsRemain ==
    ASSUME StoreAssumption, TypeOK, NEW r, NEW etag, NEW c, NEW o, NEW e, NEW content,
           NEW deleted,
           \/ UNCHANGED events
           \/ ApplyRemote(r, etag, c) \/ RemoveRemote(r) \/ AcknowledgeRemoval(o)
           \/ KeepRemote(e) \/ KeepLocal(e, content, deleted)
    PROVE  EditsRemain
<1> SUFFICES ASSUME NEW f \in DOMAIN events \cap DOMAIN events', events[f].dirty,
                    f \notin DOMAIN conflicts
             PROVE  events'[f].content = events[f].content
  BY DEF EditsRemain
<1>0. events[f] \in EventRows
  BY TableMembers
<1>1. CASE ApplyRemote(r, etag, c)
  <2>1. \A g \in RowsWith(r) : ~events[g].dirty => g # f
    OBVIOUS
  <2> QED
    BY <1>0, <1>1, <2>1 DEF ApplyRemote, Put
<1>2. CASE RemoveRemote(r)
  BY <1>2 DEF RemoveRemote, DeleteEvent, Restrict
<1>3. CASE AcknowledgeRemoval(o)
  <2>1. CASE Purges(o)
    BY <1>3, <2>1 DEF AcknowledgeRemoval, DeleteEvent, Restrict
  <2>2. CASE ~Purges(o)
    <3>1. \/ events' = events
          \/ events' = [events EXCEPT ![outbox[o].event].dirty = FALSE]
      BY <1>3, <2>2 DEF AcknowledgeRemoval
    <3> QED
      BY <1>0, <3>1 DEF EventRows
  <2> QED
    BY <2>1, <2>2
<1>4. CASE KeepRemote(e)
  BY <1>4 DEF KeepRemote, RemoteSide
<1>5. CASE KeepLocal(e, content, deleted)
  BY <1>5 DEF KeepLocal, Put
<1> QED
  BY <1>1, <1>2, <1>3, <1>4, <1>5

\* The completion of the newest row writes what that row, and so the event, says.
LEMMA AcceptedEditsRemain ==
    ASSUME CalmEngine, MutationAccepted
    PROVE  EditsRemain
<1> DEFINE v == [rid |-> Target(job.item, Sent), etag |-> clock + 1,
                 content |-> Sent.content]
           o == job.item
<1>0. EngineInv /\ CalmInv /\ TypeOK /\ InFlight
  BY DEF CalmEngine, EngineInv, MutationAccepted, Mutating, InFlight
<1>1. /\ o \in DOMAIN outbox /\ outbox[o].state \in ActiveStates /\ IsFirst(o)
      /\ outbox[o].op = Sent.op /\ Sent.content = outbox[o].content
  BY <1>0, ItemFacts DEF CalmInv, VersionsAgree
<1>2. v.content = Sent.content /\ IF Sent.op = "remove" THEN CompleteRemoval ELSE Complete(v)
  BY DEF MutationAccepted
<1> HIDE DEF v
<1>3. CASE Sent.op = "remove"
  BY <1>0, <1>1, <1>2, <1>3, StoreEditsRemain, StoreAssumption DEF CompleteRemoval
<1>4. CASE Sent.op # "remove" /\ AckCollides(o, v)
  BY <1>0, <1>2, <1>4, StoreEditsRemain, StoreAssumption DEF Complete, storeVars
<1>5. CASE Sent.op # "remove" /\ ~AckCollides(o, v)
  <2>1. Acknowledge(o, v) /\ ~Purges(o)
    BY <1>1, <1>2, <1>5 DEF Complete, Purges
  <2>2. PICK e \in DOMAIN events : e = outbox[o].event /\ events[e] \in EventRows
    BY <1>0, <1>1, TableMembers, StoreAssumption
  <2>3. \/ LaterOps(o) # {} /\ events' = [events EXCEPT ![e] =
                                [@ EXCEPT !.rid = v.rid, !.etag = v.etag, !.dirty = TRUE]]
        \/ LaterOps(o) = {} /\ events' = [events EXCEPT ![e] =
                                [rid |-> v.rid, etag |-> v.etag, content |-> v.content,
                                 dirty |-> FALSE, deleted |-> FALSE]]
    BY <2>1, <2>2 DEF Acknowledge
  <2>4. LaterOps(o) = {} => Sent.content = events[e].content
    <3>1. o \in ActiveOps(e) /\ QueueFine(e) /\ o \in Int
      BY <1>0, <1>1, <2>2, TableMembers, StoreAssumption
         DEF CalmInv, RowsAgree, QueuesFine, ActiveOps, OpsOf
    <3>2. LaterOps(o) = {} => \A q \in ActiveOps(e) : q <= o
      BY <2>2, <3>1 DEF LaterOps
    <3> QED
      BY <1>1, <3>1, <3>2 DEF QueueFine
  <2>5. events'[e].content = events[e].content
    <3>1. CASE LaterOps(o) # {}
      <4>1. events' = [events EXCEPT ![e] = [events[e] EXCEPT !.rid = v.rid, !.etag = v.etag,
                                                              !.dirty = TRUE]]
        BY <2>3, <3>1
      <4> QED
        BY <2>2, <4>1 DEF EventRows
    <3>2. CASE LaterOps(o) = {}
      <4>1. events'[e] = [rid |-> v.rid, etag |-> v.etag, content |-> v.content,
                          dirty |-> FALSE, deleted |-> FALSE]
        BY <2>2, <2>3, <3>2
      <4> QED
        BY <1>2, <2>4, <3>2, <4>1
    <3> QED
      BY <3>1, <3>2
  <2>6. \A f \in DOMAIN events \ {e} : events'[f] = events[f]
    BY <2>3
  <2> QED
    BY <2>5, <2>6 DEF EditsRemain
<1> QED
  BY <1>3, <1>4, <1>5

\* Every step of the engine.
LEMMA EditsRemainNext ==
    ASSUME CalmEngine, [CalmNext]_drainVars
    PROVE  EditsRemain
<1>0. EngineInv /\ CalmInv /\ TypeOK
  BY DEF CalmEngine, EngineInv
<1>1. CASE Pull
  <2>1. CASE UNCHANGED events
    BY <1>0, <2>1, StoreEditsRemain, StoreAssumption
  <2>2. ASSUME NEW r \in RemoteIds, ApplyChunk(r) PROVE EditsRemain
    BY <1>0, <2>2, StoreEditsRemain, StoreAssumption DEF ApplyChunk
  <2> QED
    BY <1>1, <2>1, <2>2 DEF Pull, ListReply, ApplyNothing, storeVars
<1>2. CASE Dispatch
  BY <1>0, <1>2, StoreEditsRemain, StoreAssumption
     DEF Dispatch, DrainOutbox, DispatchDone, CompleteLocally, DispatchNext, DispatchMissing,
         SetState, storeVars
<1>3. CASE MutationResult
  <2>1. CASE MutationAccepted
    BY <2>1, AcceptedEditsRemain
  <2>2. CASE Reconcile
    BY <1>0, <2>2, ReconcileCollides, StoreEditsRemain, StoreAssumption DEF storeVars
  <2>3. CASE \/ RemovalAlreadyDone \/ UpdateTargetGone \/ Hydrate
    BY <1>0, <2>3, StoreEditsRemain, StoreAssumption
       DEF RemovalAlreadyDone, UpdateTargetGone, Hydrate, CompleteRemoval, storeVars
  <2>4. CASE UNCHANGED events
    BY <1>0, <2>4, StoreEditsRemain, StoreAssumption
  <2> QED
    BY <1>3, <2>1, <2>2, <2>3, <2>4
       DEF MutationResult, Refused, BlockRow, TokenRefreshed, ReconcilePending, Settle,
           SetState, storeVars
<1>4. CASE Resolution
  BY <1>0, <1>4, StoreEditsRemain, StoreAssumption
     DEF Resolution, ResolveNewest, ResolveDone, KeepLocalSnapshot, storeVars
<1>5. CASE FaultStep
  BY <1>0, <1>5, StoreEditsRemain, StoreAssumption
     DEF FaultStep, ListFails, ListRefused, ReplyLost, AuthRefused, RefreshRejected, Crash,
         RequestFails, Settle, SetState, Recover, storeVars
<1>6. CASE UserTurn /\ ApartFromJob
  <2>1. ASSUME EditAllowed PROVE EditsRemain
    BY <1>0, <2>1 DEF EditAllowed, EditsRemain, TypeOK, CountersOK
  <2>2. ASSUME NEW e \in EventIds, ResolveByUser(e) PROVE EditsRemain
    BY <1>0, <2>2, StoreEditsRemain, StoreAssumption DEF ResolveByUser, KeepLocalSnapshot
  <2>3. ASSUME NEW e \in EventIds, NEW c \in Contents, CreateEvent(e, c)
        PROVE  EditsRemain
    BY <2>1, <2>3 DEF CreateEvent
  <2>4. ASSUME NEW e \in EventIds, NEW c \in Contents, NEW deleted \in BOOLEAN,
               UpdateEvent(e, c, deleted)
        PROVE  EditsRemain
    BY <2>1, <2>4 DEF UpdateEvent
  <2>5. ASSUME NEW e \in EventIds, RemoveEvent(e) PROVE EditsRemain
    BY <2>1, <2>5 DEF RemoveEvent
  <2>6. UserStep /\ ApartFromJob
    BY <1>6 DEF UserTurn
  <2> QED
    BY <2>2, <2>3, <2>4, <2>5, <2>6, Zenon DEF UserStep, ApartFromJob
<1>7. CASE UNCHANGED events
  BY <1>0, <1>7, StoreEditsRemain, StoreAssumption
<1> QED
  BY <1>1, <1>2, <1>3, <1>4, <1>5, <1>6, <1>7
     DEF CalmNext, JobStep, StartSync, Reconnect, Foreign, ForeignChange, DeadlinePasses,
         GraceOver, BackoffOver, storeVars, drainVars

\* Until a command meets the job, a local edit stays until the user edits again or
\* a conflict is decided: no pull refreshes a dirty row, and an acknowledgement
\* that writes an event writes what its newest row says.
THEOREM LocalEditCorrect ==
    CalmSpec => LocalEditRemainsVisible
<1>1. CalmEngine /\ [CalmNext]_drainVars => EditsRemain
  BY EditsRemainNext
<1> QED
  BY <1>1, CalmCorrect, PTL DEF CalmSpec, LocalEditRemainsVisible, EditsRemain

-----------------------------------------------------------------------------
(* What a request is based on, whatever commands come during the job.      *)

\* A row that is unfinished, or that the job has copied, may still be sent.
Open(o) == outbox[o].state \in ActiveStates \/ o \in DOMAIN job.snap

\* If row says the revision that is at the server, then so does event e.
Based(row, e) ==
    /\ row.op # "create" /\ row.rid # None
    /\ server[row.rid].state = "live" /\ row.expected = server[row.rid].etag
    => events[e].etag = row.expected

\* A row about a remote event names a revision, one the server has published.
Dated(row) == (row.rid # None => row.expected # None) /\ row.expected <= clock

\* Every row that may be sent is based on what its event says.
RowsBased ==
    \A o \in DOMAIN outbox :
        Dated(outbox[o]) /\ (Open(o) => Based(outbox[o], outbox[o].event))

\* So is every copy; a copy in flight whose row was deleted names no revision
\* that is at the server. No copy is left when the conflicts are resolved.
CopiesBased ==
    /\ job.phase = "resolve" => DOMAIN job.snap = {}
    /\ \A o \in DOMAIN job.snap :
        /\ Dated(job.snap[o])
        /\ o \in DOMAIN outbox => Based(job.snap[o], outbox[o].event)
        /\ Mutating /\ o = job.item /\ o \notin DOMAIN outbox
            /\ job.snap[o].op # "create" /\ job.snap[o].rid # None
            => ~(/\ server[job.snap[o].rid].state = "live"
                 /\ job.snap[o].expected = server[job.snap[o].rid].etag)

\* An event with a create that may be sent has no identity, and one such create.
CreatesWait ==
    \A o \in DOMAIN outbox :
        Created(o) /\ Open(o) =>
            /\ HomeOf(o) = None
            /\ \A p \in OpsOf(outbox[o].event) : Created(p) /\ Open(p) => p = o

\* An event has a revision with its identity, and no conflict without one.
RevisionsNamed ==
    /\ \A e \in DOMAIN events : events[e].rid = None <=> events[e].etag = None
    /\ \A e \in DOMAIN conflicts : events[e].rid # None

\* The server's revision is not older than what the store has or the job has
\* staged, and what is staged is not older than what the store has.
RevisionsBehind ==
    /\ \A r \in RemoteIds : server[r].etag <= clock /\ Behind(r, server[r].etag)
    /\ job.phase # "apply" => DOMAIN job.todo = {}
    /\ \A r \in DOMAIN job.todo :
        job.todo[r].etag <= server[r].etag /\ Behind(r, job.todo[r].etag)

\* The inductive invariant behind NoSilentOverwrite.
BaseInv == RowsBased /\ CopiesBased /\ CreatesWait /\ RevisionsNamed /\ RevisionsBehind

(* What a step may do, so that BaseInv is kept.                            *)

\* The revision of an event that keeps its identity is not set back.
GrowsAt(e) == events'[e].rid = events[e].rid => events[e].etag <= events'[e].etag

\* A row says what its event says now, or what it said before; one that may
\* still be sent could be sent before, or is new and the only such create.
RequestsMove ==
    \A o \in DOMAIN outbox' :
        LET row == outbox'[o]
            e == row.event
        IN  /\ \/ row.expected = events'[e].etag /\ (events'[e].rid = None => row.rid = None)
               \/ /\ o \in DOMAIN outbox /\ (Open(o)' => GrowsAt(e))
                  /\ row.expected = outbox[o].expected /\ row.rid = outbox[o].rid
            /\ o \in DOMAIN outbox /\ o \in DOMAIN job'.snap => GrowsAt(e)
            /\ Open(o)' =>
                IF o \in DOMAIN outbox
                THEN Open(o) /\ (Created(o) => events'[e].rid = events[e].rid)
                ELSE row.op = "create" =>
                        \A p \in DOMAIN outbox :
                            Created(p) /\ outbox[p].event = e => ~Open(p)'

\* No revision gets into the store that is newer than the server's, or newer
\* than one that stays staged.
RevisionsMove ==
    /\ RevisionsNamed'
    /\ \A r \in RemoteIds, n \in Int :
        Behind(r, n) /\ (server'[r].etag <= n \/ r \in DOMAIN job'.todo) => Behind(r, n)'

\* The row in flight is in the table when it is dispatched; it leaves it only
\* when its event has no identity.
JobGoesOn ==
    /\ JobShrinks
    /\ job'.phase # "apply" => DOMAIN job'.todo = {}
    /\ job'.phase = "resolve" => DOMAIN job'.snap = {}
    /\ job'.phase = "mutate" =>
        \/ job'.item \in DOMAIN outbox'
        \/ /\ Mutating /\ job'.item = job.item
           /\ job.item \in DOMAIN outbox => HomeOf(job.item) = None

\* All that a step may do to the tables and to the job.
BaseMoves == HomesKept /\ RequestsMove /\ RevisionsMove /\ JobGoesOn

\* The numbers that BaseInv compares.
LEMMA BaseTypes ==
    ASSUME EngineInv
    PROVE  /\ clock \in Int /\ \A r \in RemoteIds : server[r].etag \in Int /\ 0 <= server[r].etag
           /\ \A e \in DOMAIN events :
                /\ events[e].etag \in Int /\ 0 <= events[e].etag
                /\ events[e].rid \in RemoteIds \/ events[e].rid = None
           /\ \A e \in DOMAIN conflicts :
                e \in DOMAIN events /\ conflicts[e].rev \in Int /\ 0 <= conflicts[e].rev
           /\ \A o \in DOMAIN outbox :
                /\ o \in OpIds /\ outbox[o] \in OutboxRows /\ outbox[o].event \in DOMAIN events
           /\ \A row \in OutboxRows :
                row.expected \in Int /\ (row.rid \in RemoteIds \/ row.rid = None)
           /\ \A o \in DOMAIN job.snap : job.snap[o] \in OutboxRows
           /\ \A r \in DOMAIN job.todo : r \in RemoteIds /\ job.todo[r].etag \in Int
           /\ None \notin RemoteIds /\ None = 0
<1>1. EventsOK /\ OutboxOK /\ ConflictsOK /\ ServerOK /\ JobOK(job)
  BY DEF EngineInv, EngineOK, TypeOK
<1>2. /\ clock \in Int
      /\ \A r \in RemoteIds : server[r] \in Resources
      /\ \A i \in Resources : i.etag \in Int /\ 0 <= i.etag
  BY <1>1 DEF ServerOK, Resources, Etags, None
<1>3. \A e \in DOMAIN events :
        /\ events[e].etag \in Int /\ 0 <= events[e].etag
        /\ events[e].rid \in RemoteIds \/ events[e].rid = None
  BY <1>1 DEF EventsOK, EventRows, Etags, None
<1>4. \A e \in DOMAIN conflicts :
        e \in DOMAIN events /\ conflicts[e].rev \in Int /\ 0 <= conflicts[e].rev
  BY <1>1 DEF ConflictsOK, ConflictRows, Etags, None
<1>5. \A row \in OutboxRows :
        row.expected \in Int /\ (row.rid \in RemoteIds \/ row.rid = None)
  BY DEF OutboxRows, Etags, None
<1>6. \A o \in DOMAIN outbox :
        o \in OpIds /\ outbox[o] \in OutboxRows /\ outbox[o].event \in DOMAIN events
  BY <1>1 DEF OutboxOK
<1>7. None \notin RemoteIds /\ None = 0
  BY DEF RemoteIds, None
<1>8. /\ \A o \in DOMAIN job.snap : job.snap[o] \in OutboxRows
      /\ \A r \in DOMAIN job.todo : r \in RemoteIds /\ job.todo[r] \in Resources
  BY <1>1 DEF JobOK
<1> QED
  BY <1>2, <1>3, <1>4, <1>5, <1>6, <1>7, <1>8

\* A version that is still at the server after a step was there before it.
LEMMA VersionBefore ==
    ASSUME EngineInv, EngineInv', ServerMoves, NEW r \in RemoteIds, NEW n \in Int,
           n <= clock, server'[r].etag = n
    PROVE  server'[r] = server[r]
  BY BaseTypes DEF ServerMoves

\* The server's revisions only grow.
LEMMA RevisionsGrow ==
    ASSUME EngineInv, EngineInv', ServerMoves, RevisionsBehind, NEW r \in RemoteIds
    PROVE  server[r].etag <= server'[r].etag
<1>1. /\ clock \in Int /\ server[r].etag \in Int /\ server'[r].etag \in Int
  BY BaseTypes DEF EngineInv, EngineOK, ServerOK, Resources, Etags, None
<1>2. server[r].etag <= clock
  BY DEF RevisionsBehind
<1> QED
  BY <1>1, <1>2 DEF ServerMoves

\* Each part of BaseInv is kept by such a step: what the store has,
LEMMA RevisionsBehindKept ==
    ASSUME EngineInv, EngineInv', ServerMoves, RevisionsBehind, RevisionsMove, JobGoesOn
    PROVE  RevisionsBehind'
<1>1. ASSUME NEW r \in RemoteIds
      PROVE  server'[r].etag <= clock' /\ Behind(r, server[r].etag)'
  <2>1. server[r].etag \in Int /\ server'[r].etag \in Int
    BY BaseTypes DEF EngineInv, EngineOK, ServerOK, Resources, Etags, None
  <2>2. server[r].etag <= server'[r].etag /\ Behind(r, server[r].etag)
    BY RevisionsGrow DEF RevisionsBehind
  <2>3. \A e \in RowsWith(r) :
            /\ events[e].etag \in Int
            /\ e \in DOMAIN conflicts => conflicts[e].rev \in Int
    BY BaseTypes DEF RowsWith
  <2>4. PICK n \in Int : n = server'[r].etag
    BY <2>1
  <2>5. Behind(r, n)
    BY <2>1, <2>2, <2>3, <2>4 DEF Behind
  <2>6. Behind(r, n)'
    BY <2>1, <2>4, <2>5 DEF RevisionsMove
  <2> QED
    BY <2>4, <2>6 DEF ServerMoves, Behind
<1>2. ASSUME NEW r \in DOMAIN job'.todo
      PROVE  job'.todo[r].etag <= server'[r].etag /\ Behind(r, job.todo[r].etag)'
  <2>1. r \in DOMAIN job.todo /\ job'.todo[r] = job.todo[r]
    BY DEF JobGoesOn, JobShrinks
  <2>2. r \in RemoteIds /\ job.todo[r].etag \in Int
    BY <2>1, BaseTypes
  <2> PICK n \in Int : n = job.todo[r].etag
    BY <2>2
  <2>3. n <= server[r].etag /\ Behind(r, n)
    BY <2>1 DEF RevisionsBehind
  <2>4. server[r].etag \in Int /\ server'[r].etag \in Int
    BY <2>2, BaseTypes DEF EngineInv, EngineOK, ServerOK, Resources, Etags, None
  <2>5. server[r].etag <= server'[r].etag
    BY <2>2, RevisionsGrow
  <2>6. job'.todo[r].etag = n
    BY <2>1
  <2>7. Behind(r, n)'
    BY <2>2, <2>3 DEF RevisionsMove
  <2> QED
    BY <2>2, <2>3, <2>4, <2>5, <2>6, <2>7 DEF Behind
<1>3. job'.phase # "apply" => DOMAIN job'.todo = {}
  BY DEF JobGoesOn
<1> QED
  BY <1>1, <1>2, <1>3 DEF RevisionsBehind

\* a row or a copy that its event is based on,
LEMMA BasedKept ==
    ASSUME EngineInv, EngineInv', ServerMoves, RevisionsBehind, RevisionsBehind',
           NEW row \in OutboxRows, NEW e \in DOMAIN events, e \in DOMAIN events',
           Based(row, e), row.expected <= clock, GrowsAt(e),
           row.op # "create" /\ row.rid # None =>
                /\ Gone(row.rid) \/ events[e].rid = row.rid
                /\ GoneAfter(row.rid) \/ events'[e].rid = row.rid
    PROVE  row.op # "create" /\ row.rid # None
           /\ server'[row.rid].state = "live" /\ row.expected = server'[row.rid].etag
           => events'[e].etag = row.expected
<1> SUFFICES ASSUME row.op # "create", row.rid # None, server'[row.rid].state = "live",
                    row.expected = server'[row.rid].etag
             PROVE  events'[e].etag = row.expected
  OBVIOUS
<1> DEFINE r == row.rid
<1>1. r \in RemoteIds /\ row.expected \in Int
  BY BaseTypes
<1>2. server'[r] = server[r]
  BY <1>1, VersionBefore
<1>3. events[e].etag = row.expected
  BY <1>2 DEF Based
<1>4. events[e].rid = r /\ events'[e].rid = r
  BY <1>2 DEF Gone, GoneAfter
<1>5. events[e].etag <= events'[e].etag
  BY <1>4 DEF GrowsAt
<1>6. events'[e].etag <= server'[r].etag
  BY <1>1, <1>4 DEF RevisionsBehind, Behind, RowsWith
<1>7. events'[e].etag \in Int
  BY BaseTypes DEF EngineInv, TypeOK, EventsOK, EventRows, Etags, None
<1> QED
  BY <1>1, <1>3, <1>5, <1>6, <1>7

\* the rows,
LEMMA RowsBasedKept ==
    ASSUME EngineInv, EngineInv', HomeInv, HomeInv', ServerMoves, BaseInv,
           RevisionsBehind', BaseMoves
    PROVE  RowsBased'
<1> SUFFICES ASSUME NEW o \in DOMAIN outbox'
             PROVE  /\ Dated(outbox[o])'
                    /\ Open(o)' => Based(outbox[o], outbox[o].event)'
  BY DEF RowsBased
<1> DEFINE row == outbox'[o]
           e == row.event
<1>1. /\ row \in OutboxRows /\ e \in DOMAIN events' /\ clock <= clock'
      /\ clock \in Int /\ clock' \in Int /\ row.expected \in Int
      /\ row.rid \in RemoteIds \/ row.rid = None
  BY BaseTypes DEF EngineInv, EngineOK, ServerOK, TypeOK, OutboxOK, ServerMoves
<1>2. CASE row.expected = events'[e].etag /\ (events'[e].rid = None => row.rid = None)
  <2>1. events'[e].rid = None <=> events'[e].etag = None
    BY <1>1 DEF BaseMoves, RevisionsMove, RevisionsNamed
  <2>2. events'[e].etag \in Int /\ (events'[e].rid \in RemoteIds \/ events'[e].rid = None)
    BY <1>1 DEF EngineInv, TypeOK, EventsOK, EventRows, Etags, None
  <2>3. ASSUME events'[e].rid \in RemoteIds
        PROVE  events'[e].etag <= clock'
    <3>1. events'[e].etag <= server'[events'[e].rid].etag
      BY <1>1, <2>3 DEF RevisionsBehind, Behind, RowsWith
    <3>2. server'[events'[e].rid].etag <= clock' /\ server'[events'[e].rid].etag \in Int
      BY <2>3 DEF RevisionsBehind, EngineInv, EngineOK, ServerOK, Resources, Etags, None
    <3> QED
      BY <1>1, <2>2, <3>1, <3>2
  <2>4. events'[e].etag = None => events'[e].etag <= clock'
    BY DEF EngineInv, EngineOK, ServerOK, None
  <2> QED
    BY <1>2, <2>1, <2>2, <2>3, <2>4 DEF Dated, Based
<1>3. CASE /\ o \in DOMAIN outbox /\ (Open(o)' => GrowsAt(e))
           /\ row.expected = outbox[o].expected /\ row.rid = outbox[o].rid
  <2>1. row.event = outbox[o].event /\ (row.op = "create" <=> Created(o)) /\ e \in DOMAIN events
    BY <1>3, BaseTypes DEF BaseMoves, HomesKept, RowMoves
  <2>2. Dated(outbox[o]) /\ (Open(o) => Based(outbox[o], e))
    BY <1>3, <2>1 DEF BaseInv, RowsBased
  <2>3. Dated(outbox[o])'
    BY <1>1, <1>3, <2>2 DEF Dated
  <2>4. ASSUME Open(o)' PROVE Based(outbox[o], outbox[o].event)'
    <3>1. Open(o) /\ GrowsAt(e)
      BY <1>3, <2>4 DEF BaseMoves, RequestsMove
    <3>2. Based(row, e) /\ row.expected <= clock
      BY <1>3, <2>1, <2>2, <3>1 DEF Based, Dated, Created
    <3>3. row.op # "create" /\ row.rid # None =>
            /\ Gone(row.rid) \/ events[e].rid = row.rid
            /\ GoneAfter(row.rid) \/ events'[e].rid = row.rid
      BY <1>3, <2>1 DEF HomeInv, RowAtHome, HomeOf, Created, Gone, GoneAfter
    <3> HIDE DEF row, e
    <3>4. row.op # "create" /\ row.rid # None
          /\ server'[row.rid].state = "live" /\ row.expected = server'[row.rid].etag
          => events'[e].etag = row.expected
      BY <1>1, <2>1, <3>1, <3>2, <3>3, BasedKept DEF BaseInv
    <3> QED
      BY <3>4 DEF Based, row, e
  <2> QED
    BY <2>3, <2>4
<1> QED
  BY <1>2, <1>3 DEF BaseMoves, RequestsMove

\* their copies,
LEMMA CopiesBasedKept ==
    ASSUME EngineInv, EngineInv', HomeInv, HomeInv', ServerMoves, BaseInv,
           RevisionsBehind', BaseMoves
    PROVE  CopiesBased'
<1> SUFFICES ASSUME NEW o \in DOMAIN job'.snap
             PROVE  /\ Dated(job.snap[o])'
                    /\ o \in DOMAIN outbox' => Based(job.snap[o], outbox[o].event)'
                    /\ job'.phase = "mutate" /\ o = job'.item /\ o \notin DOMAIN outbox'
                        /\ job'.snap[o].op # "create" /\ job'.snap[o].rid # None
                        => ~(/\ server'[job'.snap[o].rid].state = "live"
                             /\ job'.snap[o].expected = server'[job'.snap[o].rid].etag)
  BY DEF CopiesBased, Mutating, BaseMoves, JobGoesOn
<1> DEFINE row == job.snap[o]
<1>1. o \in DOMAIN job.snap /\ job'.snap[o] = row
  BY DEF BaseMoves, JobGoesOn, JobShrinks
<1>2. /\ row \in OutboxRows /\ row.expected \in Int /\ clock \in Int /\ clock' \in Int
      /\ clock <= clock' /\ (row.rid \in RemoteIds \/ row.rid = None)
  BY <1>1, BaseTypes DEF EngineInv, EngineOK, ServerOK, ServerMoves
<1>3. Dated(row) /\ o < nextOp
  BY <1>1 DEF BaseInv, CopiesBased, HomeInv, SnapAtHome
<1>4. Dated(job.snap[o])'
  BY <1>1, <1>2, <1>3 DEF Dated
<1>5. ASSUME o \in DOMAIN outbox' PROVE Based(job.snap[o], outbox[o].event)'
  <2> DEFINE e == outbox'[o].event
  <2>1. o \in DOMAIN outbox
    BY <1>3, <1>5 DEF BaseMoves, HomesKept, RowMoves, EngineInv, TypeOK, CountersOK
  <2>2. e = outbox[o].event /\ e \in DOMAIN events /\ e \in DOMAIN events'
    BY <1>5, <2>1, BaseTypes DEF BaseMoves, HomesKept, RowMoves, EngineInv, TypeOK, OutboxOK
  <2>3. Based(row, e) /\ row.expected <= clock /\ GrowsAt(e)
    BY <1>1, <1>3, <1>5, <2>1, <2>2
       DEF BaseInv, CopiesBased, Dated, BaseMoves, RequestsMove
  <2>4. row.op # "create" /\ row.rid # None => Gone(row.rid) \/ events[e].rid = row.rid
    BY <1>1, <2>1, <2>2 DEF HomeInv, SnapAtHome, HomeOf
  <2>5. row.op # "create" /\ row.rid # None => GoneAfter(row.rid) \/ events'[e].rid = row.rid
    BY <1>1, <1>5 DEF HomeInv, SnapAtHome, HomeOf, Gone, GoneAfter
  <2> HIDE DEF row, e
  <2>6. row.op # "create" /\ row.rid # None
        /\ server'[row.rid].state = "live" /\ row.expected = server'[row.rid].etag
        => events'[e].etag = row.expected
    BY <1>2, <2>2, <2>3, <2>4, <2>5, BasedKept DEF BaseInv
  <2> QED
    BY <1>1, <2>6 DEF Based, e
<1>6. ASSUME job'.phase = "mutate", o = job'.item, o \notin DOMAIN outbox',
             row.op # "create", row.rid # None,
             server'[row.rid].state = "live", row.expected = server'[row.rid].etag
      PROVE  FALSE
  <2>1. Mutating /\ job.item = o /\ (o \in DOMAIN outbox => HomeOf(o) = None)
    BY <1>6 DEF BaseMoves, JobGoesOn
  <2>2. server'[row.rid] = server[row.rid]
    BY <1>2, <1>3, <1>6, VersionBefore DEF Dated
  <2>3. o \in DOMAIN outbox => Gone(row.rid)
    BY <1>1, <1>6, <2>1 DEF HomeInv, SnapAtHome
  <2>4. o \in DOMAIN outbox
    BY <1>1, <1>6, <2>1, <2>2 DEF BaseInv, CopiesBased
  <2> QED
    BY <1>6, <2>2, <2>3, <2>4 DEF Gone
<1> QED
  BY <1>1, <1>4, <1>5, <1>6

\* and the creates.
LEMMA CreatesWaitKept ==
    ASSUME EngineInv, EngineInv', BaseInv, BaseMoves
    PROVE  CreatesWait'
<1> SUFFICES ASSUME NEW o \in DOMAIN outbox', Created(o)', Open(o)'
             PROVE  /\ HomeOf(o)' = None
                    /\ \A p \in DOMAIN outbox' :
                        outbox'[p].event = outbox'[o].event /\ Created(p)' /\ Open(p)' => p = o
  BY DEF CreatesWait, OpsOf
<1>1. \A p \in DOMAIN outbox' :
        IF p \in DOMAIN outbox
        THEN outbox'[p].event = outbox[p].event /\ (Created(p)' <=> Created(p))
        ELSE p = nextOp /\ (Created(p)' => events'[outbox'[p].event].rid = None)
  BY DEF BaseMoves, HomesKept, RowMoves, Created
<1>2. \A p \in DOMAIN outbox' : Open(p)' =>
        IF p \in DOMAIN outbox
        THEN Open(p) /\ (Created(p) => HomeOf(p)' = HomeOf(p))
        ELSE Created(p)' => \A q \in DOMAIN outbox :
                Created(q) /\ outbox[q].event = outbox'[p].event => ~Open(q)'
  BY <1>1 DEF BaseMoves, RequestsMove, HomeOf, Created
<1>3. \A p, q \in DOMAIN outbox :
        /\ Created(p) /\ Open(p) => HomeOf(p) = None
        /\ Created(p) /\ Open(p) /\ Created(q) /\ Open(q)
            /\ outbox[q].event = outbox[p].event => q = p
  BY DEF BaseInv, CreatesWait, OpsOf
<1>4. HomeOf(o)' = None
  BY <1>1, <1>2, <1>3 DEF HomeOf
<1>5. ASSUME NEW p \in DOMAIN outbox', outbox'[p].event = outbox'[o].event,
             Created(p)', Open(p)'
      PROVE  p = o
  <2>1. CASE o \in DOMAIN outbox /\ p \in DOMAIN outbox
    BY <1>1, <1>2, <1>3, <1>5, <2>1
  <2>2. CASE o \in DOMAIN outbox /\ p \notin DOMAIN outbox
    BY <1>1, <1>2, <1>5, <2>2
  <2>3. CASE o \notin DOMAIN outbox /\ p \in DOMAIN outbox
    BY <1>1, <1>2, <1>5, <2>3
  <2>4. CASE o \notin DOMAIN outbox /\ p \notin DOMAIN outbox
    BY <1>1, <2>4
  <2> QED
    BY <2>1, <2>2, <2>3, <2>4
<1> QED
  BY <1>4, <1>5

\* Together: such a step keeps the invariant.
LEMMA BaseInvKept ==
    ASSUME EngineInv, EngineInv', HomeInv, HomeInv', ServerMoves, BaseInv, BaseMoves
    PROVE  BaseInv'
<1>1. RevisionsBehind' /\ RevisionsNamed'
  BY RevisionsBehindKept DEF BaseInv, BaseMoves, RevisionsMove
<1> QED
  BY <1>1, RowsBasedKept, CopiesBasedKept, CreatesWaitKept DEF BaseInv

(* What each transaction and each reply does to it.                        *)

\* A step that leaves the server alone, and one at which a version is
\* published.
LEMMA ServerMovesOn ==
    ASSUME EngineInv, RevisionsBehind
    PROVE  /\ UNCHANGED remoteVars => ServerMoves /\ server' = server
           /\ \A r \in RemoteIds, state \in {"live", "gone"} : \A c :
                Publish(r, state, c) /\ ~Gone(r) =>
                    ServerMoves /\ server'[r].etag = clock + 1
<1>1. /\ clock \in Int /\ DOMAIN server = RemoteIds
      /\ \A r \in RemoteIds : server[r].etag <= clock /\ server[r].etag \in Int
  BY BaseTypes DEF EngineInv, EngineOK, ServerOK, RevisionsBehind
<1>2. ASSUME UNCHANGED remoteVars PROVE ServerMoves /\ server' = server
  BY <1>1, <1>2 DEF remoteVars, ServerMoves
<1>3. ASSUME NEW r \in RemoteIds, NEW state \in {"live", "gone"}, NEW c,
             Publish(r, state, c), ~Gone(r)
      PROVE  ServerMoves /\ server'[r].etag = clock + 1
  <2>1. /\ clock' = clock + 1 /\ server'[r].etag = clock + 1
        /\ \A x \in RemoteIds \ {r} : server'[x] = server[x]
    BY <1>1, <1>3 DEF Publish
  <2>2. /\ clock <= clock' /\ clock < server'[r].etag
        /\ \A x \in RemoteIds : server'[x].etag <= clock'
    BY <1>1, <2>1
  <2> QED
    BY <1>3, <2>1, <2>2 DEF ServerMoves
<1> QED
  BY <1>2, <1>3

\* A transaction that writes neither identities nor revisions, and reopens no
\* row.
LEMMA QuietBased ==
    ASSUME EngineInv, RevisionsNamed, DOMAIN events' = DOMAIN events,
           \A e \in DOMAIN events :
                events'[e].rid = events[e].rid /\ events'[e].etag = events[e].etag,
           DOMAIN outbox' = DOMAIN outbox,
           \A o \in DOMAIN outbox :
                /\ outbox'[o].event = outbox[o].event /\ outbox'[o].rid = outbox[o].rid
                /\ outbox'[o].expected = outbox[o].expected
                /\ Open(o)' => Open(o),
           conflicts' = conflicts
    PROVE  RequestsMove /\ RevisionsMove
<1>1. \A e \in DOMAIN events : GrowsAt(e)
  BY BaseTypes DEF GrowsAt
<1>2. \A o \in DOMAIN outbox : outbox[o].event \in DOMAIN events
  BY BaseTypes
<1>3. RequestsMove
  BY <1>1, <1>2 DEF RequestsMove
<1>4. RevisionsNamed'
  BY BaseTypes DEF RevisionsNamed
<1>5. \A r : RowsWith(r)' = RowsWith(r)
  BY DEF RowsWith
<1>6. \A r \in RemoteIds, n \in Int : Behind(r, n) => Behind(r, n)'
  <2> SUFFICES ASSUME NEW r \in RemoteIds, NEW n \in Int, Behind(r, n),
                      NEW e \in RowsWith(r)'
               PROVE  /\ events'[e].etag <= n
                      /\ e \in DOMAIN conflicts' => conflicts'[e].rev <= n
    BY DEF Behind
  <2>1. e \in RowsWith(r) /\ e \in DOMAIN events
    BY <1>5 DEF RowsWith
  <2> QED
    BY <2>1 DEF Behind
<1> QED
  BY <1>3, <1>4, <1>6 DEF RevisionsMove

\* updateOutboxState of a row that may be sent anyway, or to "done".
LEMMA SetStateBased ==
    ASSUME EngineInv, RevisionsNamed, JobShrinks, NEW o, NEW state, SetState(o, state),
           state \in ActiveStates => Open(o)
    PROVE  RequestsMove /\ RevisionsMove
<1>1. \A p \in DOMAIN outbox : outbox[p] \in OutboxRows
  BY BaseTypes
<1>2. /\ DOMAIN outbox' = DOMAIN outbox /\ events' = events /\ conflicts' = conflicts
      /\ \A p \in DOMAIN outbox :
            /\ outbox'[p].event = outbox[p].event /\ outbox'[p].rid = outbox[p].rid
            /\ outbox'[p].expected = outbox[p].expected
            /\ outbox'[p].state = IF p = o THEN state ELSE outbox[p].state
  BY <1>1 DEF SetState, OutboxRows
<1>3. \A p \in DOMAIN outbox : Open(p)' => Open(p)
  BY <1>2 DEF Open, JobShrinks
<1> QED
  BY <1>2, <1>3, QuietBased

\* Discard closes a row and blocks unfinished ones.
LEMMA DiscardBased ==
    ASSUME EngineInv, RevisionsNamed, JobShrinks, NEW o, Discard(o)
    PROVE  RequestsMove /\ RevisionsMove
<1>1. \A p \in DOMAIN outbox : outbox[p] \in OutboxRows
  BY BaseTypes
<1>2. \A e \in DOMAIN events : events[e] \in EventRows
  BY DEF EngineInv, TypeOK, EventsOK
<1>3. /\ DOMAIN events' = DOMAIN events /\ conflicts' = conflicts
      /\ \A e \in DOMAIN events :
            events'[e].rid = events[e].rid /\ events'[e].etag = events[e].etag
  BY <1>1, <1>2 DEF Discard, EventRows
<1>4. /\ DOMAIN outbox' = DOMAIN outbox
      /\ \A p \in DOMAIN outbox :
            /\ outbox'[p].event = outbox[p].event /\ outbox'[p].rid = outbox[p].rid
            /\ outbox'[p].expected = outbox[p].expected
            /\ \/ outbox'[p].state \in {"done", outbox[p].state}
               \/ outbox[p].state \in QueuedStates \cup {"blocked"}
  BY <1>1 DEF Discard, OutboxRows
<1>5. \A p \in DOMAIN outbox : Open(p)' => Open(p)
  BY <1>4 DEF Open, JobShrinks, QueuedStates, ActiveStates
<1> QED
  BY <1>3, <1>4, <1>5, QuietBased

\* The deadlines, the recovery at the start, and a step that leaves the store
\* alone.
LEMMA TimeBased ==
    ASSUME EngineInv, RevisionsNamed, JobShrinks, NEW o,
           GraceOver(o) \/ BackoffOver(o) \/ Recover \/ UNCHANGED storeVars
    PROVE  RequestsMove /\ RevisionsMove
<1>1. \A p \in DOMAIN outbox : outbox[p] \in OutboxRows
  BY BaseTypes
<1>2. events' = events /\ conflicts' = conflicts
  BY DEF GraceOver, BackoffOver, Recover, storeVars
<1>3. /\ DOMAIN outbox' = DOMAIN outbox
      /\ \A p \in DOMAIN outbox :
            /\ outbox'[p].event = outbox[p].event /\ outbox'[p].rid = outbox[p].rid
            /\ outbox'[p].expected = outbox[p].expected
            /\ outbox'[p].state = outbox[p].state \/ outbox[p].state = "sending"
  <2>1. CASE GraceOver(o) \/ BackoffOver(o)
    BY <1>1, <2>1 DEF GraceOver, BackoffOver, OutboxRows
  <2>2. CASE Recover
    BY <1>1, <2>2 DEF Recover, OutboxRows
  <2>3. CASE UNCHANGED storeVars
    BY <2>3 DEF storeVars
  <2> QED
    BY <2>1, <2>2, <2>3
<1>4. \A p \in DOMAIN outbox : Open(p)' => Open(p)
  BY <1>3 DEF Open, JobShrinks, ActiveStates
<1> QED
  BY <1>2, <1>3, <1>4, QuietBased

\* DELETE FROM events
LEMMA DeleteEventBased ==
    ASSUME EngineInv, RevisionsNamed, NEW e, DeleteEvent(e),
           JobShrinks
    PROVE  RequestsMove /\ RevisionsMove
<1>1. /\ DOMAIN events' = DOMAIN events \ {e}
      /\ \A f \in DOMAIN events' : events'[f] = events[f]
      /\ DOMAIN outbox' = DOMAIN outbox \ OpsOf(e)
      /\ \A o \in DOMAIN outbox' : outbox'[o] = outbox[o]
      /\ DOMAIN conflicts' = DOMAIN conflicts \ {e}
      /\ \A f \in DOMAIN conflicts' : conflicts'[f] = conflicts[f]
  BY DEF DeleteEvent, Restrict
<1>2. \A o \in DOMAIN outbox' : outbox[o].event \in DOMAIN events'
  BY <1>1, BaseTypes DEF OpsOf
<1>3. \A f \in DOMAIN events' : GrowsAt(f)
  BY <1>1, BaseTypes DEF GrowsAt
<1>4. RequestsMove
  BY <1>1, <1>2, <1>3 DEF RequestsMove, Open, JobShrinks
<1>5. RevisionsNamed'
  BY <1>1, BaseTypes DEF RevisionsNamed
<1>6. \A r \in RemoteIds, n \in Int : Behind(r, n) => Behind(r, n)'
  BY <1>1 DEF Behind, RowsWith
<1> QED
  BY <1>4, <1>5, <1>6 DEF RevisionsMove

\* saveLocalEvent keeps the identity and the revision that the store has, and
\* queues a create only for a new event.
LEMMA SaveLocalEventBased ==
    ASSUME EngineInv, RevisionsNamed, DependencyOrder, NEW e \in EventIds, NEW row, NEW op,
           SaveLocalEvent(e, row, op), job' = job, JobShrinks,
           IF e \in DOMAIN events
           THEN op # "create" /\ row.rid = events[e].rid /\ row.etag = events[e].etag
           ELSE row.rid = None /\ row.etag = None
    PROVE  RequestsMove /\ RevisionsMove
<1>1. ASSUME NEW o \in OpIds, CancelUnsynced(e, o, op) PROVE RequestsMove /\ RevisionsMove
  BY <1>1, DeleteEventBased DEF CancelUnsynced
<1>2. ASSUME events' = Put(events, e, row), UNCHANGED conflicts
      PROVE  /\ RevisionsMove /\ \A f \in DOMAIN events : GrowsAt(f)
             /\ \A f \in DOMAIN events : events'[f].rid = events[f].rid
             /\ e \in DOMAIN events'
             /\ events'[e].rid = row.rid /\ events'[e].etag = row.etag
  <2>1. /\ DOMAIN events' = DOMAIN events \cup {e}
        /\ \A f \in DOMAIN events :
            events'[f].rid = events[f].rid /\ events'[f].etag = events[f].etag
        /\ events'[e].rid = row.rid /\ events'[e].etag = row.etag
    BY <1>2 DEF Put
  <2>2. \A f \in DOMAIN events : GrowsAt(f)
    BY <2>1, BaseTypes DEF GrowsAt
  <2>3. RevisionsNamed'
    BY <1>2, <2>1, BaseTypes DEF RevisionsNamed
  <2>4. \A r \in RemoteIds, n \in Int : Behind(r, n) => Behind(r, n)'
    <3> SUFFICES ASSUME NEW r \in RemoteIds, NEW n \in Int, Behind(r, n),
                        NEW f \in RowsWith(r)'
                 PROVE  /\ events'[f].etag <= n
                        /\ f \in DOMAIN conflicts' => conflicts'[f].rev <= n
      BY DEF Behind
    <3>1. f \in DOMAIN events' /\ events'[f].rid = r /\ r # None
      BY BaseTypes DEF RowsWith
    <3>2. f \in RowsWith(r)
      BY <2>1, <3>1 DEF RowsWith
    <3> QED
      BY <1>2, <2>1, <3>2 DEF Behind, RowsWith
  <2> QED
    BY <2>1, <2>2, <2>3, <2>4 DEF RevisionsMove
<1>3. ASSUME NEW o \in OpIds, Coalesce(e, o, row, op) PROVE RequestsMove /\ RevisionsMove
  <2>1. o \in DOMAIN outbox /\ outbox[o].event = e /\ outbox[o].state \in ActiveStates
    BY <1>3 DEF Coalesce, IsNewest, QueuedOps, OpsOf, QueuedStates, ActiveStates
  <2>2. /\ DOMAIN outbox' = DOMAIN outbox
        /\ \A p \in DOMAIN outbox \ {o} : outbox'[p] = outbox[p]
        /\ outbox'[o].event = e /\ outbox'[o].expected = row.etag /\ outbox'[o].rid = row.rid
    BY <1>3, <2>1 DEF Coalesce, QueueRow
  <2>3. /\ RevisionsMove /\ \A f \in DOMAIN events : GrowsAt(f)
        /\ \A f \in DOMAIN events : events'[f].rid = events[f].rid
        /\ events'[e].rid = row.rid /\ events'[e].etag = row.etag
    BY <1>2, <1>3 DEF Coalesce
  <2>4. \A p \in DOMAIN outbox : outbox[p].event \in DOMAIN events
    BY BaseTypes
  <2>5. RequestsMove
    BY <2>1, <2>2, <2>3, <2>4 DEF RequestsMove, Open
  <2> QED
    BY <2>3, <2>5
<1>4. ASSUME NEW dep \in OpIds \cup {None}, Enqueue(e, dep, row, op)
      PROVE  RequestsMove /\ RevisionsMove
  <2>1. nextOp \notin DOMAIN outbox
    BY BaseTypes DEF DependencyOrder, EngineInv, TypeOK, CountersOK
  <2>2. /\ DOMAIN outbox' = DOMAIN outbox \cup {nextOp}
        /\ \A p \in DOMAIN outbox : outbox'[p] = outbox[p]
        /\ outbox'[nextOp] = QueueRow(e, op, row, dep)
    BY <1>4, <2>1 DEF Enqueue, Put
  <2>3. /\ RevisionsMove /\ \A f \in DOMAIN events : GrowsAt(f)
        /\ \A f \in DOMAIN events : events'[f].rid = events[f].rid
        /\ events'[e].rid = row.rid /\ events'[e].etag = row.etag
    BY <1>2, <1>4 DEF Enqueue
  <2>4. \A p \in DOMAIN outbox : outbox[p].event \in DOMAIN events
    BY BaseTypes
  <2>5. /\ outbox'[nextOp].event = e /\ outbox'[nextOp].expected = row.etag
        /\ outbox'[nextOp].rid = row.rid /\ outbox'[nextOp].op = op
    BY <2>2 DEF QueueRow
  <2>6. op = "create" => \A p \in DOMAIN outbox : outbox[p].event # e
    BY <2>4
  <2>7. RequestsMove
    BY <2>1, <2>2, <2>3, <2>4, <2>5, <2>6 DEF RequestsMove, Open
  <2> QED
    BY <2>3, <2>7
<1> QED
  BY <1>1, <1>3, <1>4 DEF SaveLocalEvent

\* The editing commands.
LEMMA UserEditBased ==
    ASSUME EngineInv, RevisionsNamed, DependencyOrder, job' = job, JobShrinks, NEW e \in EventIds,
           NEW c, NEW deleted,
           CreateEvent(e, c) \/ UpdateEvent(e, c, deleted) \/ RemoveEvent(e)
    PROVE  RequestsMove /\ RevisionsMove
<1>1. e \in DOMAIN events => events[e] \in EventRows
  BY DEF EngineInv, TypeOK, EventsOK
<1>2. CASE CreateEvent(e, c)
  BY <1>2, SaveLocalEventBased DEF CreateEvent
<1>3. CASE UpdateEvent(e, c, deleted)
  <2> DEFINE row == [events[e] EXCEPT !.content = c, !.dirty = TRUE, !.deleted = deleted]
  <2>1. row.rid = events[e].rid /\ row.etag = events[e].etag
    BY <1>1, <1>3 DEF UpdateEvent, EventRows
  <2>2. SaveLocalEvent(e, row, "update") /\ e \in DOMAIN events
    BY <1>3 DEF UpdateEvent
  <2> HIDE DEF row
  <2> QED
    BY <2>1, <2>2, SaveLocalEventBased
<1>4. CASE RemoveEvent(e)
  <2> DEFINE row == [events[e] EXCEPT !.dirty = TRUE, !.deleted = TRUE]
  <2>1. row.rid = events[e].rid /\ row.etag = events[e].etag
    BY <1>1, <1>4 DEF RemoveEvent, EventRows
  <2>2. SaveLocalEvent(e, row, "remove") /\ e \in DOMAIN events
    BY <1>4 DEF RemoveEvent
  <2> HIDE DEF row
  <2> QED
    BY <2>1, <2>2, SaveLocalEventBased
<1> QED
  BY <1>2, <1>3, <1>4

\* resolveConflict, when the job has copied no row of the event: its rows are
\* done, and the side that is kept says the revision of the conflict.
LEMMA ResolveBased ==
    ASSUME EngineInv, HomeInv, BaseInv, DependencyOrder, JobShrinks,
           NEW e, NEW content, NEW deleted, KeepRemote(e) \/ KeepLocal(e, content, deleted),
           \A o \in DOMAIN job'.snap \cap DOMAIN outbox : outbox[o].event # e
    PROVE  RequestsMove /\ RevisionsMove
<1>1. /\ e \in DOMAIN conflicts /\ e \in DOMAIN events /\ events[e] \in EventRows
      /\ conflicts[e] \in ConflictRows /\ events[e].rid # None
      /\ events[e].rid \in RemoteIds
  BY BaseTypes DEF KeepRemote, KeepLocal, EngineInv, TypeOK, EventsOK, ConflictsOK,
                   BaseInv, RevisionsNamed
<1>2. /\ \A p \in DOMAIN outbox : outbox[p] \in OutboxRows /\ outbox[p].event \in DOMAIN events
      /\ nextOp \notin DOMAIN outbox
  BY BaseTypes DEF DependencyOrder, EngineInv, TypeOK, CountersOK
<1>3. /\ DOMAIN conflicts' = DOMAIN conflicts \ {e}
      /\ \A f \in DOMAIN conflicts' : conflicts'[f] = conflicts[f]
  BY DEF KeepRemote, KeepLocal, CloseConflict, Restrict
<1>4. /\ DOMAIN events' = DOMAIN events
      /\ \A f \in DOMAIN events \ {e} : events'[f] = events[f]
      /\ \/ events'[e].rid = None /\ events'[e].etag = None
         \/ events'[e].rid = events[e].rid /\ events'[e].etag = events[e].etag
         \/ /\ events'[e].rid = events[e].rid /\ events'[e].etag = conflicts[e].rev
            /\ conflicts[e].rev # None
  <2>1. CASE KeepRemote(e)
    BY <1>1, <2>1 DEF KeepRemote, RemoteSide, EventRows
  <2>2. CASE KeepLocal(e, content, deleted)
    <3>1. PICK row : /\ events' = Put(events, e, row)
                     /\ row.rid = IF conflicts[e].rev = None THEN None ELSE events[e].rid
                     /\ row.etag = conflicts[e].rev
      BY <2>2 DEF KeepLocal
    <3> QED
      BY <1>1, <3>1 DEF Put
  <2> QED
    BY <2>1, <2>2
<1>5. RevisionsMove
  <2>1. RevisionsNamed'
    BY <1>1, <1>3, <1>4, BaseTypes DEF BaseInv, RevisionsNamed
  <2>2. \A r \in RemoteIds, n \in Int : Behind(r, n) => Behind(r, n)'
    <3> SUFFICES ASSUME NEW r \in RemoteIds, NEW n \in Int, Behind(r, n),
                        NEW f \in RowsWith(r)'
                 PROVE  /\ events'[f].etag <= n
                        /\ f \in DOMAIN conflicts' => conflicts'[f].rev <= n
      BY DEF Behind
    <3>1. f \in RowsWith(r)
      BY <1>4, BaseTypes DEF RowsWith
    <3>2. events[f].etag <= n /\ (f \in DOMAIN conflicts => conflicts[f].rev <= n)
      BY <3>1 DEF Behind
    <3>3. f = e => events'[e].etag \in {events[e].etag, conflicts[e].rev}
      BY <1>4, BaseTypes DEF RowsWith
    <3>4. f # e => events'[f] = events[f]
      BY <1>4, <3>1 DEF RowsWith
    <3> QED
      BY <1>1, <1>3, <3>2, <3>3, <3>4
  <2> QED
    BY <2>1, <2>2 DEF RevisionsMove
<1>6. \A f \in DOMAIN events \ {e} : GrowsAt(f) /\ events'[f].rid = events[f].rid
  BY <1>4, BaseTypes DEF GrowsAt
<1>7. ASSUME NEW p \in DOMAIN outbox, p \in DOMAIN outbox', outbox'[p] = Finished(e)[p]
      PROVE  /\ outbox'[p].event = outbox[p].event /\ outbox'[p].rid = outbox[p].rid
             /\ outbox'[p].expected = outbox[p].expected
             /\ outbox[p].event # e => outbox'[p] = outbox[p]
             /\ outbox[p].event = e => ~Open(p)'
  <2>1. /\ outbox'[p].event = outbox[p].event /\ outbox'[p].rid = outbox[p].rid
        /\ outbox'[p].expected = outbox[p].expected
        /\ outbox[p].event # e => outbox'[p] = outbox[p]
        /\ outbox[p].event = e => outbox'[p].state = "done"
    BY <1>2, <1>7 DEF Finished, OutboxRows
  <2>2. outbox[p].event = e => p \notin DOMAIN job'.snap
    BY <1>7
  <2> QED
    BY <2>1, <2>2 DEF Open, ActiveStates
<1>8. ASSUME NEW p \in DOMAIN outbox, p \in DOMAIN outbox', outbox'[p] = Finished(e)[p]
      PROVE  LET row == outbox'[p] IN
             /\ p \in DOMAIN outbox /\ (Open(p)' => GrowsAt(row.event))
             /\ row.expected = outbox[p].expected /\ row.rid = outbox[p].rid
             /\ p \in DOMAIN job'.snap => GrowsAt(row.event)
             /\ Open(p)' => Open(p) /\ events'[row.event].rid = events[row.event].rid
  <2>1. CASE outbox[p].event = e
    BY <1>7, <1>8, <2>1
  <2>2. CASE outbox[p].event # e
    <3>1. outbox[p].event \in DOMAIN events \ {e} /\ outbox'[p] = outbox[p]
      BY <1>2, <1>7, <1>8, <2>2
    <3>2. Open(p)' => Open(p)
      BY <3>1 DEF Open, JobShrinks
    <3> QED
      BY <1>6, <1>8, <3>1, <3>2
  <2> QED
    BY <2>1, <2>2
<1>9. CASE KeepRemote(e)
  <2>1. DOMAIN outbox' = DOMAIN outbox /\ \A p \in DOMAIN outbox : outbox'[p] = Finished(e)[p]
    BY <1>9 DEF KeepRemote, Finished
  <2> QED
    BY <1>5, <1>8, <2>1 DEF RequestsMove
<1>10. CASE KeepLocal(e, content, deleted)
  <2> DEFINE new == outbox'[nextOp]
  <2>1. /\ DOMAIN outbox' = DOMAIN outbox \cup {nextOp}
        /\ \A p \in DOMAIN outbox : outbox'[p] = Finished(e)[p]
        /\ new.event = e /\ new.expected = events'[e].etag /\ new.rid = events'[e].rid
    <3>1. PICK row, op : /\ events' = Put(events, e, row)
                         /\ outbox' = Put(Finished(e), nextOp, QueueRow(e, op, row, None))
      BY <1>10 DEF KeepLocal
    <3>2. DOMAIN Finished(e) = DOMAIN outbox
      BY DEF Finished
    <3> QED
      BY <1>2, <3>1, <3>2 DEF Put, QueueRow
  <2>2. \A p \in DOMAIN outbox : outbox[p].event = e => ~Open(p)'
    BY <1>7, <2>1
  <2> HIDE DEF new
  <2>3. \A p \in DOMAIN outbox' : p \in DOMAIN outbox \/ p = nextOp
    BY <2>1
  <2> QED
    BY <1>2, <1>5, <1>8, <2>1, <2>2, <2>3 DEF RequestsMove, new
<1> QED
  BY <1>9, <1>10

\* applyRemoteEvent with a revision that is not older than what the store has
\* of the event, nor newer than the server's.
LEMMA ApplyRemoteBased ==
    ASSUME EngineInv, RevisionsNamed, JobShrinks, NEW r \in RemoteIds, NEW etag \in Int, NEW c,
           ApplyRemote(r, etag, c), Behind(r, etag), etag # None,
           etag <= server'[r].etag, server'[r].etag \in Int, r \notin DOMAIN job'.todo
    PROVE  RequestsMove /\ RevisionsMove
<1>1. \A e \in DOMAIN events : events[e] \in EventRows
  BY DEF EngineInv, TypeOK, EventsOK
<1> DEFINE Moved ==
        /\ DOMAIN events \subseteq DOMAIN events'
        /\ \A e \in DOMAIN events :
            /\ events'[e].rid = events[e].rid
            /\ \/ events'[e].etag = events[e].etag
               \/ events[e].rid = r /\ events'[e].etag = etag
        /\ \A e \in DOMAIN events' \ DOMAIN events :
            events'[e].rid = r /\ events'[e].etag = etag /\ e \notin DOMAIN conflicts'
        /\ \A e \in DOMAIN conflicts' :
            /\ e \in DOMAIN events
            /\ \/ e \in DOMAIN conflicts /\ conflicts'[e] = conflicts[e]
               \/ events[e].rid = r /\ conflicts'[e].rev = etag
<1>2. Moved
  <2>1. DOMAIN conflicts \subseteq DOMAIN events
    BY BaseTypes
  <2>2. ASSUME NEW e, e \notin DOMAIN events, UNCHANGED conflicts,
               events' = Put(events, e, [rid |-> r, etag |-> etag, content |-> c,
                                         dirty |-> FALSE, deleted |-> FALSE])
        PROVE  Moved
    BY <2>1, <2>2 DEF Put
  <2>3. ASSUME NEW e \in RowsWith(r), UNCHANGED conflicts,
               events' = [events EXCEPT ![e].etag = etag, ![e].content = c,
                                        ![e].deleted = FALSE]
        PROVE  Moved
    <3>1. e \in DOMAIN events /\ events[e].rid = r
      BY DEF RowsWith
    <3>2. /\ DOMAIN events' = DOMAIN events
          /\ \A f \in DOMAIN events : events'[f].rid = events[f].rid
          /\ \A f \in DOMAIN events : f # e => events'[f].etag = events[f].etag
          /\ events'[e].etag = etag
      BY <1>1, <2>3, <3>1 DEF EventRows
    <3> QED
      BY <2>1, <2>3, <3>1, <3>2
  <2>4. ASSUME NEW e \in RowsWith(r), NEW newer, UNCHANGED events,
               RecordConflict(e, etag, c, newer)
        PROVE  Moved
    BY <2>1, <2>4 DEF RecordConflict, Put, RowsWith
  <2>5. CASE UNCHANGED <<events, conflicts>>
    BY <2>1, <2>5
  <2> HIDE DEF Moved
  <2> QED
    BY <2>2, <2>3, <2>4, <2>5 DEF ApplyRemote
<1>3. \A e \in DOMAIN events : GrowsAt(e)
  BY <1>2, BaseTypes DEF GrowsAt, Behind, RowsWith
<1>4. RequestsMove
  <2>1. outbox' = outbox /\ \A o \in DOMAIN outbox : outbox[o].event \in DOMAIN events
    BY BaseTypes DEF ApplyRemote
  <2>2. \A o \in DOMAIN outbox : Open(o)' => Open(o)
    BY <2>1 DEF Open, JobShrinks
  <2> QED
    BY <1>2, <1>3, <2>1, <2>2 DEF RequestsMove
<1>5. RevisionsNamed'
  BY <1>2, BaseTypes DEF RevisionsNamed
<1>6. ASSUME NEW q \in RemoteIds, NEW n \in Int, Behind(q, n),
             server'[q].etag <= n \/ q \in DOMAIN job'.todo, NEW f \in RowsWith(q)'
      PROVE  events'[f].etag <= n /\ (f \in DOMAIN conflicts' => conflicts'[f].rev <= n)
  <2>1. q = r => etag <= n
    BY <1>6
  <2>2. CASE f \notin DOMAIN events
    BY <1>2, <2>1, <2>2 DEF RowsWith
  <2>3. CASE f \in DOMAIN events
    <3>1. f \in RowsWith(q)
      BY <1>2, <2>3 DEF RowsWith
    <3>2. events[f].etag <= n /\ (f \in DOMAIN conflicts => conflicts[f].rev <= n)
      BY <1>6, <3>1 DEF Behind
    <3>3. events[f].rid = r => etag <= n
      BY <2>1, <3>1 DEF RowsWith
    <3> QED
      BY <1>2, <2>3, <3>2, <3>3
  <2> QED
    BY <2>2, <2>3
<1> QED
  BY <1>4, <1>5, <1>6 DEF RevisionsMove, Behind

\* removeRemoteEvent
LEMMA RemoveRemoteBased ==
    ASSUME EngineInv, RevisionsNamed, JobShrinks, NEW r \in RemoteIds, RemoveRemote(r)
    PROVE  RequestsMove /\ RevisionsMove
<1>1. CASE UNCHANGED <<events, outbox, conflicts>>
  BY <1>1, TimeBased DEF RemoveRemote, storeVars
<1>2. CASE \E e \in RowsWith(r) : DeleteEvent(e)
  BY <1>2, DeleteEventBased
<1>3. ASSUME NEW e \in RowsWith(r), UNCHANGED <<events, outbox>>,
             RecordConflict(e, None, events[e].content, "unknown")
      PROVE  RequestsMove /\ RevisionsMove
  <2>1. /\ e \in DOMAIN events /\ events[e].rid # None
        /\ \A f \in DOMAIN conflicts' :
            /\ f \in DOMAIN conflicts \/ f = e
            /\ f # e => conflicts'[f] = conflicts[f]
            /\ f = e => conflicts'[f].rev = None
    BY <1>3, BaseTypes DEF RecordConflict, Put, RowsWith
  <2>2. \A f \in DOMAIN events : GrowsAt(f)
    BY <1>3, BaseTypes DEF GrowsAt
  <2>3. \A o \in DOMAIN outbox : outbox[o].event \in DOMAIN events /\ (Open(o)' => Open(o))
    BY <1>3, BaseTypes DEF Open, JobShrinks
  <2>4. RequestsMove
    BY <1>3, <2>2, <2>3 DEF RequestsMove
  <2>5. RevisionsNamed'
    BY <1>3, <2>1 DEF RevisionsNamed
  <2>6. ASSUME NEW q \in RemoteIds, NEW n \in Int, Behind(q, n), NEW f \in RowsWith(q)'
        PROVE  events'[f].etag <= n /\ (f \in DOMAIN conflicts' => conflicts'[f].rev <= n)
    <3>1. f \in RowsWith(q) /\ f \in DOMAIN events
      BY <1>3 DEF RowsWith
    <3>2. events[f].etag <= n /\ 0 <= events[f].etag /\ events[f].etag \in Int
      BY <2>6, <3>1, BaseTypes DEF Behind
    <3> QED
      BY <1>3, <2>1, <2>6, <3>1, <3>2 DEF Behind, None
  <2> QED
    BY <2>4, <2>5, <2>6 DEF RevisionsMove, Behind
<1> QED
  BY <1>1, <1>2, <1>3 DEF RemoveRemote

\* completeOutbox without a remote event.
LEMMA AcknowledgeRemovalBased ==
    ASSUME EngineInv, RevisionsNamed, JobShrinks, NEW o, AcknowledgeRemoval(o)
    PROVE  RequestsMove /\ RevisionsMove
<1>1. CASE Purges(o)
  BY <1>1, DeleteEventBased DEF AcknowledgeRemoval
<1>2. CASE ~Purges(o)
  <2>1. /\ \A p \in DOMAIN outbox : outbox[p] \in OutboxRows
        /\ \A e \in DOMAIN events : events[e] \in EventRows
    BY BaseTypes DEF EngineInv, TypeOK, EventsOK
  <2>2. /\ outbox' = [outbox EXCEPT ![o].state = "done"] /\ conflicts' = conflicts
        /\ \/ events' = events
           \/ events' = [events EXCEPT ![outbox[o].event].dirty = FALSE]
    BY <1>2 DEF AcknowledgeRemoval
  <2>3. /\ DOMAIN events' = DOMAIN events
        /\ \A e \in DOMAIN events :
            events'[e].rid = events[e].rid /\ events'[e].etag = events[e].etag
    BY <2>1, <2>2 DEF EventRows
  <2>4. /\ DOMAIN outbox' = DOMAIN outbox
        /\ \A p \in DOMAIN outbox :
            /\ outbox'[p].event = outbox[p].event /\ outbox'[p].rid = outbox[p].rid
            /\ outbox'[p].expected = outbox[p].expected
            /\ outbox'[p].state \in {outbox[p].state, "done"}
    BY <2>1, <2>2 DEF OutboxRows
  <2>5. \A p \in DOMAIN outbox : Open(p)' => Open(p)
    BY <2>4 DEF Open, JobShrinks, ActiveStates
  <2> QED
    BY <2>2, <2>3, <2>4, <2>5, QuietBased
<1> QED
  BY <1>1, <1>2

\* completeOutbox with the version that the server has now, for a row of the
\* job that leaves its snapshot.
LEMMA AcknowledgeBased ==
    ASSUME EngineInv, EngineInv', HomeInv, BaseInv, ServerMoves, JobShrinks, NEW o, NEW v,
           Acknowledge(o, v), v.rid \in RemoteIds, v.etag = server'[v.rid].etag,
           server'[v.rid].state # "never", v.rid = HomeOf(o) \/ Created(o),
           Open(o), o \notin DOMAIN job'.snap, DOMAIN job'.todo = {}
    PROVE  RequestsMove /\ RevisionsMove
<1> DEFINE e == outbox[o].event
           later == LaterOps(o)
<1>1. CASE Purges(o)
  BY <1>1, DeleteEventBased DEF Acknowledge, BaseInv
<1>2. CASE ~Purges(o)
  <2>1. /\ \A p \in DOMAIN outbox : outbox[p] \in OutboxRows /\ outbox[p].event \in DOMAIN events
        /\ \A f \in DOMAIN events : events[f] \in EventRows
        /\ o \in DOMAIN outbox /\ e \in DOMAIN events
    BY BaseTypes DEF EngineInv, TypeOK, EventsOK, Acknowledge
  <2>2. v.rid # None /\ v.etag # None /\ v.etag \in Int /\ server[v.rid].etag <= v.etag
    BY BaseTypes, RevisionsGrow
       DEF EngineInv, EngineOK, ServerOK, Resources, Etags, None, BaseInv
  <2>3. /\ DOMAIN events' = DOMAIN events /\ conflicts' = conflicts
        /\ \A f \in DOMAIN events \ {e} : events'[f] = events[f]
        /\ events'[e].rid = v.rid /\ events'[e].etag = v.etag
    <3>1. /\ \/ events' = [events EXCEPT ![e] = [@ EXCEPT !.rid = v.rid, !.etag = v.etag,
                                                         !.dirty = TRUE]]
             \/ events' = [events EXCEPT ![e] = [rid |-> v.rid, etag |-> v.etag,
                                                content |-> v.content, dirty |-> FALSE,
                                                deleted |-> FALSE]]
          /\ conflicts' = conflicts
      BY <1>2 DEF Acknowledge
    <3>2. PICK row : /\ events' = [events EXCEPT ![e] = row]
                     /\ row.rid = v.rid /\ row.etag = v.etag
      BY <2>1, <3>1 DEF EventRows
    <3> QED
      BY <2>1, <3>1, <3>2
  <2>4. /\ DOMAIN outbox' = DOMAIN outbox
        /\ \A p \in DOMAIN outbox :
            /\ outbox'[p].event = outbox[p].event /\ outbox'[p].rid = outbox[p].rid
            /\ outbox'[p].op = outbox[p].op
            /\ outbox'[p].state = IF p = o THEN "done" ELSE outbox[p].state
            /\ \/ outbox'[p].expected = outbox[p].expected
               \/ outbox'[p].expected = v.etag /\ outbox[p].event = e
    <3>1. outbox' = [p \in DOMAIN outbox |->
                        IF p = o THEN [outbox[p] EXCEPT !.state = "done"]
                        ELSE IF p \in later /\ outbox[p].state \in QueuedStates
                        THEN [outbox[p] EXCEPT !.expected = v.etag]
                        ELSE outbox[p]]
      BY <1>2 DEF Acknowledge
    <3>2. \A p \in later : outbox[p].event = e
      BY DEF LaterOps, ActiveOps, OpsOf
    <3> HIDE DEF later
    <3> QED
      BY <2>1, <3>1, <3>2 DEF OutboxRows
  <2>5. events[e].rid = v.rid \/ (Created(o) /\ events[e].rid = None)
    BY <2>1 DEF BaseInv, CreatesWait, HomeOf
  <2>6. \A f \in DOMAIN events : GrowsAt(f)
    <3>1. events[e].rid = v.rid => events[e].etag <= server[v.rid].etag
      BY <2>1 DEF BaseInv, RevisionsBehind, Behind, RowsWith
    <3>2. events[e].etag \in Int /\ server[v.rid].etag \in Int
      BY <2>1, BaseTypes
    <3>3. GrowsAt(e)
      BY <2>2, <2>3, <3>1, <3>2 DEF GrowsAt
    <3> QED
      BY <2>3, <3>3, BaseTypes DEF GrowsAt
  <2>7. ASSUME NEW p \in DOMAIN outbox, Open(p)'
        PROVE  Open(p) /\ (Created(p) => events'[outbox[p].event].rid = events[outbox[p].event].rid)
    <3>1. p # o /\ Open(p)
      BY <2>1, <2>4, <2>7 DEF Open, JobShrinks, ActiveStates
    <3>2. ASSUME Created(p), outbox[p].event = e PROVE events[e].rid = v.rid
      BY <2>1, <2>5, <3>1, <3>2 DEF BaseInv, CreatesWait, OpsOf
    <3> QED
      BY <2>1, <2>3, <3>1, <3>2
  <2>8. RequestsMove
    <3> SUFFICES ASSUME NEW p \in DOMAIN outbox
                 PROVE  LET row == outbox'[p]
                            f == row.event
                        IN  /\ \/ /\ row.expected = events'[f].etag
                                  /\ events'[f].rid = None => row.rid = None
                               \/ /\ p \in DOMAIN outbox /\ (Open(p)' => GrowsAt(f))
                                  /\ row.expected = outbox[p].expected
                                  /\ row.rid = outbox[p].rid
                            /\ p \in DOMAIN outbox /\ p \in DOMAIN job'.snap => GrowsAt(f)
                            /\ Open(p)' => Open(p) /\ (Created(p) => events'[f].rid = events[f].rid)
      BY <2>4 DEF RequestsMove
    <3>1. outbox'[p].event = outbox[p].event /\ outbox[p].event \in DOMAIN events
      BY <2>1, <2>4
    <3> QED
      BY <2>2, <2>3, <2>4, <2>6, <2>7, <3>1
  <2>9. RevisionsNamed'
    BY <2>1, <2>2, <2>3, BaseTypes DEF BaseInv, RevisionsNamed
  <2>10. ASSUME NEW q \in RemoteIds, NEW n \in Int, Behind(q, n), server'[q].etag <= n,
                NEW f \in RowsWith(q)'
         PROVE  events'[f].etag <= n /\ (f \in DOMAIN conflicts' => conflicts'[f].rev <= n)
    <3>1. CASE f # e
      BY <2>3, <2>10, <3>1 DEF Behind, RowsWith
    <3>2. CASE f = e
      <4>1. q = v.rid
        BY <2>3, <3>2 DEF RowsWith
      <4>2. e \in DOMAIN conflicts => e \in RowsWith(q)
        BY <2>1, <2>5, <4>1 DEF BaseInv, RevisionsNamed, RowsWith
      <4> QED
        BY <2>3, <2>10, <3>2, <4>1, <4>2 DEF Behind
    <3> QED
      BY <3>1, <3>2
  <2> QED
    BY <2>8, <2>9, <2>10 DEF RevisionsMove, Behind
<1> QED
  BY <1>1, <1>2

(* Every step of the engine keeps BaseInv.                                 *)

\* A command that folds or cancels deletes the rows of an event only when the
\* event has no identity.
LEMMA CancelledHome ==
    ASSUME EngineInv, CreatesWait, NEW e \in EventIds, NEW c, NEW deleted,
           CreateEvent(e, c) \/ UpdateEvent(e, c, deleted) \/ RemoveEvent(e)
    PROVE  \A o \in DOMAIN outbox \ DOMAIN outbox' : HomeOf(o) = None
<1>1. ASSUME NEW row, NEW op, SaveLocalEvent(e, row, op)
      PROVE  \A o \in DOMAIN outbox \ DOMAIN outbox' : HomeOf(o) = None
  <2>1. ASSUME NEW p \in OpIds, CancelUnsynced(e, p, op)
        PROVE  \A o \in DOMAIN outbox \ DOMAIN outbox' : HomeOf(o) = None
    <3>1. p \in DOMAIN outbox /\ outbox[p].event = e /\ Created(p) /\ Open(p)
      BY <2>1 DEF CancelUnsynced, IsNewest, QueuedOps, OpsOf, QueuedStates, ActiveStates,
                  Open, Created
    <3>2. events[e].rid = None
      BY <3>1 DEF CreatesWait, HomeOf
    <3>3. DOMAIN outbox' = DOMAIN outbox \ OpsOf(e)
      BY <2>1 DEF CancelUnsynced, DeleteEvent, Restrict
    <3> QED
      BY <3>2, <3>3 DEF OpsOf, HomeOf
  <2>2. ASSUME NEW p \in OpIds, Coalesce(e, p, row, op) PROVE DOMAIN outbox' = DOMAIN outbox
    BY <2>2 DEF Coalesce
  <2>3. ASSUME NEW dep \in OpIds \cup {None}, Enqueue(e, dep, row, op)
        PROVE  DOMAIN outbox \subseteq DOMAIN outbox'
    BY <2>3 DEF Enqueue, Put
  <2> QED
    BY <1>1, <2>1, <2>2, <2>3 DEF SaveLocalEvent
<1> QED
  BY <1>1 DEF CreateEvent, UpdateEvent, RemoveEvent

\* The job goes on with the next row, ends, or enters another phase.
LEMMA RowEndGoesOn ==
    ASSUME EngineInv, RevisionsBehind, job.phase # "apply" \/ Finish, Finish \/ NextItem
    PROVE  JobGoesOn /\ job.item \notin DOMAIN job'.snap /\ DOMAIN job'.todo = {}
<1>1. JobShrinks
  BY RowEndShrinks DEF EngineInv, EngineOK
<1>2. CASE Finish
  <2>1. job'.phase = "idle" /\ DOMAIN job'.todo = {} /\ DOMAIN job'.snap = {}
    BY <1>2 DEF Finish, IdleJob, Empty
  <2> QED
    BY <1>1, <2>1 DEF JobGoesOn
<1>3. CASE NextItem /\ job.phase # "apply"
  <2> DEFINE rest == Restrict(job.snap, DOMAIN job.snap \ {job.item})
  <2>1. job.item \notin DOMAIN rest
    BY DEF Restrict
  <2>2. job' = [job EXCEPT !.phase = "dispatch", !.item = None, !.snap = rest]
    BY <1>3 DEF NextItem
  <2> HIDE DEF rest
  <2>3. job'.phase = "dispatch" /\ job'.todo = job.todo /\ job'.snap = rest
    BY <2>2 DEF EngineInv, EngineOK, JobOK
  <2> QED
    BY <1>1, <1>3, <2>1, <2>3 DEF JobGoesOn, RevisionsBehind
<1> QED
  BY <1>2, <1>3

\* Goto
LEMMA PhaseGoesOn ==
    ASSUME EngineInv, RevisionsBehind, DOMAIN job.todo = {}, NEW phase, Goto(phase),
           phase \notin {"mutate", "resolve"}, phase = "reconcile" => Sent.op = "create"
    PROVE  JobGoesOn
<1>1. JobShrinks
  BY GotoShrinks DEF EngineInv, EngineOK
<1>2. job'.phase = phase /\ job'.todo = job.todo
  BY DEF Goto, EngineInv, EngineOK, JobOK
<1> QED
  BY <1>1, <1>2 DEF JobGoesOn

\* The job starts again in another phase with nothing staged and no copy.
LEMMA FreshGoesOn ==
    ASSUME NEW phase \in {"list", "resolve"}, NEW open,
           job' = [IdleJob EXCEPT !.phase = phase, !.open = open]
                \/ job' = [IdleJob EXCEPT !.phase = phase]
    PROVE  JobGoesOn
<1>1. job'.todo = Empty /\ job'.snap = Empty /\ job'.phase = phase
  BY DEF IdleJob
<1>2. DOMAIN job'.todo = {} /\ DOMAIN job'.snap = {}
  BY <1>1 DEF Empty
<1> QED
  BY <1>1, <1>2 DEF JobGoesOn, JobShrinks

\* A step that leaves the job alone and keeps the row in flight.
LEMMA SameJobGoesOn ==
    ASSUME EngineInv, HomeInv, BaseInv, UNCHANGED job,
           \A o \in DOMAIN outbox \ DOMAIN outbox' : HomeOf(o) = None
    PROVE  JobGoesOn
<1>1. JobShrinks
  BY OthersKept
<1> QED
  BY <1>1 DEF JobGoesOn, BaseInv, RevisionsBehind, CopiesBased, Mutating

\* A completion of the row in flight, or its next state.
LEMMA SettleBased ==
    ASSUME EngineInv, HomeInv, BaseInv, job.item \in DOMAIN job.snap, job.phase # "apply",
           CompleteRemoval \/ \E state : Settle(state)
    PROVE  BaseMoves
<1>1. HomesKept
  BY SettleHomes
<1>2. Finish \/ NextItem
  BY DEF CompleteRemoval, Settle
<1>3. JobGoesOn /\ JobShrinks
  BY <1>2, RowEndGoesOn DEF BaseInv, JobGoesOn
<1>4. CASE UNCHANGED storeVars
  BY <1>1, <1>3, <1>4, TimeBased DEF BaseMoves, BaseInv
<1>5. CASE AcknowledgeRemoval(job.item)
  BY <1>1, <1>3, <1>5, AcknowledgeRemovalBased DEF BaseMoves, BaseInv
<1>6. CASE \E state : SetState(job.item, state)
  BY <1>1, <1>3, <1>6, SetStateBased DEF BaseMoves, BaseInv, Open
<1> QED
  BY <1>4, <1>5, <1>6 DEF CompleteRemoval, Settle

\* The completion with the version that the server has now.
LEMMA CompleteBased ==
    ASSUME EngineInv, EngineInv', HomeInv, BaseInv, ServerMoves, job.phase # "apply",
           job.item \in DOMAIN job.snap, NEW v, Complete(v), ~Gone(v.rid),
           server'[v.rid].state # "never", v.etag = server'[v.rid].etag,
           v.rid = IF Sent.op = "create" THEN job.item ELSE Sent.rid, v.rid \in RemoteIds
    PROVE  BaseMoves
<1>1. HomesKept
  BY CompleteHomes
<1>2. Finish \/ NextItem
  BY DEF Complete
<1>3. /\ JobGoesOn /\ JobShrinks
      /\ job.item \notin DOMAIN job'.snap /\ DOMAIN job'.todo = {}
  BY <1>2, RowEndGoesOn DEF BaseInv, JobGoesOn
<1>4. CASE UNCHANGED storeVars
  BY <1>1, <1>3, <1>4, TimeBased DEF BaseMoves, BaseInv
<1>5. CASE Acknowledge(job.item, v)
  <2>1. job.item \in DOMAIN outbox /\ Open(job.item)
    BY <1>5 DEF Acknowledge, Open
  <2>2. /\ Sent.op = "create" <=> Created(job.item)
        /\ Sent.op # "create" /\ Sent.rid # None
                => Gone(Sent.rid) \/ HomeOf(job.item) = Sent.rid
    BY <2>1 DEF HomeInv, SnapAtHome, Sent
  <2>3. v.rid = HomeOf(job.item) \/ Created(job.item)
    BY <2>2, BaseTypes
  <2>4. RequestsMove /\ RevisionsMove
    BY <1>3, <1>5, <2>1, <2>3, AcknowledgeBased
  <2> QED
    BY <1>1, <1>3, <2>4 DEF BaseMoves
<1> QED
  BY <1>4, <1>5 DEF Complete

\* The invariants a step starts and ends in.
BaseEngine == EngineInv /\ DependencyOrder /\ HomeInv /\ BaseInv

\* The pull: what is staged is not older than what the store has, and not
\* newer than the server.
LEMMA PullBased ==
    ASSUME BaseEngine, EngineInv', HomeInv', Pull
    PROVE  BaseInv'
<1>0. EngineInv /\ HomeInv /\ BaseInv /\ StoreAssumption /\ TypeOK
  BY StoreAssumption DEF BaseEngine, EngineInv
<1>1. UNCHANGED remoteVars
  BY DEF Pull, ListReply, ApplyChunk, ApplyNothing
<1>2. ServerMoves /\ server' = server /\ clock' = clock
  BY <1>0, <1>1, ServerMovesOn DEF BaseInv, remoteVars
<1>3. CASE ListReply
  <2> DEFINE listed == [r \in {r \in RemoteIds : Changed(r)} |-> server[r]]
  <2>1. job' = [job EXCEPT !.phase = "apply", !.cursor = clock, !.todo = listed]
    BY <1>3 DEF ListReply
  <2>2. \A r \in DOMAIN listed : r \in RemoteIds /\ listed[r] = server[r]
    OBVIOUS
  <2> HIDE DEF listed
  <2>3. /\ job'.phase = "apply" /\ job'.todo = listed /\ job'.snap = job.snap
    BY <1>0, <2>1 DEF EngineInv, EngineOK, JobOK
  <2>4. UNCHANGED <<events, outbox, conflicts>>
    BY <1>3 DEF ListReply, storeVars
  <2>5. RowsBased' /\ CreatesWait' /\ RevisionsNamed'
    BY <1>0, <1>2, <2>3, <2>4
       DEF BaseInv, RowsBased, Dated, Based, Open, CreatesWait, Created, HomeOf, OpsOf,
           RevisionsNamed
  <2>6. CopiesBased'
    BY <1>0, <1>2, <2>3, <2>4 DEF BaseInv, CopiesBased, Dated, Based, Mutating
  <2>7. RevisionsBehind'
    <3>1. \A r \in RemoteIds :
            server[r].etag <= clock /\ Behind(r, server[r].etag) /\ server[r].etag \in Int
      BY <1>0, BaseTypes DEF BaseInv, RevisionsBehind
    <3> QED
      BY <1>2, <2>2, <2>3, <2>4, <3>1 DEF RevisionsBehind, Behind, RowsWith
  <2> QED
    BY <2>5, <2>6, <2>7 DEF BaseInv
<1>4. ASSUME NEW r \in RemoteIds, ApplyChunk(r)
      PROVE  BaseInv'
  <2> DEFINE rest == Restrict(job.todo, DOMAIN job.todo \ {r})
             phase == IF DOMAIN job.todo = {r} THEN "drain" ELSE "apply"
  <2>1. /\ job.todo[r] \in Resources /\ job.todo[r].state # "never"
        /\ job.todo[r].etag # None /\ server[r].state # "never"
        /\ job.todo[r].state = "gone" => Gone(r)
    BY <1>0, <1>4 DEF ApplyChunk, EngineInv, EngineOK, JobOK, StagedOK, HomeInv, JobKnows
  <2>2. job.todo[r].state # "live" => job.todo[r].state = "gone"
    BY <2>1 DEF Resources
  <2>3. HomesKept
    BY <1>0, <1>4, <2>1, <2>2, ApplyRemoteHomes, RemoveRemoteHomes DEF ApplyChunk
  <2>4. job' = [job EXCEPT !.todo = rest, !.phase = phase]
    BY <1>4 DEF ApplyChunk
  <2>5. /\ DOMAIN rest = DOMAIN job.todo \ {r} /\ \A q \in DOMAIN rest : rest[q] = job.todo[q]
        /\ phase = "apply" \/ DOMAIN rest = {}
        /\ phase \notin {"reconcile", "resolve", "mutate"}
    BY DEF Restrict
  <2> HIDE DEF rest, phase
  <2>6. job'.phase = phase /\ job'.todo = rest /\ job'.snap = job.snap
    BY <1>0, <2>4 DEF EngineInv, EngineOK, JobOK
  <2>7. JobShrinks /\ JobGoesOn
    BY <2>5, <2>6 DEF JobShrinks, JobGoesOn
  <2>8. /\ job.todo[r].etag \in Int /\ server'[r].etag \in Int
        /\ job.todo[r].etag <= server'[r].etag /\ Behind(r, job.todo[r].etag)
        /\ r \notin DOMAIN job'.todo
    BY <1>0, <1>2, <1>4, <2>5, <2>6, BaseTypes DEF ApplyChunk, BaseInv, RevisionsBehind
  <2>9. RequestsMove /\ RevisionsMove
    BY <1>0, <1>4, <2>1, <2>7, <2>8, ApplyRemoteBased, RemoveRemoteBased
       DEF ApplyChunk, BaseInv
  <2> QED
    BY <1>0, <1>2, <2>3, <2>7, <2>9, BaseInvKept DEF BaseMoves
<1>5. CASE ApplyNothing
  <2>1. HomesKept
    BY <1>0, <1>5, StateHomes DEF ApplyNothing
  <2>2. JobGoesOn /\ JobShrinks
    BY <1>0, <1>5, PhaseGoesOn DEF ApplyNothing, BaseInv, JobGoesOn
  <2>3. RequestsMove /\ RevisionsMove
    BY <1>0, <1>5, <2>2, TimeBased DEF ApplyNothing, BaseInv
  <2> QED
    BY <1>0, <1>2, <2>1, <2>2, <2>3, BaseInvKept DEF BaseMoves
<1> QED
  BY <1>3, <1>4, <1>5 DEF Pull

\* The drain: a copy says what its row says.
LEMMA DispatchBased ==
    ASSUME BaseEngine, EngineInv', HomeInv', Dispatch
    PROVE  BaseInv'
<1>0. EngineInv /\ HomeInv /\ BaseInv /\ StoreAssumption /\ TypeOK
  BY StoreAssumption DEF BaseEngine, EngineInv
<1>1. UNCHANGED remoteVars
  BY DEF Dispatch, DrainOutbox, DispatchDone, CompleteLocally, DispatchNext, DispatchMissing
<1>2. ServerMoves /\ server' = server /\ clock' = clock
  BY <1>0, <1>1, ServerMovesOn DEF BaseInv, remoteVars
<1>3. CASE DrainOutbox
  <2> DEFINE ready == [o \in {o \in OpIds : Ready(o)} |-> outbox[o]]
  <2>1. job' = [job EXCEPT !.phase = "dispatch", !.snap = ready]
    BY <1>3 DEF DrainOutbox
  <2>2. \A o \in DOMAIN ready :
            o \in DOMAIN outbox /\ ready[o] = outbox[o] /\ outbox[o].state \in ActiveStates
    BY DEF Ready, QueuedStates, ActiveStates
  <2> HIDE DEF ready
  <2>3. job'.phase = "dispatch" /\ job'.todo = job.todo /\ job'.snap = ready
    BY <1>0, <2>1 DEF EngineInv, EngineOK, JobOK
  <2>4. UNCHANGED <<events, outbox, conflicts>> /\ job.phase = "drain"
    BY <1>3 DEF DrainOutbox, storeVars
  <2>5. \A o \in DOMAIN outbox : Open(o)' => Open(o)
    BY <2>2, <2>3, <2>4 DEF Open
  <2>6. RowsBased'
    BY <1>0, <1>2, <2>4, <2>5 DEF BaseInv, RowsBased, Dated, Based
  <2>7. CreatesWait'
    <3>1. \A o \in DOMAIN outbox :
            (Created(o)' <=> Created(o)) /\ HomeOf(o)' = HomeOf(o)
            /\ OpsOf(outbox[o].event)' = OpsOf(outbox[o].event)
      BY <2>4 DEF Created, HomeOf, OpsOf
    <3> QED
      BY <1>0, <2>4, <2>5, <3>1 DEF BaseInv, CreatesWait, OpsOf, Created, HomeOf
  <2>8. CopiesBased'
    <3>1. \A o \in DOMAIN ready :
            /\ o \in DOMAIN outbox /\ ready[o] = outbox[o]
            /\ Dated(outbox[o]) /\ Based(outbox[o], outbox[o].event)
      BY <1>0, <2>2 DEF BaseInv, RowsBased, Open
    <3> QED
      BY <1>2, <2>3, <2>4, <3>1 DEF CopiesBased, Dated, Based, Mutating
  <2>9. RevisionsBehind' /\ RevisionsNamed'
    BY <1>0, <1>2, <2>3, <2>4
       DEF BaseInv, RevisionsBehind, RevisionsNamed, Behind, RowsWith
  <2> QED
    BY <2>6, <2>7, <2>8, <2>9 DEF BaseInv
<1>4. CASE DispatchDone
  <2>1. HomesKept
    BY <1>0, <1>4, StateHomes DEF DispatchDone
  <2>2. JobGoesOn /\ JobShrinks
    BY <1>4, FreshGoesOn DEF DispatchDone, JobGoesOn
  <2>3. RequestsMove /\ RevisionsMove
    BY <1>0, <1>4, <2>2, TimeBased DEF DispatchDone, BaseInv
  <2> QED
    BY <1>0, <1>2, <2>1, <2>2, <2>3, BaseInvKept DEF BaseMoves
<1>5. CASE CompleteLocally
  <2>1. HomesKept
    BY <1>0, <1>5, AcknowledgeRemovalHomes DEF CompleteLocally
  <2>2. JobGoesOn /\ JobShrinks
    BY <1>0, <1>5, RowEndGoesOn DEF CompleteLocally, BaseInv, JobGoesOn
  <2>3. RequestsMove /\ RevisionsMove
    BY <1>0, <1>5, <2>2, AcknowledgeRemovalBased DEF CompleteLocally, BaseInv
  <2> QED
    BY <1>0, <1>2, <2>1, <2>2, <2>3, BaseInvKept DEF BaseMoves
<1>6. ASSUME NEW o \in OpIds, DispatchNext(o)
      PROVE  BaseInv'
  <2> DEFINE phase == IF job.snap[o].op = "remove" /\ job.snap[o].rid = None
                      THEN "complete" ELSE "mutate"
  <2>1. job' = [job EXCEPT !.item = o, !.phase = phase]
    BY <1>6 DEF DispatchNext
  <2>2. phase \notin {"reconcile", "resolve", "apply"}
    OBVIOUS
  <2> HIDE DEF phase
  <2>3. job'.phase = phase /\ job'.todo = job.todo /\ job'.snap = job.snap /\ job'.item = o
    BY <1>0, <2>1 DEF EngineInv, EngineOK, JobOK
  <2>4. /\ o \in DOMAIN outbox /\ o \in DOMAIN outbox' /\ o \in DOMAIN job.snap
        /\ DOMAIN job.todo = {}
    BY <1>0, <1>6 DEF DispatchNext, SetState, BaseInv, RevisionsBehind
  <2>5. JobShrinks /\ JobGoesOn
    BY <2>2, <2>3, <2>4 DEF JobShrinks, JobGoesOn
  <2>6. HomesKept
    BY <1>0, <1>6, StateHomes DEF DispatchNext
  <2>7. RequestsMove /\ RevisionsMove
    BY <1>0, <1>6, <2>4, <2>5, SetStateBased DEF DispatchNext, BaseInv, Open
  <2> QED
    BY <1>0, <1>2, <2>5, <2>6, <2>7, BaseInvKept DEF BaseMoves
<1>7. ASSUME NEW o \in OpIds, DispatchMissing(o)
      PROVE  BaseInv'
  <2>1. HomesKept
    BY <1>0, <1>7, StateHomes DEF DispatchMissing
  <2>2. JobGoesOn /\ JobShrinks
    BY <1>0, <1>7, RowEndGoesOn DEF DispatchMissing, BaseInv, JobGoesOn
  <2>3. RequestsMove /\ RevisionsMove
    BY <1>0, <1>7, <2>2, TimeBased DEF DispatchMissing, BaseInv
  <2> QED
    BY <1>0, <1>2, <2>1, <2>2, <2>3, BaseInvKept DEF BaseMoves
<1> QED
  BY <1>3, <1>4, <1>5, <1>6, <1>7 DEF Dispatch

\* What the server accepts is published under the target of the request.
LEMMA AcceptedMoves ==
    ASSUME EngineInv, RevisionsBehind, Mutating, Accepts(job.item, Sent),
           ServerApplies(job.item, Sent)
    PROVE  /\ ServerMoves /\ Target(job.item, Sent) \in RemoteIds
           /\ ~Gone(Target(job.item, Sent)) /\ server'[Target(job.item, Sent)].state # "never"
           /\ server'[Target(job.item, Sent)].etag = clock + 1
<1> DEFINE state == IF Sent.op = "remove" \/ Sent.deleted THEN "gone" ELSE "live"
<1>1. /\ Target(job.item, Sent) \in RemoteIds /\ ~Gone(Target(job.item, Sent))
      /\ server'[Target(job.item, Sent)].state # "never"
  BY AcceptedGrows, StoreAssumption
<1>2. Publish(Target(job.item, Sent), state, Sent.content) /\ state \in {"live", "gone"}
  BY DEF ServerApplies
<1> HIDE DEF state
<1> QED
  BY <1>1, <1>2, ServerMovesOn

\* What handleMutationResult makes of each reply.
LEMMA MutationBased ==
    ASSUME BaseEngine, EngineInv', HomeInv', MutationResult
    PROVE  BaseInv'
<1>0. EngineInv /\ HomeInv /\ BaseInv /\ StoreAssumption /\ TypeOK /\ ItemOK(job)
  BY StoreAssumption DEF BaseEngine, EngineInv, EngineOK
<1> SUFFICES ServerMoves /\ BaseMoves
  BY <1>0, BaseInvKept
<1>1. CASE MutationAccepted
  <2>1. /\ ServerMoves /\ Target(job.item, Sent) \in RemoteIds
        /\ ~Gone(Target(job.item, Sent)) /\ server'[Target(job.item, Sent)].state # "never"
        /\ server'[Target(job.item, Sent)].etag = clock + 1
    BY <1>0, <1>1, AcceptedMoves DEF MutationAccepted, BaseInv
  <2>2. job.item \in DOMAIN job.snap /\ job.phase # "apply"
    BY <1>0, <1>1 DEF MutationAccepted, Mutating, ItemOK
  <2> DEFINE v == [rid |-> Target(job.item, Sent), etag |-> clock + 1,
                   content |-> Sent.content]
  <2>3. v.rid = Target(job.item, Sent) /\ v.etag = clock + 1
    OBVIOUS
  <2>4. CompleteRemoval \/ Complete(v)
    BY <1>1 DEF MutationAccepted
  <2> HIDE DEF v
  <2>5. BaseMoves
    BY <1>0, <2>1, <2>2, <2>3, <2>4, SettleBased, CompleteBased DEF Target
  <2> QED
    BY <2>1, <2>5
<1>2. \/ MutationAccepted
      \/ ServerMoves /\ server' = server
  BY <1>0, ServerMovesOn
     DEF BaseInv, MutationResult, RemovalAlreadyDone, UpdateTargetGone, Refused, Hydrate,
         BlockRow, Reconcile, TokenRefreshed, ReconcilePending
<1>3. CASE \/ RemovalAlreadyDone \/ BlockRow
           \/ \E state \in {"retry_wait", "blocked"} : ReconcilePending(state)
  <2>1. /\ job.item \in DOMAIN job.snap /\ job.phase # "apply"
        /\ CompleteRemoval \/ \E state : Settle(state)
    BY <1>0, <1>3 DEF RemovalAlreadyDone, BlockRow, ReconcilePending, Mutating, ItemOK
  <2> QED
    BY <1>0, <1>1, <1>2, <2>1, SettleBased
<1>4. CASE UpdateTargetGone
  <2>1. /\ Sent.rid \in RemoteIds \/ Sent.rid = None
        /\ DOMAIN job.todo = {}
    BY <1>0, <1>4 DEF UpdateTargetGone, Mutating, ItemOK, EngineInv, EngineOK, JobOK, Sent,
                      OutboxRows, BaseInv, RevisionsBehind
  <2>2. HomesKept
    BY <1>0, <1>4, <2>1, NotLiveIsGone, RemoveRemoteHomes, StateHomes DEF UpdateTargetGone
  <2>3. JobGoesOn /\ JobShrinks
    BY <1>0, <1>4, <2>1, PhaseGoesOn DEF UpdateTargetGone, BaseInv, JobGoesOn
  <2>4. RequestsMove /\ RevisionsMove
    BY <1>0, <1>4, <2>1, <2>3, RemoveRemoteBased, TimeBased DEF UpdateTargetGone, BaseInv
  <2> QED
    BY <1>1, <1>2, <2>2, <2>3, <2>4 DEF BaseMoves
<1>5. CASE Refused \/ TokenRefreshed
  <2>1. HomesKept
    BY <1>0, <1>5, StateHomes DEF Refused, TokenRefreshed
  <2>2. DOMAIN job.todo = {}
    BY <1>0, <1>5 DEF Refused, TokenRefreshed, Mutating, BaseInv, RevisionsBehind
  <2>3. JobGoesOn /\ JobShrinks
    BY <1>0, <1>5, <2>2, PhaseGoesOn DEF Refused, TokenRefreshed, BaseInv, JobGoesOn
  <2>4. RequestsMove /\ RevisionsMove
    BY <1>0, <1>5, <2>3, TimeBased DEF Refused, TokenRefreshed, BaseInv
  <2> QED
    BY <1>1, <1>2, <2>1, <2>3, <2>4 DEF BaseMoves
<1>6. CASE Hydrate
  <2> DEFINE r == Sent.rid
  <2>1. /\ r \in RemoteIds /\ DOMAIN job.todo = {}
        /\ server[r].etag \in Int /\ Behind(r, server[r].etag)
    BY <1>0, <1>6, BaseTypes DEF Hydrate, ItemOK, Sent, BaseInv, RevisionsBehind
  <2>2. IsLive(r) => server[r].etag # None /\ server[r].state # "never"
    BY <1>0, <2>1 DEF IsLive, EngineInv, EngineOK, ServerOK
  <2>3. HomesKept
    BY <1>0, <1>6, <2>1, <2>2, NotLiveIsGone, ApplyRemoteHomes, RemoveRemoteHomes
       DEF Hydrate
  <2>4. JobGoesOn /\ JobShrinks
    BY <1>0, <1>6, <2>1, PhaseGoesOn DEF Hydrate, BaseInv, JobGoesOn
  <2>5. r \notin DOMAIN job'.todo
    BY <2>1, <2>4 DEF JobShrinks
  <2>6. server' = server
    BY <1>6 DEF Hydrate, remoteVars
  <2>7. (ApplyRemote(r, server[r].etag, server[r].content) /\ IsLive(r)) \/ RemoveRemote(r)
    BY <1>6 DEF Hydrate
  <2>8. server[r].etag <= server[r].etag
    BY <2>1
  <2> HIDE DEF r
  <2>9. RequestsMove /\ RevisionsMove
    BY <1>0, <2>1, <2>2, <2>4, <2>5, <2>6, <2>7, <2>8, ApplyRemoteBased, RemoveRemoteBased
       DEF BaseInv
  <2> QED
    BY <1>1, <1>2, <2>3, <2>4, <2>9 DEF BaseMoves
<1>7. CASE Reconcile
  <2> DEFINE v == [rid |-> job.item, etag |-> server[job.item].etag,
                   content |-> server[job.item].content]
  <2>1. /\ job.item \in DOMAIN job.snap /\ Sent.op = "create" /\ job.phase # "apply"
        /\ job.item \in RemoteIds /\ ~Gone(job.item) /\ server'[job.item].state # "never"
        /\ server' = server
    BY <1>0, <1>7 DEF Reconcile, ItemOK, HomeInv, JobKnows, Sent, IsLive, Gone, remoteVars
  <2>2. v.rid = job.item /\ v.etag = server[job.item].etag
    OBVIOUS
  <2>3. Complete(v)
    BY <1>7 DEF Reconcile
  <2>4. ServerMoves
    BY <1>0, <1>7, ServerMovesOn DEF Reconcile, BaseInv
  <2> HIDE DEF v
  <2>5. BaseMoves
    BY <1>0, <2>1, <2>2, <2>3, <2>4, CompleteBased
  <2> QED
    BY <2>4, <2>5
<1> QED
  BY <1>1, <1>3, <1>4, <1>5, <1>6, <1>7 DEF MutationResult

\* resolveNewestConflicts runs when the job has no copies any more.
LEMMA ResolutionBased ==
    ASSUME BaseEngine, EngineInv', HomeInv', Resolution
    PROVE  BaseInv'
<1>0. EngineInv /\ HomeInv /\ BaseInv /\ StoreAssumption /\ TypeOK /\ DependencyOrder
  BY StoreAssumption DEF BaseEngine, EngineInv
<1>1. ServerMoves
  BY <1>0, ServerMovesOn DEF BaseInv, Resolution, ResolveNewest, ResolveDone
<1>2. ASSUME NEW e \in EventIds, ResolveNewest(e)
      PROVE  BaseInv'
  <2>1. HomesKept
    BY <1>0, <1>2, ResolveHomes, StateHomes DEF ResolveNewest, KeepLocalSnapshot
  <2>2. job' = [job EXCEPT !.open = @ \ {e}] /\ job.phase = "resolve"
    BY <1>2 DEF ResolveNewest
  <2>3. job'.phase = job.phase /\ job'.todo = job.todo /\ job'.snap = job.snap
    BY <1>0, <2>2 DEF EngineInv, EngineOK, JobOK
  <2>4. JobShrinks /\ JobGoesOn /\ DOMAIN job'.snap = {}
    BY <1>0, <2>2, <2>3 DEF JobShrinks, JobGoesOn, BaseInv, RevisionsBehind, CopiesBased
  <2>5. RequestsMove /\ RevisionsMove
    <3>1. CASE KeepRemote(e) \/ KeepLocalSnapshot(e)
      BY <1>0, <2>4, <3>1, ResolveBased DEF KeepLocalSnapshot
    <3>2. CASE UNCHANGED storeVars
      BY <1>0, <2>4, <3>2, TimeBased DEF BaseInv
    <3> QED
      BY <1>2, <3>1, <3>2 DEF ResolveNewest
  <2> QED
    BY <1>0, <1>1, <2>1, <2>4, <2>5, BaseInvKept DEF BaseMoves
<1>3. CASE ResolveDone
  <2>1. HomesKept
    BY <1>0, <1>3, StateHomes DEF ResolveDone
  <2>2. JobGoesOn /\ JobShrinks
    BY <1>0, <1>3, RowEndGoesOn DEF ResolveDone, BaseInv, JobGoesOn
  <2>3. RequestsMove /\ RevisionsMove
    BY <1>0, <1>3, <2>2, TimeBased DEF ResolveDone, BaseInv
  <2> QED
    BY <1>0, <1>1, <2>1, <2>2, <2>3, BaseInvKept DEF BaseMoves
<1> QED
  BY <1>2, <1>3 DEF Resolution

\* A lost reply or a crash leaves at the server what an answered mutation would.
LEMMA FaultBased ==
    ASSUME BaseEngine, EngineInv', HomeInv', FaultStep
    PROVE  BaseInv'
<1>0. EngineInv /\ HomeInv /\ BaseInv /\ StoreAssumption /\ TypeOK /\ ItemOK(job)
  BY StoreAssumption DEF BaseEngine, EngineInv, EngineOK
<1> SUFFICES ServerMoves /\ BaseMoves
  BY <1>0, BaseInvKept
<1>1. ServerMoves
  <2>1. CASE UNCHANGED remoteVars
    BY <1>0, <2>1, ServerMovesOn DEF BaseInv
  <2>2. CASE Mutating /\ Accepts(job.item, Sent) /\ ServerApplies(job.item, Sent)
    BY <1>0, <2>2, AcceptedMoves DEF BaseInv
  <2> QED
    BY <2>1, <2>2 DEF FaultStep, ReplyLost, Crash, ListFails, ListRefused, AuthRefused,
                      RefreshRejected, RequestFails
<1>2. CASE ReplyLost \/ \E state \in {"retry_wait", "blocked"} : RequestFails(state)
  <2>1. /\ job.item \in DOMAIN job.snap /\ job.phase # "apply"
        /\ \E state : Settle(state)
    BY <1>0, <1>2 DEF ReplyLost, RequestFails, Mutating, ItemOK
  <2> QED
    BY <1>0, <1>1, <2>1, SettleBased
<1>3. CASE ListFails \/ RefreshRejected \/ Crash
  <2>1. HomesKept
    BY <1>0, <1>3, StateHomes DEF ListFails, RefreshRejected, Crash
  <2>2. JobGoesOn /\ JobShrinks
    BY <1>0, <1>3, RowEndGoesOn DEF ListFails, RefreshRejected, Crash, Reauthorize, BaseInv,
                                    JobGoesOn
  <2>3. RequestsMove /\ RevisionsMove
    BY <1>0, <1>3, <2>2, TimeBased DEF ListFails, RefreshRejected, Crash, BaseInv
  <2> QED
    BY <1>1, <2>1, <2>2, <2>3 DEF BaseMoves
<1>4. CASE ListRefused
  <2>1. HomesKept
    BY <1>0, <1>4, StateHomes DEF ListRefused
  <2>2. JobGoesOn /\ JobShrinks
    <3>1. CASE Finish
      BY <1>0, <3>1, RowEndGoesOn DEF BaseInv, JobGoesOn
    <3>2. CASE job' = [job EXCEPT !.refreshed = TRUE]
      <4>1. job'.phase = "list" /\ job'.todo = job.todo /\ job'.snap = job.snap
        BY <1>0, <1>4, <3>2 DEF ListRefused, EngineInv, EngineOK, JobOK
      <4> QED
        BY <1>0, <1>4, <4>1
           DEF JobShrinks, JobGoesOn, ListRefused, BaseInv, RevisionsBehind
    <3> QED
      BY <1>4, <3>1, <3>2 DEF ListRefused, Reauthorize
  <2>3. RequestsMove /\ RevisionsMove
    BY <1>0, <1>4, <2>2, TimeBased DEF ListRefused, BaseInv
  <2> QED
    BY <1>1, <2>1, <2>2, <2>3 DEF BaseMoves
<1>5. CASE AuthRefused
  <2>1. HomesKept
    BY <1>0, <1>5, StateHomes DEF AuthRefused
  <2>2. JobGoesOn /\ JobShrinks
    <3>1. CASE Finish
      BY <1>0, <3>1, RowEndGoesOn DEF BaseInv, JobGoesOn
    <3>2. CASE job' = [job EXCEPT !.phase = "refresh", !.item = None, !.refreshed = TRUE]
      <4>1. job'.phase = "refresh" /\ job'.todo = job.todo /\ job'.snap = job.snap
        BY <1>0, <3>2 DEF EngineInv, EngineOK, JobOK
      <4> QED
        BY <1>0, <1>5, <4>1
           DEF JobShrinks, JobGoesOn, AuthRefused, BaseInv, RevisionsBehind
    <3> QED
      BY <1>5, <3>1, <3>2 DEF AuthRefused, Reauthorize
  <2>3. job.item \in DOMAIN job.snap
    BY <1>0, <1>5 DEF AuthRefused, ItemOK
  <2>4. RequestsMove /\ RevisionsMove
    <3>1. CASE UNCHANGED storeVars
      BY <1>0, <2>2, <3>1, TimeBased DEF BaseInv
    <3>2. CASE SetState(job.item, "pending")
      BY <1>0, <2>2, <2>3, <3>2, SetStateBased DEF BaseInv, Open
    <3> QED
      BY <1>5, <3>1, <3>2 DEF AuthRefused
  <2> QED
    BY <1>1, <2>1, <2>2, <2>4 DEF BaseMoves
<1> QED
  BY <1>2, <1>3, <1>4, <1>5 DEF FaultStep

\* A command keeps it, unless it is one that Orderly excludes.
LEMMA CommandBased ==
    ASSUME BaseEngine, UserTurn, Orderly
    PROVE  BaseMoves
<1>0. EngineInv /\ HomeInv /\ BaseInv /\ StoreAssumption /\ TypeOK /\ DependencyOrder
  BY StoreAssumption DEF BaseEngine, EngineInv
<1>1. job' = job /\ JobShrinks
  BY <1>0, OthersKept DEF UserTurn
<1>2. ASSUME NEW e \in EventIds, NEW c \in Contents, NEW deleted \in BOOLEAN,
             CreateEvent(e, c) \/ UpdateEvent(e, c, deleted) \/ RemoveEvent(e)
      PROVE  BaseMoves
  <2>1. HomesKept
    BY <1>0, <1>2, UserEditHomes
  <2>2. RequestsMove /\ RevisionsMove
    BY <1>0, <1>1, <1>2, UserEditBased DEF BaseInv
  <2>3. \A o \in DOMAIN outbox \ DOMAIN outbox' : HomeOf(o) = None
    BY <1>0, <1>2, CancelledHome DEF BaseInv
  <2>4. JobGoesOn
    BY <1>0, <1>1, <2>3, SameJobGoesOn
  <2> QED
    BY <2>1, <2>2, <2>4 DEF BaseMoves
<1>3. ASSUME NEW e \in EventIds, RemoveEvent(e) PROVE BaseMoves
  <2>1. PICK c \in Contents : TRUE
    BY <1>0, <1>3 DEF RemoveEvent, TypeOK, EventsOK, EventRows
  <2> QED
    BY <1>2, <1>3, <2>1
<1>4. ASSUME NEW o, Discard(o) PROVE BaseMoves
  <2>1. HomesKept
    BY <1>0, <1>4, StateHomes
  <2>2. RequestsMove /\ RevisionsMove
    BY <1>0, <1>1, <1>4, DiscardBased DEF BaseInv
  <2>3. DOMAIN outbox' = DOMAIN outbox
    BY <1>4 DEF Discard
  <2>4. JobGoesOn
    BY <1>0, <1>1, <2>3, SameJobGoesOn
  <2> QED
    BY <2>1, <2>2, <2>4 DEF BaseMoves
<1>5. ASSUME NEW o \in OpIds, RetryOperation(o) PROVE BaseMoves
  <2>1. SetState(o, "pending") /\ o \in DOMAIN outbox
    BY <1>5 DEF RetryOperation, SetState
  <2>2. HomesKept
    BY <1>0, <2>1, StateHomes
  <2>3. outbox[o].state # "done" /\ outbox[o] \in OutboxRows
    BY <1>0, <1>5, <2>1, BaseTypes DEF Orderly
  <2>4. Open(o)
    BY <2>3 DEF Open, OutboxRows
  <2>5. RequestsMove /\ RevisionsMove
    BY <1>0, <1>1, <2>1, <2>4, SetStateBased DEF BaseInv
  <2>6. DOMAIN outbox' = DOMAIN outbox
    BY <2>1 DEF SetState
  <2>7. JobGoesOn
    BY <1>0, <1>1, <2>6, SameJobGoesOn
  <2> QED
    BY <2>2, <2>5, <2>7 DEF BaseMoves
<1>6. ASSUME NEW e \in EventIds, ResolveByUser(e) PROVE BaseMoves
  <2>1. PICK content, deleted : KeepRemote(e) \/ KeepLocal(e, content, deleted)
    BY <1>6 DEF ResolveByUser, KeepLocalSnapshot
  <2>2. HomesKept
    BY <1>0, <2>1, ResolveHomes
  <2>3. \A o \in DOMAIN job'.snap \cap DOMAIN outbox : outbox[o].event # e
    BY <1>1, <1>6 DEF Orderly
  <2>4. RequestsMove /\ RevisionsMove
    BY <1>0, <1>1, <2>1, <2>3, ResolveBased
  <2>5. \A o \in DOMAIN outbox \ DOMAIN outbox' : HomeOf(o) = None
    <3>1. DOMAIN Finished(e) = DOMAIN outbox
      BY DEF Finished
    <3> QED
      BY <2>1, <3>1 DEF KeepRemote, KeepLocal, Put
  <2>6. JobGoesOn
    BY <1>0, <1>1, <2>5, SameJobGoesOn
  <2> QED
    BY <2>2, <2>4, <2>6 DEF BaseMoves
<1>7. \/ \E e \in EventIds, c \in Contents : CreateEvent(e, c)
      \/ \E e \in EventIds, c \in Contents, deleted \in BOOLEAN : UpdateEvent(e, c, deleted)
      \/ \E e \in EventIds : RemoveEvent(e) \/ UndoRemove(e) \/ ResolveByUser(e)
      \/ \E o \in OpIds : DiscardOperation(o) \/ RetryOperation(o)
  BY DEF UserTurn, UserStep
<1> QED
  BY <1>2, <1>3, <1>4, <1>5, <1>6, <1>7 DEF UndoRemove, DiscardOperation

\* So does everything that is neither the job's step nor a fault.
LEMMA OthersBased ==
    ASSUME BaseEngine, EngineInv', HomeInv',
           \/ UserTurn /\ Orderly
           \/ StartSync \/ Reconnect \/ Foreign
           \/ \E o \in OpIds : DeadlinePasses(o)
           \/ UNCHANGED drainVars
    PROVE  BaseInv'
<1>0. EngineInv /\ HomeInv /\ BaseInv /\ StoreAssumption /\ TypeOK
  BY StoreAssumption DEF BaseEngine, EngineInv
<1> SUFFICES ServerMoves /\ BaseMoves
  BY <1>0, BaseInvKept
<1>1. UNCHANGED remoteVars => ServerMoves
  BY <1>0, ServerMovesOn DEF BaseInv
<1>2. CASE UserTurn /\ Orderly
  BY <1>1, <1>2, CommandBased DEF UserTurn
<1>3. ASSUME UNCHANGED job, \E o : GraceOver(o) \/ BackoffOver(o) \/ UNCHANGED storeVars
      PROVE  BaseMoves
  <2>1. PICK o : GraceOver(o) \/ BackoffOver(o) \/ UNCHANGED storeVars
    BY <1>3
  <2>2. HomesKept
    BY <1>0, <2>1, StateHomes
  <2>3. JobShrinks
    BY <1>0, <1>3, OthersKept
  <2>4. RequestsMove /\ RevisionsMove
    BY <1>0, <2>1, <2>3, TimeBased DEF BaseInv
  <2>5. DOMAIN outbox' = DOMAIN outbox
    BY <1>0, <2>1, BaseTypes DEF GraceOver, BackoffOver, storeVars
  <2>6. JobGoesOn
    BY <1>0, <1>3, <2>5, SameJobGoesOn
  <2> QED
    BY <2>2, <2>4, <2>6 DEF BaseMoves
<1>4. CASE Reconnect \/ (\E o \in OpIds : DeadlinePasses(o)) \/ UNCHANGED drainVars
  <2>1. /\ UNCHANGED job /\ UNCHANGED remoteVars
        /\ \E o : GraceOver(o) \/ BackoffOver(o) \/ UNCHANGED storeVars
    BY <1>4 DEF Reconnect, DeadlinePasses, drainVars
  <2> QED
    BY <1>1, <1>3, <2>1
<1>5. CASE StartSync
  <2>1. job' = [IdleJob EXCEPT !.phase = "list"] /\ UNCHANGED storeVars /\ UNCHANGED remoteVars
    BY <1>5 DEF StartSync
  <2>2. HomesKept
    BY <1>0, <2>1, StateHomes
  <2>3. JobGoesOn /\ JobShrinks
    BY <2>1, FreshGoesOn DEF JobGoesOn
  <2>4. RequestsMove /\ RevisionsMove
    BY <1>0, <2>1, <2>3, TimeBased DEF BaseInv
  <2> QED
    BY <1>1, <2>1, <2>2, <2>3, <2>4 DEF BaseMoves
<1>6. CASE Foreign
  <2>1. PICK r \in RemoteIds, state \in {"live", "gone"}, c \in Contents :
            ForeignChange(r, state, c)
    BY <1>6 DEF Foreign
  <2>2. ~Gone(r) /\ Publish(r, state, c) /\ UNCHANGED job /\ UNCHANGED storeVars
    BY <2>1 DEF ForeignChange, Gone
  <2>3. ServerMoves
    BY <1>0, <2>2, ServerMovesOn DEF BaseInv
  <2> QED
    BY <1>3, <2>2, <2>3
<1> QED
  BY <1>2, <1>4, <1>5, <1>6

\* BaseInv holds of the empty store and is kept by every step.
LEMMA BaseStep ==
    ASSUME BaseEngine, EngineInv', HomeInv', [Next /\ Orderly]_drainVars
    PROVE  BaseInv'
<1>1. CASE \/ UserTurn /\ Orderly
           \/ StartSync \/ Reconnect \/ Foreign
           \/ \E o \in OpIds : DeadlinePasses(o)
           \/ UNCHANGED drainVars
  BY <1>1, OthersBased
<1>2. CASE JobStep
  BY <1>2, PullBased, DispatchBased, MutationBased, ResolutionBased DEF JobStep
<1>3. CASE FaultStep
  BY <1>3, FaultBased
<1> QED
  BY <1>1, <1>2, <1>3 DEF Next

\* It holds of the empty store.
LEMMA BaseInit ==
    ASSUME Init PROVE BaseInv
<1>1. /\ DOMAIN events = {} /\ DOMAIN outbox = {} /\ DOMAIN conflicts = {}
      /\ DOMAIN job.todo = {} /\ DOMAIN job.snap = {} /\ clock = NumForeign
  BY DEF Init, StoreInit, Empty, IdleJob
<1>2. \A r \in RemoteIds : server[r].etag <= clock
  <2>1. MaxOps \in Nat /\ NumForeign \in Nat
    BY StoreAssumption DEF StoreAssumption
  <2>2. PICK c \in Contents :
          server = [r \in RemoteIds |->
                      IF r > MaxOps
                      THEN [state |-> "live", etag |-> r - MaxOps, content |-> c]
                      ELSE [state |-> "never", etag |-> None, content |-> c]]
    BY DEF Init
  <2> QED
    BY <1>1, <2>1, <2>2 DEF RemoteIds, None
<1>3. RevisionsBehind
  BY <1>1, <1>2 DEF RevisionsBehind, Behind, RowsWith
<1> QED
  BY <1>1, <1>3 DEF BaseInv, RowsBased, CopiesBased, CreatesWait, RevisionsNamed

\* The orderly behaviours are behaviours of the engine.
LEMMA OrderlyIsSpec ==
    OrderlySpec => Spec
<1>1. [Next /\ Orderly]_drainVars => [Next]_drainVars
  OBVIOUS
<1> QED
  BY <1>1, PTL DEF OrderlySpec, Spec

\* Until a finished row is sent again or a conflict is decided under the job,
\* every request that may still be sent, be it a row, a copy of one or a copy
\* whose row is gone, is based on what its event says, whatever is edited,
\* removed, undone or discarded while the job runs, and whatever fails.
THEOREM BaseCorrect ==
    OrderlySpec => []BaseEngine
<1>1. Init => BaseInv
  BY BaseInit
<1>2. BaseEngine /\ (EngineInv /\ DependencyOrder /\ HomeInv)'
        /\ [Next /\ Orderly]_drainVars => BaseInv'
  BY BaseStep
<1> QED
  BY <1>1, <1>2, HomeCorrect, OrderlyIsSpec, PTL DEF OrderlySpec, BaseEngine

\* What is replaced at the server is what the local copy was based on.
OverwriteIsKnown ==
    \A r \in RemoteIds :
        OwnWrite(r) /\ server[r].state = "live" =>
            \E e \in RowsWith(r) : events[e].etag = server[r].etag

\* A request that the server accepts carries the revision of the event as it is.
LEMMA AcceptedIsKnown ==
    ASSUME BaseEngine, Mutating, Accepts(job.item, Sent), ServerApplies(job.item, Sent)
    PROVE  OverwriteIsKnown
<1> DEFINE e == outbox[job.item].event
           r == Target(job.item, Sent)
<1>0. EngineInv /\ HomeInv /\ BaseInv /\ ServerOK /\ ItemOK(job)
  BY DEF BaseEngine, EngineInv, EngineOK
<1>1. job.item \in DOMAIN job.snap /\ Sent \in OutboxRows
  BY <1>0, BaseTypes DEF Mutating, ItemOK, Sent
<1>2. \A x \in RemoteIds \ {r} : server'[x] = server[x]
  BY <1>0 DEF ServerApplies, Publish, ServerOK
<1>3. CASE Sent.op = "create"
  BY <1>2, <1>3 DEF Accepts, Target, OverwriteIsKnown, OwnWrite
<1>4. CASE Sent.op # "create"
  <2>1. /\ r = Sent.rid /\ Sent.rid \in RemoteIds /\ Sent.rid # None
        /\ server[Sent.rid].state = "live"
    BY <1>0, <1>4, BaseTypes DEF Accepts, Target, IsLive
  <2>2. server[Sent.rid].etag = Sent.expected
    BY <1>0, <1>1, <1>4, <2>1 DEF Accepts, Matches, BaseInv, CopiesBased, Dated, Sent
  <2>3. job.item \in DOMAIN outbox /\ e \in DOMAIN events
    BY <1>0, <1>1, <1>4, <2>1, <2>2, BaseTypes DEF BaseInv, CopiesBased, Mutating, Sent
  <2>4. events[e].etag = Sent.expected
    BY <1>0, <1>1, <1>4, <2>1, <2>2, <2>3 DEF BaseInv, CopiesBased, Based, Sent
  <2>5. events[e].rid = Sent.rid
    BY <1>0, <1>1, <1>4, <2>1, <2>3 DEF HomeInv, SnapAtHome, HomeOf, Gone, Sent
  <2> QED
    BY <1>2, <2>1, <2>2, <2>3, <2>4, <2>5 DEF OverwriteIsKnown, OwnWrite, RowsWith
<1> QED
  BY <1>3, <1>4

\* This client replaces a version at the server only when the local copy is
\* based on exactly it: the request says the revision that its event has now,
\* and If-Match holds it to that. The user may edit, remove, undo, discard and
\* retry at any moment of a job, and any reply may be lost; what is excluded is
\* sending a finished row again, which carries an old revision, and deciding a
\* conflict about an event of which the job has copied a row.
THEOREM NoSilentOverwriteCorrect ==
    OrderlySpec => NoSilentOverwrite
<1>1. BaseEngine /\ [Next]_drainVars => OverwriteIsKnown
  <2> SUFFICES ASSUME BaseEngine, [Next]_drainVars PROVE OverwriteIsKnown
    OBVIOUS
  <2>1. CASE Mutating /\ Accepts(job.item, Sent) /\ ServerApplies(job.item, Sent)
    BY <2>1, AcceptedIsKnown
  <2>2. CASE applied' = applied
    BY <2>2 DEF OverwriteIsKnown, OwnWrite
  <2> QED
    BY <2>1, <2>2
       DEF Next, JobStep, Pull, ListReply, ApplyChunk, ApplyNothing, Dispatch, DrainOutbox,
           DispatchDone, CompleteLocally, DispatchNext, DispatchMissing, MutationResult,
           MutationAccepted, RemovalAlreadyDone, UpdateTargetGone, Refused, Hydrate, BlockRow,
           Reconcile, TokenRefreshed, ReconcilePending, Resolution, ResolveNewest,
           ResolveDone, FaultStep, ListFails, ListRefused, ReplyLost, AuthRefused,
           RefreshRejected, Crash, RequestFails, UserTurn, StartSync, Reconnect, Foreign,
           ForeignChange, DeadlinePasses, remoteVars, drainVars
<1> QED
  BY <1>1, BaseCorrect, OrderlyIsSpec, PTL DEF Spec, NoSilentOverwrite, OverwriteIsKnown
=============================================================================
