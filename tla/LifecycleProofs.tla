--------------------------- MODULE LifecycleProofs ---------------------------
(***************************************************************************)
(* Proofs about ElectionLifecycle for any number of elections and of PATCH *)
(* requests, overlapping or not.                                           *)
(***************************************************************************)
EXTENDS ElectionLifecycle, TLAPS

\* Where a handler is in its chain of calls tells what it read.
RequestsAreKnown ==
    \A p \in Patches :
        /\ patchPc[p] # "idle" => patch[p] \in PatchRequest
        /\ patchPc[p] \in {"update", "event"} => LegalStep(patch[p].from, patch[p].to)

LifecycleInv == LifecycleTypeOK /\ RequestsAreKnown

LEMMA LegalStepsAreForward ==
    ASSUME NEW from, NEW to, LegalStep(from, to)
    PROVE  from \in Statuses /\ to \in Statuses /\ to # "setup"
BY DEF LegalStep, NEXT_STATUS, Statuses

LEMMA LifecycleInitHolds == LifecycleInit => LifecycleInv
BY DEF LifecycleInit, LifecycleInv, LifecycleTypeOK, RequestsAreKnown, Opening, Statuses

LEMMA PatchReadKeepsInv ==
    ASSUME LifecycleInv, NEW p \in Patches, NEW e \in Elections, NEW to \in Statuses,
           PatchRead(p, e, to)
    PROVE  LifecycleInv'
<1> DEFINE request == [election |-> e, from |-> status[e], to |-> to]
<1>1. request \in PatchRequest
  BY DEF LifecycleInv, LifecycleTypeOK, PatchRequest
<1>2. patch' = [patch EXCEPT ![p] = request] /\ UNCHANGED <<status, events, audit>>
  BY DEF PatchRead
<1>3. /\ patchPc' \in [Patches -> {"idle", "update", "event", "audit", "done"}]
      /\ \A q \in Patches \ {p} : patchPc'[q] = patchPc[q]
      /\ patchPc'[p] \in {"update", "event"} => LegalStep(status[e], to)
      /\ patchAnswer' \in [Patches -> {"none", "unknown", "ok", "rejected", "error"}]
  BY DEF PatchRead, PatchAnswers, PatchAwaits, LifecycleInv, LifecycleTypeOK
<1>4. LifecycleTypeOK'
  BY <1>1, <1>2, <1>3 DEF LifecycleInv, LifecycleTypeOK
<1>5. RequestsAreKnown'
  <2> SUFFICES ASSUME NEW q \in Patches
               PROVE /\ patchPc'[q] # "idle" => patch'[q] \in PatchRequest
                     /\ patchPc'[q] \in {"update", "event"} =>
                            LegalStep(patch'[q].from, patch'[q].to)
    BY DEF RequestsAreKnown, PatchRequest, LegalStep
  <2>1. CASE q = p
    BY <1>1, <1>2, <1>3, <2>1 DEF LifecycleInv, LifecycleTypeOK
  <2>2. CASE q # p
    BY <1>2, <1>3, <2>2 DEF LifecycleInv, LifecycleTypeOK, RequestsAreKnown
  <2> QED BY <2>1, <2>2
<1> QED BY <1>4, <1>5 DEF LifecycleInv

LEMMA LifecycleStepKeepsInv ==
    ASSUME LifecycleInv, [LifecycleNext]_lifecycleVars
    PROVE  LifecycleInv'
<1>1. ASSUME NEW e \in Elections, CreateElection(e)
      PROVE  LifecycleInv'
  <2>1. LifecycleTypeOK'
    BY <1>1 DEF CreateElection, Exists, LifecycleInv, LifecycleTypeOK, Statuses
  <2>2. RequestsAreKnown'
    BY <1>1 DEF CreateElection, LifecycleInv, RequestsAreKnown, PatchRequest, LegalStep
  <2> QED BY <2>1, <2>2 DEF LifecycleInv
<1>2. ASSUME NEW p \in Patches, NEW e \in Elections, NEW to \in Statuses, PatchRead(p, e, to)
      PROVE  LifecycleInv'
  BY <1>2, PatchReadKeepsInv
<1>3. ASSUME NEW p \in Patches, PatchUpdate(p)
      PROVE  LifecycleInv'
  <2>1. patch[p] \in PatchRequest /\ LegalStep(patch[p].from, patch[p].to)
    BY <1>3 DEF PatchUpdate, LifecycleInv, RequestsAreKnown
  <2>2. LifecycleTypeOK'
    BY <1>3, <2>1 DEF PatchUpdate, PatchAwaits, PatchRequest, LifecycleInv, LifecycleTypeOK
  <2>3. RequestsAreKnown'
    BY <1>3, <2>1 DEF PatchUpdate, PatchAwaits, PatchRequest, LegalStep,
       LifecycleInv, LifecycleTypeOK, RequestsAreKnown
  <2> QED BY <2>2, <2>3 DEF LifecycleInv
<1>4. ASSUME NEW p \in Patches, PatchEvent(p)
      PROVE  LifecycleInv'
  <2>1. patch[p] \in PatchRequest /\ LegalStep(patch[p].from, patch[p].to)
    BY <1>4 DEF PatchEvent, LifecycleInv, RequestsAreKnown
  <2>2. StatusEvent(p) \in [patch : Patches, election : Elections, from : Statuses, to : Statuses]
    BY <2>1, LegalStepsAreForward DEF StatusEvent, PatchRequest
  <2>3. LifecycleTypeOK'
    BY <1>4, <2>2 DEF PatchEvent, PatchAwaits, LifecycleInv, LifecycleTypeOK
  <2>4. RequestsAreKnown'
    BY <1>4, <2>1 DEF PatchEvent, PatchAwaits, PatchRequest, LegalStep,
       LifecycleInv, LifecycleTypeOK, RequestsAreKnown
  <2> QED BY <2>3, <2>4 DEF LifecycleInv
<1>5. ASSUME NEW p \in Patches, PatchAudit(p) \/ PatchAuditUnanswered(p)
      PROVE  LifecycleInv'
  <2>1. Verdict(p) \in {"ok", "rejected"}
    BY DEF Verdict
  <2>2. LifecycleTypeOK'
    BY <1>5, <2>1 DEF PatchAudit, PatchAuditUnanswered, PatchAnswers, LifecycleInv, LifecycleTypeOK
  <2>3. RequestsAreKnown'
    BY <1>5 DEF PatchAudit, PatchAuditUnanswered, PatchAnswers, PatchRequest, LegalStep,
       LifecycleInv, LifecycleTypeOK, RequestsAreKnown
  <2> QED BY <2>2, <2>3 DEF LifecycleInv
<1>6. ASSUME NEW p \in Patches, PatchFails(p)
      PROVE  LifecycleInv'
  <2>1. LifecycleTypeOK'
    BY <1>6 DEF PatchFails, PatchAnswers, LifecycleInv, LifecycleTypeOK
  <2>2. RequestsAreKnown'
    BY <1>6 DEF PatchFails, PatchInFlight, PatchAnswers, PatchRequest, LegalStep,
       LifecycleInv, LifecycleTypeOK, RequestsAreKnown
  <2> QED BY <2>1, <2>2 DEF LifecycleInv
<1>7. ASSUME UNCHANGED lifecycleVars
      PROVE  LifecycleInv'
  BY <1>7 DEF lifecycleVars, LifecycleInv, LifecycleTypeOK, RequestsAreKnown, PatchRequest, LegalStep
<1> QED
  BY <1>1, <1>2, <1>3, <1>4, <1>5, <1>6, <1>7 DEF LifecycleNext, PatchStep

\* Type correctness of the election window: every status, event and audit row the
\* admin handlers of elections.ts can write is one the schema's CHECKs accept.
THEOREM LifecycleTypes == LifecycleSpec => []LifecycleTypeOK
<1>1. LifecycleSpec => []LifecycleInv
  BY LifecycleInitHolds, LifecycleStepKeepsInv, PTL DEF LifecycleSpec
<1>2. LifecycleInv => LifecycleTypeOK
  BY DEF LifecycleInv
<1> QED BY <1>1, <1>2, PTL

-----------------------------------------------------------------------------
\* The acknowledged transition: AckedTransitionIsLogged is not inductive, since what
\* is true at the answer was made true two calls before it.
AuditedAfterEvent ==
    \A p \in Patches :
        /\ (patchPc[p] = "audit" /\ LegalStep(patch[p].from, patch[p].to)) =>
               StatusEvent(p) \in events
        /\ patchAnswer[p] = "ok" =>
               /\ patchPc[p] = "done"
               /\ Verdict(p) = "ok"
               /\ [action |-> "ok", subject |-> p] \in audit
               /\ LegalStep(patch[p].from, patch[p].to) => StatusEvent(p) \in events

LEMMA AuditedAfterEventInit == LifecycleInit => AuditedAfterEvent
BY DEF LifecycleInit, AuditedAfterEvent

\* What a read leaves behind: a request that is answered, about to update, or about to be
\* logged as rejected or repeated.
LEMMA ReadShape ==
    ASSUME LifecycleTypeOK, NEW p \in Patches, NEW e \in Elections, NEW to \in Statuses,
           PatchRead(p, e, to)
    PROVE  /\ patchPc[p] = "idle" /\ UNCHANGED <<status, events, audit>>
           /\ patch'[p] = [election |-> e, from |-> status[e], to |-> to]
           /\ \A q \in Patches \ {p} : /\ patch'[q] = patch[q] /\ patchPc'[q] = patchPc[q]
                                       /\ patchAnswer'[q] = patchAnswer[q]
           /\ patchAnswer'[p] \in {patchAnswer[p], "unknown"}
           /\ patchPc'[p] \in {"done", "update", "audit"}
           /\ patchPc'[p] = "audit" => ~LegalStep(status[e], to)
<1>1. /\ patch \in [Patches -> PatchRequest \cup {NoRequest}]
      /\ DOMAIN patchPc = Patches /\ DOMAIN patchAnswer = Patches
      /\ patchPc = [q \in Patches |-> patchPc[q]]
      /\ patchAnswer = [q \in Patches |-> patchAnswer[q]]
  BY DEF LifecycleTypeOK
<1>2. /\ patchPc[p] = "idle" /\ UNCHANGED <<status, events, audit>>
      /\ patch' = [patch EXCEPT ![p] = [election |-> e, from |-> status[e], to |-> to]]
  BY DEF PatchRead
<1>3. CASE PatchAnswers(p, "unknown")
  BY <1>1, <1>2, <1>3 DEF PatchAnswers
<1>4. CASE PatchAwaits(p, "update")
  BY <1>1, <1>2, <1>4 DEF PatchAwaits
<1>5. CASE ~LegalStep(status[e], to) /\ PatchAwaits(p, "audit")
  BY <1>1, <1>2, <1>5 DEF PatchAwaits
<1> QED BY <1>3, <1>4, <1>5 DEF PatchRead

LEMMA AuditedAfterEventStep ==
    ASSUME LifecycleInv, AuditedAfterEvent, [LifecycleNext]_lifecycleVars
    PROVE  AuditedAfterEvent'
<1> USE DEF AuditedAfterEvent, LifecycleInv, LifecycleTypeOK, StatusEvent, LegalStep, Verdict,
        Idempotent
<1>1. ASSUME NEW e \in Elections, CreateElection(e)
      PROVE  AuditedAfterEvent'
  BY <1>1 DEF CreateElection
<1>2. ASSUME NEW p \in Patches, NEW e \in Elections, NEW to \in Statuses, PatchRead(p, e, to)
      PROVE  AuditedAfterEvent'
  <2>1. /\ patchPc[p] = "idle" /\ UNCHANGED <<status, events, audit>>
        /\ patch'[p] = [election |-> e, from |-> status[e], to |-> to]
        /\ \A q \in Patches \ {p} :
               patch'[q] = patch[q] /\ patchPc'[q] = patchPc[q] /\ patchAnswer'[q] = patchAnswer[q]
        /\ patchAnswer'[p] \in {patchAnswer[p], "unknown"}
        /\ patchPc'[p] = "audit" => ~LegalStep(status[e], to)
    BY <1>2, ReadShape, Zenon
  <2>2. patchAnswer'[p] # "ok"
    BY <2>1
  <2>3. ASSUME NEW q \in Patches
        PROVE  /\ (patchPc'[q] = "audit" /\ LegalStep(patch'[q].from, patch'[q].to)) =>
                       StatusEvent(q)' \in events'
               /\ patchAnswer'[q] = "ok" =>
                      /\ patchPc'[q] = "done"
                      /\ Verdict(q)' = "ok"
                      /\ [action |-> "ok", subject |-> q] \in audit'
                      /\ LegalStep(patch'[q].from, patch'[q].to) => StatusEvent(q)' \in events'
    <3>1. CASE q = p
      BY <2>1, <2>2, <3>1
    <3>2. CASE q # p
      BY <2>1, <3>2
    <3> QED BY <3>1, <3>2
  <2> QED BY <2>3
<1>3. ASSUME NEW p \in Patches, PatchUpdate(p)
      PROVE  AuditedAfterEvent'
  BY <1>3 DEF PatchUpdate, PatchAwaits
<1>4. ASSUME NEW p \in Patches, PatchEvent(p)
      PROVE  AuditedAfterEvent'
  BY <1>4 DEF PatchEvent, PatchAwaits
<1>5. ASSUME NEW p \in Patches, PatchAudit(p)
      PROVE  AuditedAfterEvent'
  BY <1>5 DEF PatchAudit, PatchAnswers
<1>6. ASSUME NEW p \in Patches, PatchAuditUnanswered(p) \/ PatchFails(p)
      PROVE  AuditedAfterEvent'
  <2>1. CASE PatchAuditUnanswered(p)
    BY <2>1 DEF PatchAuditUnanswered, PatchAnswers
  <2>2. CASE PatchFails(p)
    BY <2>2 DEF PatchFails, PatchAnswers
  <2> QED BY <1>6, <2>1, <2>2
<1>7. ASSUME UNCHANGED lifecycleVars
      PROVE  AuditedAfterEvent'
  BY <1>7 DEF lifecycleVars
<1> QED
  BY <1>1, <1>2, <1>3, <1>4, <1>5, <1>6, <1>7 DEF LifecycleNext, PatchStep

LEMMA AuditedAfterEventSuffices == AuditedAfterEvent => AckedTransitionIsLogged
BY DEF AuditedAfterEvent, AckedTransitionIsLogged, Verdict

\* Whatever calls fail and however requests overlap, a 200 that is not the idempotent
\* closed -> closed is never sent for a transition missing from election_status_events
\* or admin_actions (elections.ts PATCH, recordAdminAction).
THEOREM AckedTransitionsAreLogged == LifecycleSpec => []AckedTransitionIsLogged
<1>1. LifecycleSpec => [](LifecycleInv /\ AuditedAfterEvent)
  BY LifecycleInitHolds, LifecycleStepKeepsInv, AuditedAfterEventInit, AuditedAfterEventStep,
     PTL DEF LifecycleSpec
<1> QED BY <1>1, AuditedAfterEventSuffices, PTL
-----------------------------------------------------------------------------
\* The unexplained status: the request that moved a row must stay findable, so a
\* request that has not arrived holds nothing and one that has is never replaced.
IdleHoldsNothing == \A p \in Patches : patchPc[p] = "idle" => patch[p] = NoRequest

Explains(p, e) ==
    /\ patch[p] # NoRequest
    /\ patch[p].election = e /\ patch[p].to = status[e]
    /\ \/ patchPc[p] = "event"
       \/ StatusEvent(p) \in events
       \/ patchAnswer[p] = "error" /\ patchPc[p] = "done"

MovesAreExplained ==
    \A e \in Elections : status[e] \notin {"absent", Opening(e)} =>
        \E p \in Patches : Explains(p, e)

\* No POST can create what the schema has inserted.
SeededStand == \A e \in Seeded : Exists(e)

ExplainedInv == LifecycleInv /\ IdleHoldsNothing /\ SeededStand /\ MovesAreExplained

LEMMA SeededStandStep ==
    ASSUME LifecycleInv, SeededStand, [LifecycleNext]_lifecycleVars
    PROVE  SeededStand'
<1> USE DEF SeededStand, Exists
<1>1. ASSUME NEW p \in Patches, PatchUpdate(p)
      PROVE  SeededStand'
  <2>1. patch[p].to \in Statuses
    BY <1>1 DEF PatchUpdate, LifecycleInv, RequestsAreKnown, PatchRequest
  <2>2. \A e \in Seeded : status'[e] \in {status[e], patch[p].to}
    BY <1>1, SeededAreElections DEF PatchUpdate, LifecycleInv, LifecycleTypeOK
  <2> QED BY <2>1, <2>2 DEF Statuses
<1>2. ASSUME NEW e \in Elections, CreateElection(e)
      PROVE  SeededStand'
  BY <1>2, SeededAreElections DEF CreateElection, LifecycleInv, LifecycleTypeOK
<1>3. CASE UNCHANGED status
  BY <1>3
<1> QED
  BY <1>1, <1>2, <1>3 DEF LifecycleNext, lifecycleVars, PatchRead, PatchStep, PatchEvent, PatchAudit,
     PatchAuditUnanswered, PatchFails

LEMMA IdleHoldsNothingStep ==
    ASSUME LifecycleInv, IdleHoldsNothing, [LifecycleNext]_lifecycleVars
    PROVE  IdleHoldsNothing'
BY DEF LifecycleInv, LifecycleTypeOK, IdleHoldsNothing, LifecycleNext, lifecycleVars, CreateElection,
   PatchRead, PatchStep, PatchUpdate, PatchEvent, PatchAudit, PatchAuditUnanswered, PatchFails,
   PatchAnswers, PatchAwaits

\* An explanation survives every step that leaves the status of its election alone.
LEMMA ExplanationStays ==
    ASSUME LifecycleInv, IdleHoldsNothing, [LifecycleNext]_lifecycleVars,
           NEW p \in Patches, NEW e \in Elections, Explains(p, e), status'[e] = status[e]
    PROVE  Explains(p, e)'
<1> USE DEF LifecycleInv, LifecycleTypeOK, Explains, StatusEvent
<1>1. patchPc[p] # "idle"
  BY DEF IdleHoldsNothing
<1>2. patch'[p] = patch[p]
  BY <1>1 DEF LifecycleNext, lifecycleVars, CreateElection, PatchRead, PatchStep, PatchUpdate,
     PatchEvent, PatchAudit, PatchAuditUnanswered, PatchFails
<1>3. events \subseteq events'
  BY DEF LifecycleNext, lifecycleVars, CreateElection, PatchRead, PatchStep, PatchUpdate,
     PatchEvent, PatchAudit, PatchAuditUnanswered, PatchFails
<1>4. CASE patchPc[p] = "event"
  <2>1. \/ patchPc'[p] = "event"
        \/ PatchEvent(p)
        \/ PatchFails(p)
    BY <1>4 DEF LifecycleNext, lifecycleVars, CreateElection, PatchRead, PatchStep, PatchUpdate,
       PatchEvent, PatchAudit, PatchAuditUnanswered, PatchFails, PatchAnswers, PatchAwaits
  <2> QED BY <1>2, <2>1 DEF PatchEvent, PatchFails, PatchAnswers
<1>5. CASE StatusEvent(p) \in events
  BY <1>2, <1>3, <1>5
<1>6. CASE patchAnswer[p] = "error" /\ patchPc[p] = "done"
  <2>1. patchAnswer'[p] = "error" /\ patchPc'[p] = "done"
    BY <1>6 DEF LifecycleNext, lifecycleVars, CreateElection, PatchRead, PatchStep, PatchUpdate,
       PatchEvent, PatchAudit, PatchAuditUnanswered, PatchFails, PatchInFlight, PatchAnswers,
       PatchAwaits
  <2> QED BY <1>2, <2>1
<1> QED BY <1>4, <1>5, <1>6

LEMMA ExplainedStep ==
    ASSUME ExplainedInv, [LifecycleNext]_lifecycleVars
    PROVE  ExplainedInv'
<1> USE DEF ExplainedInv
<1>1. LifecycleInv' /\ IdleHoldsNothing' /\ SeededStand'
  BY LifecycleStepKeepsInv, IdleHoldsNothingStep, SeededStandStep
<1>2. ASSUME NEW e \in Elections, status'[e] \notin {"absent", Opening(e)}
      PROVE  \E p \in Patches : Explains(p, e)'
  <2>1. CASE status'[e] = status[e]
    <3>1. PICK p \in Patches : Explains(p, e)
      BY <1>2, <2>1 DEF MovesAreExplained
    <3> QED BY <2>1, <3>1, ExplanationStays
  <2>2. CASE status'[e] # status[e]
    <3>0. ~CreateElection(e)
      BY <1>2 DEF CreateElection, Opening, SeededStand, LifecycleInv, LifecycleTypeOK
    <3>1. PICK p \in Patches : PatchUpdate(p)
      BY <2>2, <3>0 DEF LifecycleNext, lifecycleVars, CreateElection, PatchRead, PatchStep,
         PatchEvent, PatchAudit, PatchAuditUnanswered, PatchFails, LifecycleInv, LifecycleTypeOK
    <3>2. patch[p] \in PatchRequest
      BY <3>1 DEF PatchUpdate, LifecycleInv, RequestsAreKnown
    <3>3. patch[p].election = e /\ status'[e] = patch[p].to
      BY <2>2, <3>1, <3>2 DEF PatchUpdate, PatchRequest, LifecycleInv, LifecycleTypeOK
    <3>4. patch'[p] = patch[p] /\ patchPc'[p] = "event"
      BY <3>1 DEF PatchUpdate, PatchAwaits, LifecycleInv, LifecycleTypeOK
    <3>5. Explains(p, e)'
      BY <3>2, <3>3, <3>4, NoRequestIsNoPatch DEF Explains
    <3> QED BY <3>5
  <2> QED BY <2>1, <2>2
<1> QED BY <1>1, <1>2 DEF MovesAreExplained

\* Even when overlapping requests overwrite each other's transitions, the status a row
\* holds is one some PATCH logged, is about to log, or failed to log and answered 500.
THEOREM StatusesAreExplained == LifecycleSpec => []StatusIsExplained
<1>1. LifecycleInit => ExplainedInv
  BY LifecycleInitHolds, SeededAreElections
  DEF LifecycleInit, ExplainedInv, IdleHoldsNothing, SeededStand, Exists, Opening, MovesAreExplained
<1>2. LifecycleSpec => []ExplainedInv
  BY <1>1, ExplainedStep, PTL DEF LifecycleSpec
<1>3. ExplainedInv => StatusIsExplained
  BY DEF ExplainedInv, MovesAreExplained, Explains, StatusIsExplained
<1> QED BY <1>2, <1>3, PTL

-----------------------------------------------------------------------------
\* The forward-only window: true of administrators who wait for their answers. The
\* update does not name the status it replaces, so it is only as fresh as the read.
ReadIsFresh ==
    /\ \A p, q \in Patches : (PatchInFlight(p) /\ PatchInFlight(q)) => p = q
    /\ \A p \in Patches : patchPc[p] = "update" => status[patch[p].election] = patch[p].from

SerialInv == SerialAdmin => ReadIsFresh

LEMMA SerialStep ==
    ASSUME LifecycleInv, SerialInv, [LifecycleNext]_lifecycleVars
    PROVE  SerialInv'
<1> SUFFICES ASSUME SerialAdmin, ReadIsFresh
             PROVE  ReadIsFresh'
  BY DEF SerialInv
<1> USE DEF LifecycleInv, LifecycleTypeOK, ReadIsFresh, PatchInFlight
<1>1. ASSUME NEW e \in Elections, CreateElection(e)
      PROVE  ReadIsFresh'
  BY <1>1, LegalStepsAreForward DEF CreateElection, Exists, RequestsAreKnown, Statuses
<1>2. ASSUME NEW p \in Patches, NEW e \in Elections, NEW to \in Statuses, PatchRead(p, e, to)
      PROVE  ReadIsFresh'
  BY <1>2 DEF PatchRead, PatchAnswers, PatchAwaits
<1>3. ASSUME NEW p \in Patches, PatchUpdate(p)
      PROVE  ReadIsFresh'
  BY <1>3 DEF PatchUpdate, PatchAwaits
<1>4. ASSUME NEW p \in Patches,
             PatchEvent(p) \/ PatchAudit(p) \/ PatchAuditUnanswered(p) \/ PatchFails(p)
      PROVE  ReadIsFresh'
  BY <1>4 DEF PatchEvent, PatchAudit, PatchAuditUnanswered, PatchFails, PatchAnswers, PatchAwaits
<1>5. ASSUME UNCHANGED lifecycleVars
      PROVE  ReadIsFresh'
  BY <1>5 DEF lifecycleVars
<1> QED
  BY <1>1, <1>2, <1>3, <1>4, <1>5 DEF LifecycleNext, PatchStep

\* With one PATCH at a time the status of an election only moves one step forward,
\* in spite of every failure between its calls (T13, "forward-only admin transition").
THEOREM SerialWindowMovesForward == SerialAdmin => (LifecycleSpec => StatusMovesForward)
<1> SUFFICES ASSUME SerialAdmin
             PROVE  LifecycleSpec => StatusMovesForward
  OBVIOUS
<1>1. LifecycleInit => SerialInv
  BY DEF LifecycleInit, SerialInv, ReadIsFresh, PatchInFlight
<1>2. LifecycleSpec => [](LifecycleInv /\ SerialInv)
  BY <1>1, LifecycleInitHolds, LifecycleStepKeepsInv, SerialStep, PTL DEF LifecycleSpec
<1>3. ASSUME LifecycleInv, SerialInv, [LifecycleNext]_lifecycleVars
      PROVE  [\A e \in Elections : status'[e] # status[e] =>
                 status[e] = "absent" \/ <<status[e], status'[e]>> \in NEXT_STATUS]_status
  <2> SUFFICES ASSUME NEW e \in Elections, status'[e] # status[e]
               PROVE  status[e] = "absent" \/ <<status[e], status'[e]>> \in NEXT_STATUS
    OBVIOUS
  <2>1. CASE CreateElection(e)
    BY <2>1 DEF CreateElection, Exists
  <2>2. CASE \E p \in Patches : PatchUpdate(p) /\ patch[p].election = e
    BY <1>3, <2>2 DEF PatchUpdate, SerialInv, ReadIsFresh, LifecycleInv, LifecycleTypeOK,
       RequestsAreKnown, LegalStep
  <2>3. CreateElection(e) \/ \E p \in Patches : PatchUpdate(p) /\ patch[p].election = e
    BY <1>3 DEF LifecycleNext, lifecycleVars, CreateElection, PatchRead, PatchStep, PatchUpdate,
       PatchEvent, PatchAudit, PatchAuditUnanswered, PatchFails, LifecycleInv, LifecycleTypeOK
  <2> QED BY <2>1, <2>2, <2>3
<1> QED BY <1>2, <1>3, PTL DEF LifecycleSpec, StatusMovesForward

-----------------------------------------------------------------------------
\* Rebuilding the window from the log: the row only moves on, so whatever an event row
\* was moved from, or is about to be logged as moved from, is behind the row for good.
Behind == {<<"setup", "voting">>, <<"setup", "tallying">>, <<"setup", "closed">>,
           <<"voting", "tallying">>, <<"voting", "closed">>, <<"tallying", "closed">>}

LogIsBehind ==
    /\ \A ev \in events : <<ev.from, status[ev.election]>> \in Behind
    /\ \A p \in Patches :
           patchPc[p] = "event" => <<patch[p].from, status[patch[p].election]>> \in Behind

LogInv == SerialAdmin => LogIsBehind

LEMMA LegalStepsStayBehind ==
    ASSUME NEW from, NEW to, LegalStep(from, to)
    PROVE  <<from, to>> \in Behind /\ \A s : <<s, from>> \in Behind => <<s, to>> \in Behind
BY DEF LegalStep, NEXT_STATUS, Behind

LEMMA LogStep ==
    ASSUME LifecycleInv, SerialInv, LogInv, [LifecycleNext]_lifecycleVars
    PROVE  LogInv'
<1> SUFFICES ASSUME SerialAdmin, ReadIsFresh, LogIsBehind
             PROVE  LogIsBehind'
  BY DEF LogInv, SerialInv
<1>1. ASSUME NEW e \in Elections, CreateElection(e)
      PROVE  LogIsBehind'
  <2>1. \A s : <<s, status[e]>> \notin Behind
    BY <1>1 DEF CreateElection, Exists, Behind
  <2>2. \A s, d : <<s, status[d]>> \in Behind => status'[d] = status[d] \/ d \notin Elections
    BY <1>1, <2>1 DEF CreateElection, LifecycleInv, LifecycleTypeOK
  <2>3. \A ev \in events : ev.election \in Elections
    BY DEF LifecycleInv, LifecycleTypeOK
  <2>4. \A q \in Patches : patchPc[q] = "event" => patch[q].election \in Elections
    BY DEF LifecycleInv, RequestsAreKnown, PatchRequest
  <2> QED
    BY <1>1, <2>2, <2>3, <2>4 DEF CreateElection, LogIsBehind
<1>2. ASSUME NEW p \in Patches, NEW e \in Elections, NEW to \in Statuses, PatchRead(p, e, to)
      PROVE  LogIsBehind'
  <2>1. /\ status' = status /\ events' = events /\ patchPc'[p] # "event"
        /\ \A q \in Patches \ {p} : patch'[q] = patch[q] /\ patchPc'[q] = patchPc[q]
    BY <1>2, ReadShape DEF LifecycleInv
  <2> QED BY <2>1 DEF LogIsBehind
<1>3. ASSUME NEW p \in Patches, PatchUpdate(p)
      PROVE  LogIsBehind'
  <2>1. /\ patch[p] \in PatchRequest /\ LegalStep(patch[p].from, patch[p].to)
        /\ status[patch[p].election] = patch[p].from
    BY <1>3 DEF PatchUpdate, LifecycleInv, RequestsAreKnown, ReadIsFresh
  <2>2. /\ status' = [status EXCEPT ![patch[p].election] = patch[p].to]
        /\ events' = events /\ patch' = patch /\ patch[p].election \in Elections
    BY <1>3, <2>1 DEF PatchUpdate, PatchRequest
  <2>3. \A s, e : <<s, status[e]>> \in Behind /\ e \in Elections => <<s, status'[e]>> \in Behind
    BY <2>1, <2>2, LegalStepsStayBehind DEF LifecycleInv, LifecycleTypeOK
  <2>4. \A ev \in events' : <<ev.from, status'[ev.election]>> \in Behind
    BY <2>2, <2>3 DEF LogIsBehind, LifecycleInv, LifecycleTypeOK
  <2>5. ASSUME NEW q \in Patches, patchPc'[q] = "event"
        PROVE  <<patch'[q].from, status'[patch'[q].election]>> \in Behind
    <3>1. CASE q = p
      BY <2>1, <2>2, <3>1, LegalStepsStayBehind DEF LifecycleInv, LifecycleTypeOK
    <3>2. CASE q # p
      BY <1>3, <2>5, <3>2 DEF PatchUpdate, PatchAwaits, PatchInFlight, ReadIsFresh, LifecycleInv,
         LifecycleTypeOK
    <3> QED BY <3>1, <3>2
  <2> QED BY <2>4, <2>5 DEF LogIsBehind
<1>4. ASSUME NEW p \in Patches, PatchEvent(p)
      PROVE  LogIsBehind'
  BY <1>4 DEF PatchEvent, PatchAwaits, StatusEvent, LogIsBehind, LifecycleInv, LifecycleTypeOK
<1>5. ASSUME NEW p \in Patches, PatchAudit(p) \/ PatchAuditUnanswered(p) \/ PatchFails(p)
      PROVE  LogIsBehind'
  BY <1>5 DEF PatchAudit, PatchAuditUnanswered, PatchFails, PatchAnswers, LogIsBehind,
     LifecycleInv, LifecycleTypeOK
<1>6. ASSUME UNCHANGED lifecycleVars
      PROVE  LogIsBehind'
  BY <1>6 DEF lifecycleVars, LogIsBehind
<1> QED
  BY <1>1, <1>2, <1>3, <1>4, <1>5, <1>6 DEF LifecycleNext, PatchStep

\* With one PATCH at a time, the event rows of an election whose requests were all answered
\* without an error reconstruct its status: a transition into it is logged and none out of
\* it (election_status_events, schema.sql), in spite of every failure between the calls.
THEOREM SerialLogEndsAtStatus == SerialAdmin => (LifecycleSpec => []EventLogEndsAtStatus)
<1> SUFFICES ASSUME SerialAdmin
             PROVE  LifecycleSpec => []EventLogEndsAtStatus
  OBVIOUS
<1>1. LifecycleInit => ExplainedInv /\ SerialInv /\ LogInv
  BY LifecycleInitHolds, SeededAreElections
  DEF LifecycleInit, ExplainedInv, IdleHoldsNothing, SeededStand, Exists, Opening, MovesAreExplained,
     SerialInv, ReadIsFresh, PatchInFlight, LogInv, LogIsBehind
<1>2. ExplainedInv /\ SerialInv /\ LogInv /\ [LifecycleNext]_lifecycleVars
          => (ExplainedInv /\ SerialInv /\ LogInv)'
  BY ExplainedStep, SerialStep, LogStep DEF ExplainedInv
<1>3. LifecycleSpec => [](ExplainedInv /\ SerialInv /\ LogInv)
  BY <1>1, <1>2, PTL DEF LifecycleSpec
<1>4. ASSUME ExplainedInv, LogInv
      PROVE  EventLogEndsAtStatus
  <2> SUFFICES ASSUME NEW e \in Elections, Exists(e),
                      \A p \in Patches : (patch[p] # NoRequest /\ patch[p].election = e) =>
                          patchPc[p] = "done" /\ patchAnswer[p] # "error"
               PROVE  /\ \A ev \in {ev \in events : ev.election = e} : ev.from # status[e]
                      /\ status[e] # Opening(e) =>
                             \E ev \in {ev \in events : ev.election = e} : ev.to = status[e]
    BY DEF EventLogEndsAtStatus
  <2>1. ASSUME NEW ev \in events, ev.election = e
        PROVE  ev.from # status[e]
    BY <1>4, <2>1 DEF LogInv, LogIsBehind, Behind
  <2>2. ASSUME status[e] # Opening(e)
        PROVE  \E ev \in events : ev.election = e /\ ev.to = status[e]
    <3>1. PICK p \in Patches : Explains(p, e)
      BY <1>4, <2>2 DEF ExplainedInv, MovesAreExplained, Exists
    <3>2. StatusEvent(p) \in events
      BY <3>1 DEF Explains
    <3> QED BY <3>1, <3>2 DEF Explains, StatusEvent
  <2> QED BY <2>1, <2>2
<1> QED BY <1>3, <1>4, PTL
=============================================================================
