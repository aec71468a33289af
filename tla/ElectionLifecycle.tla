-------------------------- MODULE ElectionLifecycle --------------------------
(***************************************************************************)
(* The election window: backend/src/services/electionLifecycle.ts and the  *)
(* two admin handlers of backend/src/routes/elections.ts that write it.    *)
(*                                                                         *)
(* PATCH /elections/:id/status awaits four database calls (read the row,   *)
(* update the row, insert the event, insert the audit row) with no         *)
(* transaction around them, so each call is a step of its own and the      *)
(* steps of two requests interleave.                                       *)
(***************************************************************************)

CONSTANTS
    Elections,      \* election ids
    Seeded,         \* the elections the schema itself inserts
    Patches,        \* PATCH requests an administrator may send
    NoRequest,      \* the contents of a request that has not arrived
    SerialAdmin     \* TRUE when a PATCH is sent only after the last was answered

ASSUME SeededAreElections == Seeded \subseteq Elections
ASSUME SerialAdminIsBoolean == SerialAdmin \in BOOLEAN

VARIABLES
    status,         \* elections.status, or "absent" before the row exists
    events,         \* election_status_events rows
    audit,          \* admin_actions rows
    patch,          \* the body of each PATCH and the status its first read returned
    patchPc,        \* the database call each PATCH handler makes next
    patchAnswer     \* what the administrator was told

lifecycleVars == <<status, events, audit, patch, patchPc, patchAnswer>>

-----------------------------------------------------------------------------
Statuses == {"setup", "voting", "tallying", "closed"}

PatchRequest == [election : Elections, from : Statuses \cup {"absent"}, to : Statuses]

ASSUME NoRequestIsNoPatch == NoRequest \notin PatchRequest

NEXT_STATUS == {<<"setup", "voting">>, <<"voting", "tallying">>, <<"tallying", "closed">>}

\* Broken: the gate lets ballots in as long as the election is not closed.
IsAcceptingVotesUntilClosed(s) == s \in {"voting", "tallying"}

IsAcceptingVotes(s) == s = "voting"

\* Broken: an administrator may take an opening back.
LegalStepBackwards(from, to) ==
    <<from, to>> \in NEXT_STATUS \cup {<<"voting", "setup">>}

LegalStep(from, to) == <<from, to>> \in NEXT_STATUS

Idempotent(from, to) == from = "closed" /\ to = "closed"

Exists(e) == status[e] # "absent"

\* The status an election has before any PATCH: the schema seeds its election in
\* 'tallying' and writes no event row for it; POST /elections creates one in 'setup'.
Opening(e) == IF e \in Seeded THEN "tallying" ELSE "setup"

PatchInFlight(p) == patchPc[p] \in {"update", "event", "audit"}

-----------------------------------------------------------------------------
\* POST /elections; a second one for the same id gets 409 and changes nothing.
\* The row stands even when its audit row cannot be written (answer 500).
CreateElection(e) ==
    /\ ~Exists(e)
    /\ status' = [status EXCEPT ![e] = "setup"]
    /\ audit' \in {audit, audit \cup {[action |-> "create", subject |-> e]}}
    /\ UNCHANGED <<events, patch, patchPc, patchAnswer>>

PatchAnswers(p, a) ==
    /\ patchPc' = [patchPc EXCEPT ![p] = "done"]
    /\ patchAnswer' = [patchAnswer EXCEPT ![p] = a]

PatchAwaits(p, call) ==
    /\ patchPc' = [patchPc EXCEPT ![p] = call]
    /\ UNCHANGED patchAnswer

\* getElection and the checks made on the row it returned.
PatchRead(p, e, to) ==
    /\ patchPc[p] = "idle"
    /\ SerialAdmin => \A q \in Patches : ~PatchInFlight(q)
    /\ patch' = [patch EXCEPT ![p] = [election |-> e, from |-> status[e], to |-> to]]
    /\ \/ ~Exists(e) /\ PatchAnswers(p, "unknown")
       \/ Exists(e) /\ LegalStep(status[e], to) /\ PatchAwaits(p, "update")
       \/ Exists(e) /\ ~LegalStep(status[e], to) /\ PatchAwaits(p, "audit")
    /\ UNCHANGED <<status, events, audit>>

\* Broken: the handler updates the row and goes straight to the audit record.
PatchUpdateOnly(p) ==
    /\ patchPc[p] = "update"
    /\ status' = [status EXCEPT ![patch[p].election] = patch[p].to]
    /\ PatchAwaits(p, "audit")
    /\ UNCHANGED <<events, audit, patch>>

\* The update names the election only: it does not require the status just read.
PatchUpdate(p) ==
    /\ patchPc[p] = "update"
    /\ status' = [status EXCEPT ![patch[p].election] = patch[p].to]
    /\ PatchAwaits(p, "event")
    /\ UNCHANGED <<events, audit, patch>>

\* Broken: the two status columns of the row are swapped.
StatusEventSwapped(p) ==
    [patch |-> p, election |-> patch[p].election, from |-> patch[p].to, to |-> patch[p].from]

StatusEvent(p) ==
    [patch |-> p, election |-> patch[p].election, from |-> patch[p].from, to |-> patch[p].to]

PatchEvent(p) ==
    /\ patchPc[p] = "event"
    /\ events' = events \cup {StatusEvent(p)}
    /\ PatchAwaits(p, "audit")
    /\ UNCHANGED <<status, audit, patch>>

Verdict(p) ==
    IF LegalStep(patch[p].from, patch[p].to) \/ Idempotent(patch[p].from, patch[p].to)
    THEN "ok" ELSE "rejected"

PatchAudit(p) ==
    /\ patchPc[p] = "audit"
    /\ audit' = audit \cup {[action |-> Verdict(p), subject |-> p]}
    /\ PatchAnswers(p, Verdict(p))
    /\ UNCHANGED <<status, events, patch>>

\* The audit row is written but the answer of its insert is lost: 500.
PatchAuditUnanswered(p) ==
    /\ patchPc[p] = "audit"
    /\ audit' = audit \cup {[action |-> Verdict(p), subject |-> p]}
    /\ PatchAnswers(p, "error")
    /\ UNCHANGED <<status, events, patch>>

\* Broken: a failed event or audit insert is logged and the handler answers 200.
PatchFailsQuietly(p) ==
    /\ PatchInFlight(p)
    /\ PatchAnswers(p, IF patchPc[p] = "update" THEN "error" ELSE "ok")
    /\ UNCHANGED <<status, events, audit, patch>>

\* The next call fails or the process dies before it: every effect of the calls
\* already made stays.
PatchFails(p) ==
    /\ PatchInFlight(p)
    /\ PatchAnswers(p, "error")
    /\ UNCHANGED <<status, events, audit, patch>>

-----------------------------------------------------------------------------
LifecycleInit ==
    /\ status = [e \in Elections |-> IF e \in Seeded THEN Opening(e) ELSE "absent"]
    /\ events = {}
    /\ audit = {}
    /\ patch = [p \in Patches |-> NoRequest]
    /\ patchPc = [p \in Patches |-> "idle"]
    /\ patchAnswer = [p \in Patches |-> "none"]

PatchStep(p) == PatchUpdate(p) \/ PatchEvent(p) \/ PatchAudit(p)

LifecycleNext ==
    \/ \E e \in Elections : CreateElection(e)
    \/ \E p \in Patches, e \in Elections, to \in Statuses : PatchRead(p, e, to)
    \/ \E p \in Patches : PatchStep(p) \/ PatchAuditUnanswered(p) \/ PatchFails(p)

LifecycleSpec == LifecycleInit /\ [][LifecycleNext]_lifecycleVars

LifecycleFairness == \A p \in Patches : WF_lifecycleVars(PatchStep(p))

-----------------------------------------------------------------------------
LifecycleTypeOK ==
    /\ status \in [Elections -> Statuses \cup {"absent"}]
    /\ events \subseteq [patch : Patches, election : Elections,
                         from : Statuses, to : Statuses]
    /\ audit \subseteq [action : {"create"}, subject : Elections]
                       \cup [action : {"ok", "rejected"}, subject : Patches]
    /\ patch \in [Patches -> PatchRequest \cup {NoRequest}]
    /\ patchPc \in [Patches -> {"idle", "update", "event", "audit", "done"}]
    /\ patchAnswer \in [Patches -> {"none", "unknown", "ok", "rejected", "error"}]

\* A transition the administrator was told has happened (200, and not the
\* idempotent closed -> closed) left both its event row and its audit row behind,
\* whatever calls failed in between (elections.ts PATCH, adminAudit.ts: "an admin
\* operation must not be reported as successful when its audit record could not
\* be persisted").
AckedTransitionIsLogged ==
    \A p \in Patches :
        (patchAnswer[p] = "ok" /\ ~Idempotent(patch[p].from, patch[p].to)) =>
            /\ StatusEvent(p) \in events
            /\ [action |-> "ok", subject |-> p] \in audit

\* A status row that has moved was moved by a request still to log it, by one that
\* logged it, or by one that failed after its update: no status but the one the
\* election opened in is unexplained.
StatusIsExplained ==
    \A e \in Elections : status[e] \notin {"absent", Opening(e)} =>
        \E p \in Patches :
            /\ patch[p] # NoRequest
            /\ patch[p].election = e /\ patch[p].to = status[e]
            /\ \/ patchPc[p] = "event"
               \/ StatusEvent(p) \in events
               \/ patchAnswer[p] = "error"

\* When no request for an election is under way and none of them failed, the event
\* rows read from the opening status lead to the status of the row and end there: anyone
\* can recompute the window from the log (election_status_events, schema.sql).
EventLogEndsAtStatus ==
    \A e \in Elections :
        LET log == {ev \in events : ev.election = e}
            settled == \A p \in Patches :
                (patch[p] # NoRequest /\ patch[p].election = e) =>
                    patchPc[p] = "done" /\ patchAnswer[p] # "error"
        IN  (Exists(e) /\ settled) =>
                /\ \A ev \in log : ev.from # status[e]
                /\ status[e] # Opening(e) => \E ev \in log : ev.to = status[e]

\* The window only moves forward, one status at a time ("forward-only admin
\* transition", THREAT_MODEL_AND_SECURITY.md T13).
StatusMovesForward ==
    [][\A e \in Elections : status'[e] # status[e] =>
          status[e] = "absent" \/ <<status[e], status'[e]>> \in NEXT_STATUS]_status
=============================================================================
