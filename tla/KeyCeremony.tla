---------------------------- MODULE KeyCeremony ----------------------------
(***************************************************************************)
(* The distributed key generation: the routes of backend/src/routes/dkg.ts  *)
(* and the key holders' page frontend/src/pages/KeyCeremony.tsx. The group  *)
(* arithmetic is ThresholdCrypto's; here a dealer's polynomial and its ECDH *)
(* pair are the number of the attempt that drew them, a sub-share is its    *)
(* dealer's attempt with the attempts it was encrypted to, and a key (or a  *)
(* share of it) is the set of <<dealer, attempt>> summed into it. A request *)
(* outlives the page that gave up on it; its handler runs step by step.     *)
(***************************************************************************)
EXTENDS Naturals, FiniteSets

CONSTANTS
    N,          \* key holders: 4 in the code
    MaxFaults   \* failed calls, restarts, pages left, with what each brings along: a bound

ASSUME CeremonyAssumption == N \in Nat \ {0} /\ MaxFaults \in Nat

Holder == 1..N

NoAttempt == [h \in Holder |-> 0]

KeyOf(versions) == { <<i, versions[i]>> : i \in Holder }

RoundName == <<"round1", "round2">>

None == "none"

VARIABLES
    status,         \* election_key_ceremony.status, None before the row is there
    key,            \* election_key_ceremony.feldman_commitments, {} if null
    y,              \* key_shares.public_commitment, per holder: {} without a row
    participants,   \* dkg_participants: the attempt each holder published, 0 if none
    dealt,          \* dkg_shares: each dealer's row of sub-shares
    confirmed,      \* dkg_confirmations
    requests,       \* handlers still running
    page,           \* per holder: its phase, attempts made, sessionStorage, final share
    fetched,        \* history: every <<dealer, attempt>> a page in round 3 has fetched
    revoked,        \* history: one of them was replaced since
    faults

tables == <<status, key, y, participants, dealt, confirmed>>
history == <<fetched, revoked>>
ceremonyVars == <<tables, requests, page, history, faults>>

CeremonyInit ==
    /\ status = None /\ key = {}
    /\ y = [h \in Holder |-> {}]
    /\ participants = NoAttempt
    /\ dealt = [h \in Holder |-> [ver |-> 0, to |-> NoAttempt]]
    /\ confirmed = {} /\ requests = {}
    /\ page = [h \in Holder |-> [phase |-> <<"auth", 0>>, made |-> 0, session |-> 0, share |-> {},
                               round1 |-> NoAttempt]]
    /\ fetched = {} /\ revoked = FALSE /\ faults = 0

Published == \A h \in Holder : participants[h] # 0

\* POST /dkg/init.
InitCeremony ==
    /\ status = None
    /\ status' = "pending"
    /\ UNCHANGED <<key, y, participants, dealt, confirmed, requests, page, history, faults>>

(***************************************************************************)
(* The page.                                                                *)
(***************************************************************************)
Show(h, changed) == page' = [page EXCEPT ![h] = changed]

Turn(h, from, to) ==
    /\ page[h].phase = from
    /\ Show(h, [page[h] EXCEPT !.phase = to])

Send(h, route, at, ver, to) ==
    requests' = requests \cup {[from |-> h, route |-> route, at |-> at, ver |-> ver,
                                to |-> to, seen |-> None, key |-> {}]}

\* handleAuthSubmit: from GET /dkg/status, the round this holder is in.
ResumesAt(h) ==
    CASE status = "qualified" \/ h \in confirmed -> <<"qualified", 0>>
      [] dealt[h].ver # 0 -> <<"ready", 3>>
      [] participants[h] # 0 /\ Published -> <<"ready", 2>>
      [] participants[h] # 0 -> <<"waiting", 1>>
      [] OTHER -> <<"ready", 1>>

Resume(h) ==
    /\ status # None
    /\ Turn(h, <<"auth", 0>>, ResumesAt(h))
    /\ UNCHANGED <<tables, requests, history, faults>>

\* A fresh polynomial and ECDH pair, stored in the session before they are published.
RunRound1(h) ==
    LET attempt == page[h].made + 1
    IN  /\ page[h].phase = <<"ready", 1>>
        /\ Show(h, [page[h] EXCEPT !.phase = <<"sent", 1>>, !.made = attempt,
                                   !.session = attempt])
        /\ Send(h, 1, "load", attempt, NoAttempt)
        /\ UNCHANGED <<tables, history, faults>>

PollRound1(h) ==
    /\ Published
    /\ Turn(h, <<"waiting", 1>>, <<"ready", 2>>)
    /\ UNCHANGED <<tables, requests, history, faults>>

\* One sub-share for each participant, encrypted to the ECDH key it has published.
RunRound2(h) ==
    /\ Published /\ page[h].session # 0
    /\ Turn(h, <<"ready", 2>>, <<"sent", 2>>)
    /\ Send(h, 2, "upsert", page[h].session, participants)
    /\ UNCHANGED <<tables, history, faults>>

PollRound2(h) ==
    /\ \A i \in Holder : dealt[i].ver # 0
    /\ Turn(h, <<"waiting", 2>>, <<"ready", 3>>)
    /\ UNCHANGED <<tables, requests, history, faults>>

Inbox == { i \in Holder : dealt[i].ver # 0 }

\* A check of the sub-shares that decrypts them and omits the commitments.
OpensOnly(h, i, round1) ==
    /\ round1[i] # 0
    /\ dealt[i].to[h] = page[h].session

\* A sub-share decrypts under the two ECDH pairs it was encrypted for, and lies on the
\* polynomial its dealer had published.
Opens(h, i, round1) ==
    /\ round1[i] # 0
    /\ dealt[i].to[h] = page[h].session
    /\ dealt[i].ver = round1[i]

\* The page asks for the participants and for its inbox at once. The participants are read
\* first: an inbox read before them has fewer entries, or one that no longer verifies.
FetchRound1(h) ==
    /\ page[h].phase = <<"ready", 3>> /\ page[h].session # 0
    /\ Show(h, [page[h] EXCEPT !.phase = <<"reading", 3>>, !.round1 = participants])
    /\ fetched' = fetched \cup KeyOf(participants)
    /\ UNCHANGED <<tables, requests, revoked, faults>>

\* Sums what the inbox holds, complete or not, provided every entry verifies.
RunRound3(h) ==
    /\ page[h].phase = <<"reading", 3>>
    /\ IF \A i \in Inbox : Opens(h, i, page[h].round1)
       THEN /\ Show(h, [page[h] EXCEPT !.phase = <<"sent", 3>>, !.round1 = NoAttempt,
                                      !.share = { <<i, dealt[i].ver>> : i \in Inbox }])
            /\ Send(h, 3, "confirm", 0, NoAttempt)
       ELSE /\ Show(h, [page[h] EXCEPT !.phase = <<"ready", 3>>, !.round1 = NoAttempt])
            /\ UNCHANGED requests
    /\ UNCHANGED <<tables, history, faults>>

PollRound3(h) ==
    /\ status = "qualified"
    /\ Turn(h, <<"waiting", 3>>, <<"qualified", 0>>)
    /\ UNCHANGED <<tables, requests, history, faults>>

(***************************************************************************)
(* The handlers. Answering moves the page on, if it still waits.            *)
(***************************************************************************)
Step(r, changed) ==
    /\ requests' = (requests \ {r}) \cup {changed}
    /\ UNCHANGED page

Waiting(r) ==
    /\ page[r.from].phase = <<"sent", r.route>>
    /\ r.route = 1 => page[r.from].session = r.ver

Answered(r, phase) ==
    IF Waiting(r)
    THEN [page EXCEPT ![r.from].phase = phase,
                      ![r.from].session = IF r.route = 3 THEN 0 ELSE @]
    ELSE page

Answer(r) ==
    /\ requests' = requests \ {r}
    /\ page' = Answered(r, <<"waiting", r.route>>)

\* POST /dkg/round1.
LoadRound1(r) ==
    /\ r.route = 1 /\ r.at = "load"
    /\ IF status = "qualified"
       THEN requests' = requests \ {r} /\ page' = Answered(r, <<"ready", 1>>)
       ELSE Step(r, [r EXCEPT !.at = "upsert", !.seen = status])
    /\ UNCHANGED <<tables, history, faults>>

UpsertRound1(r) ==
    /\ r.route = 1 /\ r.at = "upsert"
    /\ participants' = [participants EXCEPT ![r.from] = r.ver]
    /\ revoked' = (revoked \/ \E s \in fetched : s[1] = r.from /\ s[2] # r.ver)
    /\ IF r.seen = "pending" THEN Step(r, [r EXCEPT !.at = "update"]) ELSE Answer(r)
    /\ UNCHANGED <<status, key, y, dealt, confirmed, fetched, faults>>

\* The status to set next goes by the one seen before: whatever happened in between.
UpdateStatus(r) ==
    /\ r.route \in {1, 2} /\ r.at = "update"
    /\ status' = RoundName[r.route]
    /\ Answer(r)
    /\ UNCHANGED <<key, y, participants, dealt, confirmed, history, faults>>

\* POST /dkg/round2.
UpsertRound2(r) ==
    /\ r.route = 2 /\ r.at = "upsert"
    /\ dealt' = [dealt EXCEPT ![r.from] = [ver |-> r.ver, to |-> r.to]]
    /\ Step(r, [r EXCEPT !.at = "load"])
    /\ UNCHANGED <<status, key, y, participants, confirmed, history, faults>>

LoadRound2(r) ==
    /\ r.route = 2 /\ r.at = "load"
    /\ IF status = "round1" THEN Step(r, [r EXCEPT !.at = "update"]) ELSE Answer(r)
    /\ UNCHANGED <<tables, history, faults>>

\* POST /dkg/round3: confirm, count, and with the last confirmation combine.
Confirm(r) ==
    /\ r.route = 3 /\ r.at = "confirm"
    /\ confirmed' = confirmed \cup {r.from}
    /\ Step(r, [r EXCEPT !.at = "count"])
    /\ UNCHANGED <<status, key, y, participants, dealt, history, faults>>

\* A count that leaves out the confirmation it has just stored.
CountOthers(r) ==
    /\ r.route = 3 /\ r.at = "count"
    /\ IF confirmed \ {r.from} = Holder THEN Step(r, [r EXCEPT !.at = "combine"]) ELSE Answer(r)
    /\ UNCHANGED <<tables, history, faults>>

Count(r) ==
    /\ r.route = 3 /\ r.at = "count"
    /\ IF confirmed = Holder THEN Step(r, [r EXCEPT !.at = "combine"]) ELSE Answer(r)
    /\ UNCHANGED <<tables, history, faults>>

\* combineAndQualify: nothing to do for a qualified ceremony;
Combine(r) ==
    /\ r.route = 3 /\ r.at = "combine"
    /\ IF status = "qualified" THEN Answer(r) ELSE Step(r, [r EXCEPT !.at = "read"])
    /\ UNCHANGED <<tables, history, faults>>

\* otherwise read the participants,
ReadParticipants(r) ==
    /\ r.route = 3 /\ r.at = "read"
    /\ Step(r, [r EXCEPT !.at = "publish", !.key = KeyOf(participants)])
    /\ UNCHANGED <<tables, history, faults>>

\* publish the combined commitments,
Publish(r) ==
    /\ r.route = 3 /\ r.at = "publish"
    /\ key' = r.key /\ status' = "qualified"
    /\ Step(r, [r EXCEPT !.at = "shares", !.ver = 1])
    /\ UNCHANGED <<y, participants, dealt, confirmed, history, faults>>

\* and derive one holder's public commitment after the other.
PublishShare(r) ==
    /\ r.route = 3 /\ r.at = "shares"
    /\ y' = [y EXCEPT ![r.ver] = r.key]
    /\ IF r.ver < N THEN Step(r, [r EXCEPT !.ver = @ + 1]) ELSE Answer(r)
    /\ UNCHANGED <<status, key, participants, dealt, confirmed, history, faults>>

(***************************************************************************)
(* Failures. A page is reloaded, and forgets its round and perhaps a share  *)
(* nobody copied, or closed, and forgets its session as well. A call fails  *)
(* in the page, which the holder may then reload, while its handler runs on *)
(* or dies between two of its steps; a restart of the server ends them all. *)
(***************************************************************************)
Reloads(h) ==
    { [page[h] EXCEPT !.phase = <<"auth", 0>>, !.share = share, !.round1 = NoAttempt] :
        share \in {page[h].share, {}} }

Leave(h) ==
    /\ faults < MaxFaults /\ faults' = faults + 1
    /\ \E left \in Reloads(h), session \in {page[h].session, 0} :
          Show(h, [left EXCEPT !.session = session])
    /\ UNCHANGED <<tables, requests, history>>

Retried(r) == [page[r.from] EXCEPT !.phase = <<"ready", r.route>>]

CallFails(r) ==
    /\ faults < MaxFaults /\ faults' = faults + 1
    /\ Waiting(r)
    /\ \E shown \in {Retried(r)} \cup Reloads(r.from) : Show(r.from, shown)
    /\ requests' \in {requests, requests \ {r}}
    /\ UNCHANGED <<tables, history>>

\* The handlers of pages that have gone die with the others.
Restart ==
    /\ faults < MaxFaults /\ faults' = faults + 1
    /\ requests # {} /\ requests' = {}
    /\ page' = [h \in Holder |-> IF \E r \in requests : r.from = h /\ Waiting(r)
                                 THEN [page[h] EXCEPT !.phase = <<"ready", page[h].phase[2]>>]
                                 ELSE page[h]]
    /\ UNCHANGED <<tables, history>>

\* The one update whose error the code does not look at: it answers 201 all the same.
StatusStays(r) ==
    /\ faults < MaxFaults /\ faults' = faults + 1
    /\ r.route \in {1, 2} /\ r.at = "update"
    /\ Answer(r)
    /\ UNCHANGED <<tables, history>>

PageStep(h) ==
    \/ Resume(h) \/ RunRound1(h) \/ PollRound1(h) \/ RunRound2(h) \/ PollRound2(h)
    \/ FetchRound1(h) \/ RunRound3(h) \/ PollRound3(h)

Handle(r) ==
    \/ LoadRound1(r) \/ UpsertRound1(r) \/ UpdateStatus(r) \/ UpsertRound2(r) \/ LoadRound2(r)
    \/ Confirm(r) \/ Count(r) \/ Combine(r) \/ ReadParticipants(r) \/ Publish(r) \/ PublishShare(r)

CeremonyNext ==
    \/ InitCeremony \/ Restart
    \/ \E h \in Holder : PageStep(h) \/ Leave(h)
    \/ \E r \in requests : Handle(r) \/ CallFails(r) \/ StatusStays(r)

CeremonySpec == CeremonyInit /\ [][CeremonyNext]_ceremonyVars
=============================================================================
