-------------------------- MODULE KeyCeremonyProofs --------------------------
(***************************************************************************)
(* Proofs about KeyCeremony for any number of holders and failures: what    *)
(* becomes of the polynomials that sub-shares were checked against until    *)
(* the key is published, however requests are delayed, repeated and         *)
(* abandoned.                                                               *)
(***************************************************************************)
EXTENDS KeyCeremony, TLAPS

Summand == Holder \X Nat

Status == {None, "pending", "round1", "round2", "qualified"}

Phase == {"auth", "ready", "sent", "reading", "waiting", "qualified"} \X (0..3)

Page == [phase : Phase, made : Nat, session : Nat, share : SUBSET Summand,
         round1 : [Holder -> Nat]]

Request ==
    [from : Holder, route : 1..3,
     at : {"load", "upsert", "update", "confirm", "count", "combine", "read", "publish",
           "shares"},
     ver : Nat, to : [Holder -> Nat], seen : Status, key : SUBSET Summand]

CeremonyTypes ==
    /\ status \in Status
    /\ key \in SUBSET Summand
    /\ participants \in [Holder -> Nat]
    /\ dealt \in [Holder -> [ver : Nat, to : [Holder -> Nat]]]
    /\ confirmed \in SUBSET Holder
    /\ requests \in SUBSET Request
    /\ page \in [Holder -> Page]
    /\ fetched \in SUBSET Summand
    /\ revoked \in BOOLEAN

AllFetched == \A h \in Holder : \E s \in fetched : s[1] = h

\* A page checks sub-shares against polynomials it has fetched.
PageOK(h) ==
    /\ page[h].share \subseteq fetched
    /\ page[h].phase = <<"reading", 3>> => KeyOf(page[h].round1) \subseteq fetched

\* Whoever confirms has fetched every dealer's polynomial, and what is combined later is what
\* is published.
RequestOK(r) ==
    /\ r.route = 3 => AllFetched
    /\ r.at \in {"publish", "shares"} =>
          r.route = 3 /\ (revoked \/ r.key = KeyOf(participants))

KeyInv ==
    /\ CeremonyTypes
    /\ \A h \in Holder : PageOK(h)
    /\ \A r \in requests : RequestOK(r)
    /\ key # {} => AllFetched
    /\ revoked \/ \A s \in fetched : s[2] = participants[s[1]]
    /\ revoked \/ key = {} \/ key = KeyOf(participants)

-----------------------------------------------------------------------------
LEMMA InitKey == CeremonyInit => KeyInv
<1> SUFFICES ASSUME CeremonyInit
             PROVE  KeyInv
  OBVIOUS
<1> DEFINE first == [phase |-> <<"auth", 0>>, made |-> 0, session |-> 0, share |-> {},
                     round1 |-> NoAttempt]
<1>1. first \in Page /\ NoAttempt \in [Holder -> Nat]
  BY DEF Page, Phase, NoAttempt
<1>2. page = [h \in Holder |-> first]
  BY DEF CeremonyInit
<1>3. CeremonyTypes
  BY <1>1, <1>2 DEF CeremonyInit, CeremonyTypes, Status
<1>4. \A h \in Holder : PageOK(h)
  BY <1>2 DEF PageOK
<1> QED BY <1>3, <1>4 DEF KeyInv, CeremonyInit

LEMMA KeyOfType == ASSUME NEW f \in [Holder -> Nat] PROVE KeyOf(f) \in SUBSET Summand
BY DEF KeyOf, Summand

\* What a step leaves of the invariant when it changes neither the key nor what it is made of.
LEMMA QuietStep ==
    ASSUME KeyInv, CeremonyTypes',
           UNCHANGED <<key, participants, fetched, revoked>>,
           \A h \in Holder : PageOK(h)',
           \A r \in requests' : RequestOK(r)
    PROVE  KeyInv'
<1>1. AllFetched' <=> AllFetched
  BY DEF AllFetched
<1>2. KeyOf(participants)' = KeyOf(participants)
  BY DEF KeyOf
<1>3. \A r \in requests' : RequestOK(r)'
  BY <1>1, <1>2 DEF RequestOK
<1> QED BY <1>1, <1>2, <1>3 DEF KeyInv

\* A page that changes.
LEMMA PageShown ==
    ASSUME KeyInv, NEW h \in Holder, NEW p \in Page, Show(h, p),
           fetched \subseteq fetched', p.share \subseteq fetched',
           p.phase = <<"reading", 3>> => KeyOf(p.round1) \subseteq fetched'
    PROVE  page' \in [Holder -> Page] /\ \A i \in Holder : PageOK(i)'
<1>1. /\ page' \in [Holder -> Page]
      /\ page'[h] = p
      /\ \A i \in Holder \ {h} : page'[i] = page[i]
  BY DEF Show, KeyInv, CeremonyTypes
<1>2. PageOK(h)'
  BY <1>1 DEF PageOK
<1>3. \A i \in Holder \ {h} : PageOK(i)'
  BY <1>1 DEF KeyInv, PageOK
<1> QED BY <1>1, <1>2, <1>3

\* A page that goes from one phase to another.
LEMMA Turning ==
    ASSUME KeyInv, fetched' = fetched,
           NEW h \in Holder, NEW from, NEW to \in Phase, Turn(h, from, to), to # <<"reading", 3>>
    PROVE  page' \in [Holder -> Page] /\ \A i \in Holder : PageOK(i)'
<1> DEFINE p == [page[h] EXCEPT !.phase = to]
<1>1. page[h] \in Page
  BY DEF KeyInv, CeremonyTypes
<1>2. p \in Page /\ p.share = page[h].share /\ p.phase = to
  BY <1>1 DEF Page
<1>3. Show(h, p)
  BY DEF Turn
<1>4. p.share \subseteq fetched'
  BY <1>2 DEF KeyInv, PageOK
<1>5. p.phase # <<"reading", 3>>
  BY <1>2
<1> HIDE DEF p
<1> QED BY <1>2, <1>3, <1>4, <1>5, PageShown

LEMMA Phases ==
    /\ {<<"auth", 0>>, <<"ready", 1>>, <<"ready", 2>>, <<"ready", 3>>, <<"sent", 1>>, <<"sent", 2>>,
        <<"sent", 3>>, <<"waiting", 1>>, <<"waiting", 2>>, <<"waiting", 3>>, <<"qualified", 0>>}
          \subseteq Phase \ {<<"reading", 3>>}
    /\ <<"reading", 3>> \in Phase
BY DEF Phase

\* A request that a page sends before it has anything to do with the key.
LEMMA SentRequest ==
    ASSUME KeyInv, NEW h \in Holder, NEW route \in 1..3, NEW ver \in Nat,
           NEW at \in {"load", "upsert", "confirm"},
           NEW to \in [Holder -> Nat], Send(h, route, at, ver, to), route = 3 => AllFetched
    PROVE  requests' \in SUBSET Request /\ \A r \in requests' : RequestOK(r)
<1> DEFINE r == [from |-> h, route |-> route, at |-> at, ver |-> ver,
                 to |-> to, seen |-> None, key |-> {}]
<1>1. r \in Request
  BY DEF Request, Status
<1>2. RequestOK(r)
  BY DEF RequestOK
<1>3. requests' = requests \cup {r}
  BY DEF Send
<1> HIDE DEF r
<1> QED BY <1>1, <1>2, <1>3 DEF KeyInv, CeremonyTypes

LEMMA PageKeepsKey ==
    ASSUME KeyInv, NEW h \in Holder, PageStep(h)
    PROVE  KeyInv'
<1>1. page[h] \in Page /\ NoAttempt \in [Holder -> Nat] /\ participants \in [Holder -> Nat]
  BY DEF KeyInv, CeremonyTypes, NoAttempt
<1>2. page[h].share \subseteq fetched
  BY DEF KeyInv, PageOK
<1>3. ASSUME UNCHANGED <<tables, requests, history>>,
             page' \in [Holder -> Page] /\ \A i \in Holder : PageOK(i)'
      PROVE  KeyInv'
  <2>1. UNCHANGED <<status, key, participants, dealt, confirmed, fetched, revoked>>
    BY <1>3 DEF tables, history
  <2>2. CeremonyTypes'
    BY <1>3, <2>1 DEF KeyInv, CeremonyTypes
  <2>3. \A r \in requests' : RequestOK(r)
    BY <1>3 DEF KeyInv
  <2> QED BY <1>3, <2>1, <2>2, <2>3, QuietStep
<1>4. ASSUME UNCHANGED <<tables, history>>,
             page' \in [Holder -> Page] /\ \A i \in Holder : PageOK(i)',
             requests' \in SUBSET Request /\ \A r \in requests' : RequestOK(r)
      PROVE  KeyInv'
  <2>1. UNCHANGED <<status, key, participants, dealt, confirmed, fetched, revoked>>
    BY <1>4 DEF tables, history
  <2>2. CeremonyTypes'
    BY <1>4, <2>1 DEF KeyInv, CeremonyTypes
  <2> QED BY <1>4, <2>1, <2>2, QuietStep
<1>5. CASE Resume(h)
  <2>1. ResumesAt(h) \in Phase /\ ResumesAt(h) # <<"reading", 3>>
    BY Phases DEF ResumesAt
  <2>2. fetched' = fetched /\ Turn(h, <<"auth", 0>>, ResumesAt(h))
    BY <1>5 DEF Resume, history
  <2> QED BY <1>3, <1>5, <2>1, <2>2, Turning DEF Resume
<1>6. CASE PollRound1(h)
  <2>1. fetched' = fetched /\ Turn(h, <<"waiting", 1>>, <<"ready", 2>>)
    BY <1>6 DEF PollRound1, history
  <2> QED BY <1>3, <1>6, <2>1, Phases, Turning DEF PollRound1
<1>7. CASE PollRound2(h)
  <2>1. fetched' = fetched /\ Turn(h, <<"waiting", 2>>, <<"ready", 3>>)
    BY <1>7 DEF PollRound2, history
  <2> QED BY <1>3, <1>7, <2>1, Phases, Turning DEF PollRound2
<1>8. CASE PollRound3(h)
  <2>1. fetched' = fetched /\ Turn(h, <<"waiting", 3>>, <<"qualified", 0>>)
    BY <1>8 DEF PollRound3, history
  <2> QED BY <1>3, <1>8, <2>1, Phases, Turning DEF PollRound3
<1>9. CASE RunRound1(h)
  <2> DEFINE attempt == page[h].made + 1
             p == [page[h] EXCEPT !.phase = <<"sent", 1>>, !.made = attempt, !.session = attempt]
  <2>1. attempt \in Nat
    BY <1>1 DEF Page
  <2>2. Show(h, p) /\ Send(h, 1, "load", attempt, NoAttempt) /\ UNCHANGED <<tables, history>>
    BY <1>9 DEF RunRound1
  <2> HIDE DEF attempt
  <2>3. p \in Page /\ p.share = page[h].share /\ p.phase = <<"sent", 1>>
    <3>1. <<"sent", 1>> \in Phase
      BY Phases
    <3> QED BY <1>1, <2>1, <3>1 DEF Page
  <2>4. fetched' = fetched
    BY <2>2 DEF history
  <2> HIDE DEF p
  <2>5. page' \in [Holder -> Page] /\ \A i \in Holder : PageOK(i)'
    BY <1>2, <2>2, <2>3, <2>4, Phases, PageShown
  <2>6. requests' \in SUBSET Request /\ \A r \in requests' : RequestOK(r)
    BY <1>1, <2>1, <2>2, SentRequest
  <2> QED BY <1>4, <2>2, <2>5, <2>6
<1>10. CASE RunRound2(h)
  <2>1. /\ Turn(h, <<"ready", 2>>, <<"sent", 2>>)
        /\ Send(h, 2, "upsert", page[h].session, participants)
        /\ UNCHANGED <<tables, history>>
    BY <1>10 DEF RunRound2
  <2>2. page[h].session \in Nat /\ fetched' = fetched
    BY <1>1, <2>1 DEF Page, history
  <2>3. page' \in [Holder -> Page] /\ \A i \in Holder : PageOK(i)'
    BY <2>1, <2>2, Phases, Turning
  <2>4. requests' \in SUBSET Request /\ \A r \in requests' : RequestOK(r)
    BY <1>1, <2>1, <2>2, SentRequest
  <2> QED BY <1>4, <2>1, <2>3, <2>4
<1>11. CASE FetchRound1(h)
  <2> DEFINE p == [page[h] EXCEPT !.phase = <<"reading", 3>>, !.round1 = participants]
  <2>1. /\ Show(h, p) /\ fetched' = fetched \cup KeyOf(participants)
        /\ UNCHANGED <<tables, requests, revoked>>
    BY <1>11 DEF FetchRound1
  <2>2. p \in Page /\ p.share = page[h].share /\ p.round1 = participants
    <3>1. <<"reading", 3>> \in Phase
      BY Phases
    <3> QED BY <1>1, <3>1 DEF Page
  <2> HIDE DEF p
  <2>3. KeyOf(participants) \in SUBSET Summand
    BY <1>1, KeyOfType
  <2>4. page' \in [Holder -> Page] /\ \A i \in Holder : PageOK(i)'
    BY <1>2, <2>1, <2>2, PageShown
  <2>5. UNCHANGED <<status, key, participants, dealt, confirmed>>
    BY <2>1 DEF tables
  <2>6. CeremonyTypes'
    BY <2>1, <2>3, <2>4, <2>5 DEF KeyInv, CeremonyTypes
  <2>7. AllFetched => AllFetched'
    BY <2>1 DEF AllFetched
  <2>8. KeyOf(participants)' = KeyOf(participants)
    BY <2>5 DEF KeyOf
  <2>9. \A r \in requests' : RequestOK(r)'
    BY <2>1, <2>7, <2>8 DEF KeyInv, RequestOK
  <2>10. \A s \in KeyOf(participants) : s[2] = participants[s[1]]
    BY DEF KeyOf
  <2>11. revoked' \/ \A s \in fetched' : s[2] = participants'[s[1]]
    BY <2>1, <2>5, <2>10 DEF KeyInv
  <2> QED BY <2>1, <2>4, <2>5, <2>6, <2>7, <2>8, <2>9, <2>11 DEF KeyInv
<1>12. CASE RunRound3(h)
  <2>1. UNCHANGED <<tables, history>> /\ fetched' = fetched /\ page[h].phase = <<"reading", 3>>
    BY <1>12 DEF RunRound3, history
  <2>2. KeyOf(page[h].round1) \subseteq fetched
    BY <2>1 DEF KeyInv, PageOK
  <2>3. CASE \A i \in Inbox : Opens(h, i, page[h].round1)
    <3> DEFINE sum == { <<i, dealt[i].ver>> : i \in Inbox }
               p == [page[h] EXCEPT !.phase = <<"sent", 3>>, !.round1 = NoAttempt, !.share = sum]
    <3>1. Show(h, p) /\ Send(h, 3, "confirm", 0, NoAttempt)
      BY <1>12, <2>3 DEF RunRound3
    <3>2. sum \subseteq KeyOf(page[h].round1)
      BY <2>3 DEF Opens, KeyOf, Inbox
    <3>3. sum \in SUBSET Summand
      BY DEF Inbox, Summand, KeyInv, CeremonyTypes
    <3> HIDE DEF sum
    <3>4. p \in Page /\ p.share = sum /\ p.phase = <<"sent", 3>>
      <4>1. <<"sent", 3>> \in Phase
        BY Phases
      <4> QED BY <1>1, <3>3, <4>1 DEF Page
    <3> HIDE DEF p
    <3>5. page' \in [Holder -> Page] /\ \A i \in Holder : PageOK(i)'
      BY <2>1, <2>2, <3>1, <3>2, <3>4, Phases, PageShown
    <3>6. AllFetched
      <4>1. \A i \in Holder : <<i, page[h].round1[i]>> \in fetched
        BY <2>2 DEF KeyOf
      <4> QED BY <4>1 DEF AllFetched
    <3>7. requests' \in SUBSET Request /\ \A r \in requests' : RequestOK(r)
      BY <1>1, <3>1, <3>6, SentRequest
    <3> QED BY <1>4, <2>1, <3>5, <3>7
  <2>4. CASE ~\A i \in Inbox : Opens(h, i, page[h].round1)
    <3> DEFINE p == [page[h] EXCEPT !.phase = <<"ready", 3>>, !.round1 = NoAttempt]
    <3>1. Show(h, p) /\ UNCHANGED requests
      BY <1>12, <2>4 DEF RunRound3
    <3>2. p \in Page /\ p.share = page[h].share /\ p.phase = <<"ready", 3>>
      <4>1. <<"ready", 3>> \in Phase
        BY Phases
      <4> QED BY <1>1, <4>1 DEF Page
    <3> HIDE DEF p
    <3>3. page' \in [Holder -> Page] /\ \A i \in Holder : PageOK(i)'
      BY <1>2, <2>1, <3>1, <3>2, Phases, PageShown
    <3> QED BY <1>3, <2>1, <3>1, <3>3
  <2> QED BY <2>3, <2>4
<1> QED
  BY <1>5, <1>6, <1>7, <1>8, <1>9, <1>10, <1>11, <1>12 DEF PageStep

LEMMA Reloading ==
    ASSUME KeyInv, NEW h \in Holder, NEW left \in Reloads(h)
    PROVE  /\ left \in Page /\ left.share \subseteq page[h].share
           /\ left.phase = <<"auth", 0>> /\ left.session = page[h].session
<1>1. PICK share \in {page[h].share, {}} :
         left = [page[h] EXCEPT !.phase = <<"auth", 0>>, !.share = share, !.round1 = NoAttempt]
  BY DEF Reloads
<1>2. page[h] \in Page /\ NoAttempt \in [Holder -> Nat] /\ <<"auth", 0>> \in Phase
  BY Phases DEF KeyInv, CeremonyTypes, NoAttempt
<1>3. share \in SUBSET Summand /\ share \subseteq page[h].share
  BY <1>2 DEF Page
<1> QED BY <1>1, <1>2, <1>3 DEF Page

\* A page is left.
LEMMA LeavingKeepsKey == ASSUME KeyInv, NEW h \in Holder, Leave(h) PROVE KeyInv'
<1>1. PICK left \in Reloads(h), session \in {page[h].session, 0} :
         Show(h, [left EXCEPT !.session = session])
  BY DEF Leave
<1> DEFINE p == [left EXCEPT !.session = session]
<1>2. page[h] \in Page /\ page[h].share \subseteq fetched
  BY DEF KeyInv, CeremonyTypes, PageOK
<1>3. left \in Page /\ left.share \subseteq fetched /\ left.phase = <<"auth", 0>>
  BY <1>2, Reloading
<1>4. session \in Nat
  BY <1>2 DEF Page
<1>5. p \in Page /\ p.share = left.share /\ p.phase = <<"auth", 0>>
  BY <1>3, <1>4 DEF Page
<1>6. UNCHANGED <<key, participants, dealt, confirmed, fetched, revoked, requests, status>>
  BY DEF Leave, tables, history
<1>7. Show(h, p)
  BY <1>1
<1> HIDE DEF p
<1>8. page' \in [Holder -> Page] /\ \A i \in Holder : PageOK(i)'
  BY <1>3, <1>5, <1>6, <1>7, Phases, PageShown
<1>9. CeremonyTypes' /\ \A r \in requests' : RequestOK(r)
  BY <1>6, <1>8 DEF KeyInv, CeremonyTypes
<1> QED BY <1>6, <1>8, <1>9, QuietStep

\* A page that offers the failed call again, or is reloaded.
LEMMA RetriedPage ==
    ASSUME KeyInv, NEW r \in requests, NEW shown \in {Retried(r)} \cup Reloads(r.from)
    PROVE  /\ shown \in Page /\ shown.share \subseteq page[r.from].share
           /\ shown.session = page[r.from].session
           /\ shown.phase \in {<<"ready", r.route>>, <<"auth", 0>>}
<1>1. r.from \in Holder /\ r.route \in 1..3 /\ page[r.from] \in Page
  BY DEF KeyInv, CeremonyTypes, Request
<1>2. <<"ready", r.route>> \in Phase
  BY <1>1 DEF Phase
<1>3. CASE shown = Retried(r)
  BY <1>1, <1>2, <1>3 DEF Retried, Page
<1>4. CASE shown \in Reloads(r.from)
  BY <1>1, <1>4, Reloading
<1> QED BY <1>3, <1>4

\* A call fails in its page.
LEMMA FailingKeepsKey == ASSUME KeyInv, NEW r \in requests, CallFails(r) PROVE KeyInv'
<1>1. PICK shown \in {Retried(r)} \cup Reloads(r.from) : Show(r.from, shown)
  BY DEF CallFails
<1>2. r.from \in Holder /\ r.route \in 1..3
  BY DEF KeyInv, CeremonyTypes, Request
<1>3. /\ shown \in Page /\ shown.share \subseteq page[r.from].share
      /\ shown.phase \in {<<"ready", r.route>>, <<"auth", 0>>}
  BY RetriedPage
<1>4. /\ requests' \subseteq requests
      /\ UNCHANGED <<key, participants, dealt, confirmed, fetched, revoked, status>>
  BY DEF CallFails, tables, history
<1>5. page[r.from].share \subseteq fetched
  BY <1>2 DEF KeyInv, PageOK
<1>6. shown.phase # <<"reading", 3>>
  BY <1>3
<1>7. page' \in [Holder -> Page] /\ \A i \in Holder : PageOK(i)'
  BY <1>1, <1>2, <1>3, <1>4, <1>5, <1>6, PageShown
<1>8. CeremonyTypes' /\ \A q \in requests' : RequestOK(q)
  BY <1>4, <1>7 DEF KeyInv, CeremonyTypes
<1> QED BY <1>4, <1>7, <1>8, QuietStep

\* What a restart of the server leaves of a page.
LEMMA RestartedPage ==
    ASSUME KeyInv, Restart, NEW h \in Holder
    PROVE  /\ page'[h] \in Page /\ page'[h].share = page[h].share
           /\ page'[h].session = page[h].session
           /\ \/ page'[h] = page[h]
              \/ \E n \in 1..3 : page[h].phase = <<"sent", n>> /\ page'[h].phase = <<"ready", n>>
<1> DEFINE p == [page[h] EXCEPT !.phase = <<"ready", page[h].phase[2]>>]
<1>1. page[h] \in Page
  BY DEF KeyInv, CeremonyTypes
<1>2. CASE \E r \in requests : r.from = h /\ Waiting(r)
  <2>1. PICK r \in requests : r.from = h /\ Waiting(r)
    BY <1>2
  <2>2. r.route \in 1..3 /\ page[h].phase = <<"sent", r.route>>
    BY <2>1 DEF KeyInv, CeremonyTypes, Request, Waiting
  <2>3. page'[h] = p
    BY <1>2 DEF Restart
  <2>4. <<"ready", page[h].phase[2]>> = <<"ready", r.route>>
    BY <2>2
  <2>5. <<"ready", r.route>> \in Phase
    BY <2>2 DEF Phase
  <2>6. p \in Page /\ p.share = page[h].share /\ p.session = page[h].session
        /\ p.phase = <<"ready", r.route>>
    BY <1>1, <2>4, <2>5 DEF Page
  <2> QED BY <2>2, <2>3, <2>6
<1>3. CASE ~\E r \in requests : r.from = h /\ Waiting(r)
  <2>1. page'[h] = page[h]
    BY <1>3 DEF Restart
  <2> QED BY <1>1, <2>1
<1> QED BY <1>2, <1>3

LEMMA RestartKeepsKey == ASSUME KeyInv, Restart PROVE KeyInv'
<1>1. /\ requests' = {} /\ page' = [h \in Holder |-> page'[h]]
      /\ UNCHANGED <<key, participants, dealt, confirmed, fetched, revoked, status>>
  BY DEF Restart, tables, history
<1>2. page' \in [Holder -> Page]
  BY <1>1, RestartedPage
<1>3. ASSUME NEW h \in Holder
      PROVE  PageOK(h)'
  <2>1. PageOK(h)
    BY DEF KeyInv
  <2>2. page'[h] = page[h] \/ (page'[h].share = page[h].share /\ page'[h].phase # <<"reading", 3>>)
    BY RestartedPage
  <2> QED BY <1>1, <2>1, <2>2 DEF PageOK
<1>4. CeremonyTypes' /\ \A q \in requests' : RequestOK(q)
  BY <1>1, <1>2 DEF KeyInv, CeremonyTypes
<1> QED BY <1>1, <1>3, <1>4, QuietStep

\* The page that waits for an answer, and no other, moves on.
LEMMA PageAnswered ==
    ASSUME KeyInv, NEW r \in requests, NEW phase \in Phase, phase # <<"reading", 3>>,
           page' = Answered(r, phase), fetched' = fetched
    PROVE  page' \in [Holder -> Page] /\ \A h \in Holder : PageOK(h)'
<1> DEFINE h == r.from
           p == [page[h] EXCEPT !.phase = phase,
                                !.session = IF r.route = 3 THEN 0 ELSE page[h].session]
<1>1. h \in Holder /\ page \in [Holder -> Page] /\ page[h] \in Page
  BY DEF KeyInv, CeremonyTypes, Request
<1>2. p \in Page /\ p.share = page[h].share /\ p.phase = phase
  BY <1>1 DEF Page
<1>3. page' = page \/ page' = [page EXCEPT ![h] = p]
  BY <1>1 DEF Answered
<1> HIDE DEF p, h
<1>4. CASE page' = page
  BY <1>1, <1>4 DEF KeyInv, PageOK
<1>5. CASE page' = [page EXCEPT ![h] = p]
  <2>1. page[h].share \subseteq fetched
    BY <1>1 DEF KeyInv, PageOK
  <2>2. Show(h, p)
    BY <1>5 DEF Show
  <2> QED BY <1>1, <1>2, <2>1, <2>2, PageShown
<1> QED BY <1>3, <1>4, <1>5

\* A handler that ends, or goes on with another call, leaves well-formed requests and pages.
LEMMA HandlerStep ==
    ASSUME KeyInv, NEW r \in requests, fetched' = fetched,
           \/ Answer(r)
           \/ \E changed \in Request : Step(r, changed) /\ RequestOK(changed)
    PROVE  /\ page' \in [Holder -> Page] /\ \A h \in Holder : PageOK(h)'
           /\ requests' \in SUBSET Request /\ \A q \in requests' : RequestOK(q)
<1>1. CASE Answer(r)
  <2>1. r.route \in 1..3
    BY DEF KeyInv, CeremonyTypes, Request
  <2>2. <<"waiting", r.route>> \in Phase /\ <<"waiting", r.route>> # <<"reading", 3>>
    BY <2>1 DEF Phase
  <2>3. page' = Answered(r, <<"waiting", r.route>>) /\ requests' = requests \ {r}
    BY <1>1 DEF Answer
  <2>4. page' \in [Holder -> Page] /\ \A h \in Holder : PageOK(h)'
    BY <2>2, <2>3, PageAnswered
  <2> QED BY <2>3, <2>4 DEF KeyInv, CeremonyTypes
<1>2. ASSUME NEW changed \in Request, Step(r, changed), RequestOK(changed)
      PROVE  /\ page' \in [Holder -> Page] /\ \A h \in Holder : PageOK(h)'
             /\ requests' \in SUBSET Request /\ \A q \in requests' : RequestOK(q)
  BY <1>2 DEF Step, KeyInv, CeremonyTypes, PageOK
<1> QED BY <1>1, <1>2

\* A request that goes on to its next call.
LEMMA NextCall ==
    ASSUME KeyInv, NEW r \in requests,
           NEW at \in {"load", "upsert", "update", "confirm", "count", "combine", "read"}
    PROVE  LET changed == [r EXCEPT !.at = at]
           IN  changed \in Request /\ RequestOK(changed) /\ changed.route = r.route
<1>1. r \in Request /\ RequestOK(r)
  BY DEF KeyInv, CeremonyTypes
<1> QED BY <1>1 DEF Request, RequestOK

\* A dealer's polynomial is stored, perhaps in place of another: of one that was fetched, if
\* every dealer's was.
LEMMA UpsertKeepsKey == ASSUME KeyInv, NEW r \in requests, UpsertRound1(r) PROVE KeyInv'
<1>1. r.from \in Holder /\ r.ver \in Nat
  BY DEF KeyInv, CeremonyTypes, Request
<1>2. /\ participants' = [participants EXCEPT ![r.from] = r.ver]
      /\ revoked' = (revoked \/ \E s \in fetched : s[1] = r.from /\ s[2] # r.ver)
      /\ UNCHANGED <<status, key, dealt, confirmed, fetched>>
  BY DEF UpsertRound1
<1>3. /\ page' \in [Holder -> Page] /\ \A h \in Holder : PageOK(h)'
      /\ requests' \in SUBSET Request /\ \A q \in requests' : RequestOK(q)
  <2>1. [r EXCEPT !.at = "update"] \in Request /\ RequestOK([r EXCEPT !.at = "update"])
    BY NextCall
  <2>2. Answer(r) \/ Step(r, [r EXCEPT !.at = "update"])
    BY DEF UpsertRound1
  <2> QED BY <1>2, <2>1, <2>2, HandlerStep
<1>4. CeremonyTypes'
  BY <1>1, <1>2, <1>3 DEF KeyInv, CeremonyTypes
<1>5. AllFetched' <=> AllFetched
  BY <1>2 DEF AllFetched
<1>6. revoked' \/ \A s \in fetched' : s[2] = participants'[s[1]]
  BY <1>1, <1>2 DEF KeyInv, CeremonyTypes, Summand
<1>7. AllFetched => revoked' \/ participants' = participants
  <2> SUFFICES ASSUME AllFetched, ~revoked'
               PROVE  participants' = participants
    OBVIOUS
  <2>1. PICK s \in fetched : s[1] = r.from
    BY <1>1 DEF AllFetched
  <2>2. s[2] = r.ver /\ s[2] = participants[r.from]
    BY <1>2, <2>1 DEF KeyInv
  <2> QED BY <1>1, <1>2, <2>2 DEF KeyInv, CeremonyTypes
<1>8. participants' = participants => KeyOf(participants)' = KeyOf(participants)
  BY DEF KeyOf
<1>9. ASSUME NEW q \in requests'
      PROVE  RequestOK(q)'
  <2>1. RequestOK(q)
    BY <1>3
  <2>2. q.at \in {"publish", "shares"} => q.route = 3 /\ (revoked' \/ q.key = KeyOf(participants)')
    BY <1>2, <1>7, <1>8, <2>1 DEF RequestOK
  <2> QED BY <1>5, <2>1, <2>2 DEF RequestOK
<1>10. revoked' \/ key' = {} \/ key' = KeyOf(participants)'
  BY <1>2, <1>7, <1>8 DEF KeyInv
<1>11. key' # {} => AllFetched'
  BY <1>2, <1>5 DEF KeyInv
<1> QED BY <1>3, <1>4, <1>6, <1>9, <1>10, <1>11 DEF KeyInv

LEMMA HandlersKeepKey == ASSUME KeyInv, NEW r \in requests, Handle(r) PROVE KeyInv'
<1>1. r \in Request /\ RequestOK(r) /\ status \in Status
  BY DEF KeyInv, CeremonyTypes
<1>2. ASSUME UNCHANGED <<key, participants, dealt, confirmed, fetched, revoked>>, status' \in Status,
             \/ Answer(r)
             \/ \E changed \in Request : Step(r, changed) /\ RequestOK(changed)
      PROVE  KeyInv'
  <2>1. /\ page' \in [Holder -> Page] /\ \A h \in Holder : PageOK(h)'
        /\ requests' \in SUBSET Request /\ \A q \in requests' : RequestOK(q)
    BY <1>2, HandlerStep
  <2>2. CeremonyTypes'
    BY <1>2, <2>1 DEF KeyInv, CeremonyTypes
  <2> QED BY <1>2, <2>1, <2>2, QuietStep
<1>3. CASE LoadRound1(r)
  <2>1. UNCHANGED <<key, participants, dealt, confirmed, fetched, revoked, status>>
    BY <1>3 DEF LoadRound1, tables, history
  <2>2. CASE status = "qualified"
    <3>1. requests' = requests \ {r} /\ page' = Answered(r, <<"ready", 1>>)
      BY <1>3, <2>2 DEF LoadRound1
    <3>2. page' \in [Holder -> Page] /\ \A h \in Holder : PageOK(h)'
      BY <2>1, <3>1, Phases, PageAnswered
    <3>3. CeremonyTypes' /\ \A q \in requests' : RequestOK(q)
      BY <2>1, <3>1, <3>2 DEF KeyInv, CeremonyTypes
    <3> QED BY <2>1, <3>2, <3>3, QuietStep
  <2>3. CASE status # "qualified"
    <3> DEFINE changed == [r EXCEPT !.at = "upsert", !.seen = status]
    <3>1. changed \in Request /\ RequestOK(changed)
      BY <1>1 DEF Request, RequestOK
    <3>2. Step(r, changed)
      BY <1>3, <2>3 DEF LoadRound1
    <3> QED BY <1>1, <1>2, <2>1, <3>1, <3>2
  <2> QED BY <2>2, <2>3
<1>4. CASE UpsertRound1(r)
  BY <1>4, UpsertKeepsKey
<1>5. CASE UpdateStatus(r)
  <2>1. status' \in Status
    BY <1>5 DEF UpdateStatus, RoundName, Status
  <2>2. UNCHANGED <<key, participants, dealt, confirmed, fetched, revoked>> /\ Answer(r)
    BY <1>5 DEF UpdateStatus, history
  <2> QED BY <1>2, <2>1, <2>2
<1>6. CASE UpsertRound2(r)
  <2>1. /\ dealt' = [dealt EXCEPT ![r.from] = [ver |-> r.ver, to |-> r.to]]
        /\ Step(r, [r EXCEPT !.at = "load"])
        /\ UNCHANGED <<status, key, participants, confirmed, fetched, revoked>>
    BY <1>6 DEF UpsertRound2, history
  <2>2. [r EXCEPT !.at = "load"] \in Request /\ RequestOK([r EXCEPT !.at = "load"])
    BY NextCall
  <2>3. /\ page' \in [Holder -> Page] /\ \A h \in Holder : PageOK(h)'
        /\ requests' \in SUBSET Request /\ \A q \in requests' : RequestOK(q)
    BY <2>1, <2>2, HandlerStep
  <2>4. CeremonyTypes'
    BY <1>1, <2>1, <2>3 DEF KeyInv, CeremonyTypes, Request
  <2> QED BY <2>1, <2>3, <2>4, QuietStep
<1>7. CASE LoadRound2(r)
  <2>1. UNCHANGED <<key, participants, dealt, confirmed, fetched, revoked, status>>
    BY <1>7 DEF LoadRound2, tables, history
  <2>2. [r EXCEPT !.at = "update"] \in Request /\ RequestOK([r EXCEPT !.at = "update"])
    BY NextCall
  <2>3. Answer(r) \/ Step(r, [r EXCEPT !.at = "update"])
    BY <1>7 DEF LoadRound2
  <2> QED BY <1>1, <1>2, <2>1, <2>2, <2>3
<1>8. CASE Confirm(r)
  <2>1. /\ confirmed' = confirmed \cup {r.from}
        /\ Step(r, [r EXCEPT !.at = "count"])
        /\ UNCHANGED <<status, key, participants, dealt, fetched, revoked>>
    BY <1>8 DEF Confirm, history
  <2>2. [r EXCEPT !.at = "count"] \in Request /\ RequestOK([r EXCEPT !.at = "count"])
    BY NextCall
  <2>3. /\ page' \in [Holder -> Page] /\ \A h \in Holder : PageOK(h)'
        /\ requests' \in SUBSET Request /\ \A q \in requests' : RequestOK(q)
    BY <2>1, <2>2, HandlerStep
  <2>4. CeremonyTypes'
    BY <1>1, <2>1, <2>3 DEF KeyInv, CeremonyTypes, Request
  <2> QED BY <2>1, <2>3, <2>4, QuietStep
<1>9. CASE Count(r)
  <2>1. UNCHANGED <<key, participants, dealt, confirmed, fetched, revoked, status>>
    BY <1>9 DEF Count, tables, history
  <2>2. [r EXCEPT !.at = "combine"] \in Request /\ RequestOK([r EXCEPT !.at = "combine"])
    BY NextCall
  <2>3. Answer(r) \/ Step(r, [r EXCEPT !.at = "combine"])
    BY <1>9 DEF Count
  <2> QED BY <1>1, <1>2, <2>1, <2>2, <2>3
<1>10. CASE Combine(r)
  <2>1. UNCHANGED <<key, participants, dealt, confirmed, fetched, revoked, status>>
    BY <1>10 DEF Combine, tables, history
  <2>2. [r EXCEPT !.at = "read"] \in Request /\ RequestOK([r EXCEPT !.at = "read"])
    BY NextCall
  <2>3. Answer(r) \/ Step(r, [r EXCEPT !.at = "read"])
    BY <1>10 DEF Combine
  <2> QED BY <1>1, <1>2, <2>1, <2>2, <2>3
<1>13. CASE ReadParticipants(r)
  <2> DEFINE changed == [r EXCEPT !.at = "publish", !.key = KeyOf(participants)]
  <2>1. UNCHANGED <<key, participants, dealt, confirmed, fetched, revoked, status>>
    BY <1>13 DEF ReadParticipants, tables, history
  <2>2. KeyOf(participants) \in SUBSET Summand
    BY KeyOfType DEF KeyInv, CeremonyTypes
  <2>3. changed \in Request /\ changed.route = r.route /\ changed.key = KeyOf(participants)
    BY <1>1, <2>2 DEF Request
  <2>4. r.route = 3 /\ Step(r, changed)
    BY <1>13 DEF ReadParticipants
  <2> HIDE DEF changed
  <2>5. RequestOK(changed)
    BY <1>1, <2>3, <2>4 DEF RequestOK
  <2> QED BY <1>1, <1>2, <2>1, <2>3, <2>4, <2>5
<1>11. CASE Publish(r)
  <2> DEFINE changed == [r EXCEPT !.at = "shares", !.ver = 1]
  <2>1. /\ key' = r.key /\ status' = "qualified" /\ Step(r, changed)
        /\ UNCHANGED <<participants, dealt, confirmed, fetched, revoked>>
        /\ r.route = 3 /\ r.at = "publish"
    BY <1>11 DEF Publish, history
  <2>2. AllFetched /\ (revoked \/ r.key = KeyOf(participants))
    BY <1>1, <2>1 DEF RequestOK
  <2>3. changed \in Request /\ changed.route = 3 /\ changed.key = r.key
    BY <1>1, <2>1 DEF Request
  <2> HIDE DEF changed
  <2>4. RequestOK(changed)
    BY <2>2, <2>3 DEF RequestOK
  <2>5. /\ page' \in [Holder -> Page] /\ \A h \in Holder : PageOK(h)'
        /\ requests' \in SUBSET Request /\ \A q \in requests' : RequestOK(q)
    BY <2>1, <2>3, <2>4, HandlerStep
  <2>6. AllFetched' <=> AllFetched
    BY <2>1 DEF AllFetched
  <2>7. KeyOf(participants)' = KeyOf(participants)
    BY <2>1 DEF KeyOf
  <2>8. \A q \in requests' : RequestOK(q)'
    BY <2>1, <2>5, <2>6, <2>7 DEF RequestOK
  <2>9. r.key \in SUBSET Summand /\ "qualified" \in Status
    BY <1>1 DEF Request, Status
  <2>10. CeremonyTypes'
    BY <2>1, <2>5, <2>9 DEF KeyInv, CeremonyTypes
  <2>11. revoked' \/ \A s \in fetched' : s[2] = participants'[s[1]]
    BY <2>1 DEF KeyInv
  <2> QED BY <2>1, <2>2, <2>5, <2>6, <2>7, <2>8, <2>10, <2>11 DEF KeyInv
<1>12. CASE PublishShare(r)
  <2> DEFINE changed == [r EXCEPT !.ver = @ + 1]
  <2>1. UNCHANGED <<key, participants, dealt, confirmed, fetched, revoked, status>>
    BY <1>12 DEF PublishShare, history
  <2>2. changed \in Request /\ RequestOK(changed)
    BY <1>1 DEF Request, RequestOK
  <2>3. Answer(r) \/ Step(r, changed)
    BY <1>12 DEF PublishShare
  <2> QED BY <1>1, <1>2, <2>1, <2>2, <2>3
<1> QED
  BY <1>3, <1>4, <1>5, <1>6, <1>7, <1>8, <1>9, <1>10, <1>11, <1>12, <1>13 DEF Handle

\* A status that is not stored.
LEMMA StatusStaysKeepsKey == ASSUME KeyInv, NEW r \in requests, StatusStays(r) PROVE KeyInv'
<1>1. UNCHANGED <<key, participants, dealt, confirmed, fetched, revoked, status>> /\ Answer(r)
  BY DEF StatusStays, tables, history
<1>2. /\ page' \in [Holder -> Page] /\ \A h \in Holder : PageOK(h)'
      /\ requests' \in SUBSET Request /\ \A q \in requests' : RequestOK(q)
  BY <1>1, HandlerStep
<1>3. CeremonyTypes'
  BY <1>1, <1>2 DEF KeyInv, CeremonyTypes
<1> QED BY <1>1, <1>2, <1>3, QuietStep

LEMMA StutterKeepsKey ==
    ASSUME KeyInv, UNCHANGED <<key, participants, dealt, confirmed, fetched, revoked, page, requests>>,
           status' \in Status
    PROVE  KeyInv'
<1>1. CeremonyTypes'
  BY DEF KeyInv, CeremonyTypes
<1>2. (\A h \in Holder : PageOK(h)') /\ \A r \in requests' : RequestOK(r)
  BY DEF KeyInv, PageOK
<1> QED BY <1>1, <1>2, QuietStep

LEMMA CeremonyKeepsKey == KeyInv /\ [CeremonyNext]_ceremonyVars => KeyInv'
<1>1. ASSUME KeyInv, UNCHANGED ceremonyVars
      PROVE  KeyInv'
  BY <1>1, StutterKeepsKey DEF KeyInv, CeremonyTypes, ceremonyVars, tables, history
<1>2. ASSUME KeyInv, InitCeremony
      PROVE  KeyInv'
  BY <1>2, StutterKeepsKey DEF InitCeremony, history, Status
<1> QED
  BY <1>1, <1>2, PageKeepsKey, LeavingKeepsKey, FailingKeepsKey, RestartKeepsKey,
     StatusStaysKeepsKey, HandlersKeepKey DEF CeremonyNext

\* Any number of holders and of lost, late or repeated requests: what is published as the key
\* is the sum of polynomials that were fetched to check sub-shares against, unless one of
\* those was replaced (dkg.ts rounds 1 to 3, combineAndQualify).
THEOREM KeyIsWhatWasFetched == CeremonySpec => []KeyInv
BY InitKey, CeremonyKeepsKey, PTL DEF CeremonySpec

-----------------------------------------------------------------------------
(***************************************************************************)
(* A dealer's sub-shares are never replaced by those of another attempt: a  *)
(* page that has dealt cannot come back to round 1, and its session holds   *)
(* the attempt it dealt, or nothing. So there is one share to be had.       *)
(***************************************************************************)
Early == {<<"ready", 1>>, <<"sent", 1>>}

\* Attempt v of a dealer is in dkg_shares, or on its way there.
DealtFrom(h, v) ==
    /\ v # 0
    /\ \/ dealt[h].ver = v
       \/ \E r \in requests : r.route = 2 /\ r.from = h /\ r.ver = v

\* The sum of all that was dealt so far.
DealtShare == { <<i, dealt[i].ver>> : i \in Inbox }

IsKey(k) == \E f \in [Holder -> Nat] : k = KeyOf(f)

RequestDeals(r) ==
    /\ r.route = 1 => r.ver # 0
    /\ r.route = 2 => r.ver # 0 /\ (r.at # "upsert" => dealt[r.from].ver # 0)
    /\ r.at \in {"publish", "shares"} => IsKey(r.key)

KeysAreKeys ==
    /\ key = {} \/ IsKey(key)
    /\ y = [h \in Holder |-> y[h]] /\ \A h \in Holder : y[h] = {} \/ IsKey(y[h])

DealInv ==
    /\ \A h \in Holder, v, w \in Nat : DealtFrom(h, v) /\ DealtFrom(h, w) => v = w
    /\ \A h \in Holder, v \in Nat : DealtFrom(h, v) =>
          /\ participants[h] # 0
          /\ page[h].phase \notin Early /\ page[h].session \in {v, 0}
    /\ \A h \in Holder : page[h].share \subseteq DealtShare
    /\ \A r \in requests : RequestDeals(r)
    /\ KeysAreKeys

\* A page that may have dealt neither starts again nor draws another attempt.
CalmPage(h) ==
    /\ page'[h].share \subseteq page[h].share \cup DealtShare
    /\ \/ page[h].phase \in Early \/ participants[h] = 0
       \/ page'[h].phase \notin Early /\ page'[h].session \in {page[h].session, 0}

DealtNow(h, v) == v = page[h].session /\ participants[h] # 0 /\ page[h].phase \notin Early

\* What a dealer has stored in dkg_shares is of one attempt for good.
DealsAreFinal ==
    \A h \in Holder : dealt[h].ver # 0 => dealt'[h].ver = dealt[h].ver

LEMMA InitDeals == ASSUME CeremonyInit PROVE DealInv
<1>1. \A h \in Holder : dealt[h].ver = 0 /\ page[h].share = {}
  BY DEF CeremonyInit
<1>2. requests = {}
  BY DEF CeremonyInit
<1>3. \A h \in Holder : \A v : ~DealtFrom(h, v)
  BY <1>1, <1>2 DEF DealtFrom
<1>4. KeysAreKeys
  BY DEF CeremonyInit, KeysAreKeys
<1> QED BY <1>1, <1>2, <1>3, <1>4 DEF DealInv

LEMMA DealsStay ==
    ASSUME KeyInv, DealInv, CeremonyTypes',
           \A h \in Holder : CalmPage(h),
           \A h \in Holder, v \in Nat : DealtFrom(h, v)' => DealtFrom(h, v) \/ DealtNow(h, v),
           \A h \in Holder : participants[h] # 0 => participants'[h] # 0,
           DealsAreFinal, \A r \in requests' : RequestDeals(r)', KeysAreKeys'
    PROVE  DealInv'
<1>1. ASSUME NEW h \in Holder, NEW v \in Nat, NEW w \in Nat, DealtFrom(h, v)', DealtFrom(h, w)'
      PROVE  v = w
  <2>1. v # 0 /\ w # 0
    BY <1>1 DEF DealtFrom
  <2>2. DealtFrom(h, v) \/ v = page[h].session
    BY <1>1 DEF DealtNow
  <2>3. DealtFrom(h, w) \/ w = page[h].session
    BY <1>1 DEF DealtNow
  <2>4. \A u \in Nat : DealtFrom(h, u) => page[h].session \in {u, 0}
    BY DEF DealInv
  <2>5. DealtFrom(h, v) /\ DealtFrom(h, w) => v = w
    BY DEF DealInv
  <2> QED BY <2>1, <2>2, <2>3, <2>4, <2>5
<1>2. ASSUME NEW h \in Holder, NEW v \in Nat, DealtFrom(h, v)'
      PROVE  /\ participants'[h] # 0
             /\ page'[h].phase \notin Early /\ page'[h].session \in {v, 0}
  <2>1. /\ participants[h] # 0
        /\ page[h].phase \notin Early /\ page[h].session \in {v, 0}
    BY <1>2 DEF DealInv, DealtNow
  <2> QED BY <2>1 DEF CalmPage
<1>3. ASSUME NEW h \in Holder
      PROVE  page'[h].share \subseteq DealtShare'
  <2> SUFFICES ASSUME NEW s \in page'[h].share
               PROVE  s \in DealtShare'
    OBVIOUS
  <2>1. s \in DealtShare
    BY DEF CalmPage, DealInv
  <2>2. PICK i \in Inbox : s = <<i, dealt[i].ver>>
    BY <2>1 DEF DealtShare
  <2>3. i \in Holder /\ dealt[i].ver # 0 /\ dealt'[i].ver = dealt[i].ver
    BY DEF Inbox, DealsAreFinal
  <2> QED BY <2>2, <2>3 DEF DealtShare, Inbox
<1> QED BY <1>1, <1>2, <1>3 DEF DealInv

\* A step that deals nothing.
LEMMA NothingDealt ==
    ASSUME KeyInv, DealInv, CeremonyTypes',
           \A h \in Holder : CalmPage(h),
           \A q \in requests' : q.route = 2 =>
              \E r \in requests : r.route = 2 /\ r.from = q.from /\ r.ver = q.ver,
           \A h \in Holder : participants[h] # 0 => participants'[h] # 0,
           dealt' = dealt,
           \A r \in requests' : RequestDeals(r), KeysAreKeys'
    PROVE  DealInv'
<1>1. \A h \in Holder, v \in Nat : DealtFrom(h, v)' => DealtFrom(h, v)
  BY DEF DealtFrom
<1>2. \A r \in requests' : RequestDeals(r)'
  BY DEF RequestDeals
<1>3. DealsAreFinal
  BY DEF DealsAreFinal
<1> QED BY <1>1, <1>2, <1>3, DealsStay

\* A page changes, and the requests perhaps by one for another round.
LEMMA PageDeals ==
    ASSUME KeyInv, DealInv, CeremonyTypes', NEW h \in Holder, NEW p \in Page, Show(h, p),
           \/ requests' \subseteq requests
           \/ \E r : requests' = requests \cup {r} /\ r.route # 2 /\ RequestDeals(r),
           UNCHANGED tables,
           p.share \subseteq page[h].share \cup DealtShare,
           \/ page[h].phase \in Early \/ participants[h] = 0
           \/ p.phase \notin Early /\ p.session \in {page[h].session, 0}
    PROVE  DealInv'
<1>1. page'[h] = p /\ \A i \in Holder \ {h} : page'[i] = page[i]
  BY DEF Show, KeyInv, CeremonyTypes
<1>2. CalmPage(h)
  BY <1>1 DEF CalmPage
<1>3. \A i \in Holder \ {h} : CalmPage(i)
  BY <1>1 DEF CalmPage
<1>4. \A q \in requests' : q.route = 2 => q \in requests
  OBVIOUS
<1>5. \A q \in requests' : RequestDeals(q)
  BY DEF DealInv
<1>6. participants' = participants /\ dealt' = dealt /\ key' = key /\ y' = y
  BY DEF tables
<1>7. KeysAreKeys'
  BY <1>6 DEF DealInv, KeysAreKeys
<1> QED BY <1>2, <1>3, <1>4, <1>5, <1>6, <1>7, NothingDealt

LEMMA EarlyPhases ==
    /\ \A n \in 0..3 : <<"ready", n>> \in Early <=> n = 1
    /\ \A n \in 0..3 : <<"sent", n>> \in Early <=> n = 1
    /\ \A n \in 0..3 : /\ <<"waiting", n>> \notin Early /\ <<"auth", n>> \notin Early
                       /\ <<"reading", n>> \notin Early /\ <<"qualified", n>> \notin Early
BY DEF Early

\* A page that goes on to another phase, and changes nothing else.
LEMMA TurnDeals ==
    ASSUME KeyInv, DealInv, CeremonyTypes', NEW h \in Holder, NEW from, NEW to \in Phase,
           Turn(h, from, to), UNCHANGED <<tables, requests>>,
           page[h].phase \in Early \/ participants[h] = 0 \/ to \notin Early
    PROVE  DealInv'
<1> DEFINE p == [page[h] EXCEPT !.phase = to]
<1>1. page[h] \in Page
  BY DEF KeyInv, CeremonyTypes
<1>2. p \in Page /\ p.share = page[h].share /\ p.phase = to /\ p.session = page[h].session
  BY <1>1 DEF Page
<1>3. Show(h, p)
  BY DEF Turn
<1> HIDE DEF p
<1> QED BY <1>2, <1>3, PageDeals

LEMMA PagesDeal ==
    ASSUME KeyInv, DealInv, KeyInv', NEW h \in Holder, PageStep(h)
    PROVE  DealInv'
<1>1. page[h] \in Page /\ NoAttempt \in [Holder -> Nat] /\ participants \in [Holder -> Nat]
  BY DEF KeyInv, CeremonyTypes, NoAttempt
<1>2. CeremonyTypes'
  BY DEF KeyInv
<1>3. CASE Resume(h)
  <2>1. ResumesAt(h) \in Phase /\ (ResumesAt(h) \in Early => participants[h] = 0)
    BY Phases DEF ResumesAt, Early
  <2>2. Turn(h, <<"auth", 0>>, ResumesAt(h)) /\ UNCHANGED <<tables, requests>>
    BY <1>3 DEF Resume
  <2> QED BY <1>2, <2>1, <2>2, TurnDeals
<1>4. CASE PollRound1(h) \/ PollRound2(h) \/ PollRound3(h)
  <2>1. PICK to \in {<<"ready", 2>>, <<"ready", 3>>, <<"qualified", 0>>} :
            \E from : Turn(h, from, to)
    BY <1>4 DEF PollRound1, PollRound2, PollRound3
  <2>2. UNCHANGED <<tables, requests>>
    BY <1>4 DEF PollRound1, PollRound2, PollRound3
  <2>3. to \in Phase /\ to \notin Early
    BY Phases DEF Early
  <2> QED BY <1>2, <2>1, <2>2, <2>3, TurnDeals
<1>5. CASE RunRound1(h)
  <2> DEFINE attempt == page[h].made + 1
             p == [page[h] EXCEPT !.phase = <<"sent", 1>>, !.made = attempt, !.session = attempt]
             r == [from |-> h, route |-> 1, at |-> "load", ver |-> attempt,
                   to |-> NoAttempt, seen |-> None, key |-> {}]
  <2>1. attempt \in Nat \ {0}
    BY <1>1 DEF Page
  <2>2. /\ page[h].phase = <<"ready", 1>> /\ Show(h, p) /\ requests' = requests \cup {r}
        /\ UNCHANGED tables
    BY <1>5 DEF RunRound1, Send
  <2> HIDE DEF attempt
  <2>3. p \in Page /\ p.share = page[h].share
    <3>1. <<"sent", 1>> \in Phase
      BY Phases
    <3> QED BY <1>1, <2>1, <3>1 DEF Page
  <2>4. r.route # 2 /\ RequestDeals(r)
    BY <2>1 DEF RequestDeals
  <2>5. page[h].phase \in Early
    BY <2>2 DEF Early
  <2> HIDE DEF p, r
  <2> QED BY <1>2, <2>2, <2>3, <2>4, <2>5, PageDeals
<1>6. CASE RunRound2(h)
  <2> DEFINE p == [page[h] EXCEPT !.phase = <<"sent", 2>>]
             v == page[h].session
             r == [from |-> h, route |-> 2, at |-> "upsert", ver |-> v,
                   to |-> participants, seen |-> None, key |-> {}]
  <2>1. /\ Published /\ v # 0 /\ page[h].phase = <<"ready", 2>>
        /\ Show(h, p) /\ requests' = requests \cup {r} /\ UNCHANGED tables
    BY <1>6 DEF RunRound2, Send, Turn
  <2>2. p \in Page /\ p.share = page[h].share /\ p.session = v /\ p.phase = <<"sent", 2>>
    <3>1. <<"sent", 2>> \in Phase
      BY Phases
    <3> QED BY <1>1, <3>1 DEF Page
  <2>3. page[h].phase \notin Early /\ p.phase \notin Early
    BY <2>1, <2>2 DEF Early
  <2>4. page'[h] = p /\ \A i \in Holder \ {h} : page'[i] = page[i]
    BY <2>1 DEF Show, KeyInv, CeremonyTypes
  <2>5. \A i \in Holder : CalmPage(i)
    <3>1. CalmPage(h)
      BY <2>2, <2>3, <2>4 DEF CalmPage
    <3>2. \A i \in Holder \ {h} : CalmPage(i)
      BY <2>4 DEF CalmPage
    <3> QED BY <3>1, <3>2
  <2>6. r.route = 2 /\ r.from = h /\ r.ver = v /\ RequestDeals(r)
    BY <2>1 DEF RequestDeals
  <2>7. dealt' = dealt /\ participants' = participants /\ key' = key /\ y' = y
    BY <2>1 DEF tables
  <2>8. DealtNow(h, v)
    BY <2>1, <2>3 DEF DealtNow, Published
  <2> HIDE DEF p, r, v
  <2>9. \A i \in Holder, w \in Nat : DealtFrom(i, w)' => DealtFrom(i, w) \/ DealtNow(i, w)
    BY <2>1, <2>6, <2>7, <2>8 DEF DealtFrom
  <2>10. \A q \in requests' : RequestDeals(q)'
    BY <2>1, <2>6, <2>7 DEF DealInv, RequestDeals
  <2>11. KeysAreKeys'
    BY <2>7 DEF DealInv, KeysAreKeys
  <2>12. DealsAreFinal
    BY <2>7 DEF DealsAreFinal
  <2> QED BY <1>2, <2>5, <2>7, <2>9, <2>10, <2>11, <2>12, DealsStay
<1>7. CASE FetchRound1(h)
  <2> DEFINE p == [page[h] EXCEPT !.phase = <<"reading", 3>>, !.round1 = participants]
  <2>1. Show(h, p) /\ UNCHANGED <<tables, requests>>
    BY <1>7 DEF FetchRound1
  <2>2. /\ p \in Page /\ p.share = page[h].share /\ p.session = page[h].session
        /\ p.phase = <<"reading", 3>>
    <3>1. <<"reading", 3>> \in Phase
      BY Phases
    <3> QED BY <1>1, <3>1 DEF Page
  <2>3. p.phase \notin Early
    BY <2>2 DEF Early
  <2> HIDE DEF p
  <2> QED BY <1>2, <2>1, <2>2, <2>3, PageDeals
<1>8. CASE RunRound3(h)
  <2>1. CASE \A i \in Inbox : Opens(h, i, page[h].round1)
    <3> DEFINE p == [page[h] EXCEPT !.phase = <<"sent", 3>>, !.round1 = NoAttempt,
                                    !.share = DealtShare]
               r == [from |-> h, route |-> 3, at |-> "confirm", ver |-> 0,
                     to |-> NoAttempt, seen |-> None, key |-> {}]
    <3>1. Show(h, p) /\ requests' = requests \cup {r} /\ UNCHANGED tables
      BY <1>8, <2>1 DEF RunRound3, Send, DealtShare
    <3>2. DealtShare \in SUBSET Summand
      BY DEF DealtShare, Inbox, Summand, KeyInv, CeremonyTypes
    <3>3. /\ p \in Page /\ p.share = DealtShare /\ p.session = page[h].session
          /\ p.phase = <<"sent", 3>>
      <4>1. <<"sent", 3>> \in Phase
        BY Phases
      <4> QED BY <1>1, <3>2, <4>1 DEF Page
    <3>4. p.phase \notin Early
      BY <3>3 DEF Early
    <3>5. r.route # 2 /\ RequestDeals(r)
      BY DEF RequestDeals
    <3> HIDE DEF p, r
    <3> QED BY <1>2, <3>1, <3>3, <3>4, <3>5, PageDeals
  <2>2. CASE ~\A i \in Inbox : Opens(h, i, page[h].round1)
    <3> DEFINE p == [page[h] EXCEPT !.phase = <<"ready", 3>>, !.round1 = NoAttempt]
    <3>1. Show(h, p) /\ UNCHANGED <<tables, requests>>
      BY <1>8, <2>2 DEF RunRound3
    <3>2. /\ p \in Page /\ p.share = page[h].share /\ p.session = page[h].session
          /\ p.phase = <<"ready", 3>>
      <4>1. <<"ready", 3>> \in Phase
        BY Phases
      <4> QED BY <1>1, <4>1 DEF Page
    <3>3. p.phase \notin Early
      BY <3>2 DEF Early
    <3> HIDE DEF p
    <3> QED BY <1>2, <3>1, <3>2, <3>3, PageDeals
  <2> QED BY <2>1, <2>2
<1> QED BY <1>3, <1>4, <1>5, <1>6, <1>7, <1>8 DEF PageStep

LEMMA LeavingDeals ==
    ASSUME KeyInv, DealInv, KeyInv', NEW h \in Holder, Leave(h)
    PROVE  DealInv'
<1>1. PICK left \in Reloads(h), session \in {page[h].session, 0} :
         Show(h, [left EXCEPT !.session = session])
  BY DEF Leave
<1> DEFINE p == [left EXCEPT !.session = session]
<1>2. /\ left \in Page /\ left.share \subseteq page[h].share /\ left.phase = <<"auth", 0>>
      /\ left.session = page[h].session
  BY Reloading
<1>3. session \in Nat
  BY DEF KeyInv, CeremonyTypes, Page
<1>4. p \in Page /\ p.share = left.share /\ p.session = session /\ p.phase = <<"auth", 0>>
  BY <1>2, <1>3 DEF Page
<1>5. p.phase \notin Early /\ p.share \subseteq page[h].share
  BY <1>2, <1>4 DEF Early
<1>6. Show(h, p)
  BY <1>1
<1>7. UNCHANGED <<tables, requests>> /\ CeremonyTypes'
  BY DEF Leave, KeyInv
<1> HIDE DEF p
<1> QED BY <1>4, <1>5, <1>6, <1>7, PageDeals

LEMMA FailingDeals ==
    ASSUME KeyInv, DealInv, KeyInv', NEW r \in requests, CallFails(r)
    PROVE  DealInv'
<1>1. PICK shown \in {Retried(r)} \cup Reloads(r.from) : Show(r.from, shown)
  BY DEF CallFails
<1>2. r.from \in Holder /\ r.route \in 1..3
  BY DEF KeyInv, CeremonyTypes, Request
<1>3. /\ shown \in Page /\ shown.share \subseteq page[r.from].share
      /\ shown.session = page[r.from].session
      /\ shown.phase \in {<<"ready", r.route>>, <<"auth", 0>>}
  BY RetriedPage
<1>4. /\ requests' \subseteq requests /\ page[r.from].phase = <<"sent", r.route>>
      /\ UNCHANGED tables /\ CeremonyTypes'
  BY DEF CallFails, Waiting, KeyInv
<1>5. page[r.from].phase \in Early \/ shown.phase \notin Early
  <2>1. r.route \in 0..3
    BY <1>2
  <2>2. shown.phase \in Early => r.route = 1
    BY <1>3, <2>1, EarlyPhases
  <2>3. r.route = 1 => page[r.from].phase \in Early
    BY <1>4 DEF Early
  <2> QED BY <2>2, <2>3
<1> QED BY <1>1, <1>2, <1>3, <1>4, <1>5, PageDeals

LEMMA RestartDeals == ASSUME KeyInv, DealInv, KeyInv', Restart PROVE DealInv'
<1>1. requests' = {} /\ UNCHANGED <<key, y, participants, dealt>> /\ CeremonyTypes'
  BY DEF Restart, tables, KeyInv
<1>2. ASSUME NEW h \in Holder
      PROVE  CalmPage(h)
  <2>1. /\ page'[h].share = page[h].share /\ page'[h].session = page[h].session
        /\ \/ page'[h] = page[h]
           \/ \E n \in 1..3 : page[h].phase = <<"sent", n>> /\ page'[h].phase = <<"ready", n>>
    BY RestartedPage
  <2>2. page'[h].phase \in Early => page[h].phase \in Early
    BY <2>1, EarlyPhases
  <2> QED BY <2>1, <2>2 DEF CalmPage
<1>3. KeysAreKeys'
  BY <1>1 DEF DealInv, KeysAreKeys
<1> QED BY <1>1, <1>2, <1>3, NothingDealt

\* An answer moves on the page that waits for it.
LEMMA AnsweredIsCalm ==
    ASSUME KeyInv, NEW r \in requests, NEW phase, page' = Answered(r, phase),
           phase \in Early => r.route = 1
    PROVE  \A h \in Holder : CalmPage(h)
<1> DEFINE h == r.from
           p == [page[h] EXCEPT !.phase = phase,
                                !.session = IF r.route = 3 THEN 0 ELSE page[h].session]
<1>1. h \in Holder /\ page \in [Holder -> Page] /\ page[h] \in Page
  BY DEF KeyInv, CeremonyTypes, Request
<1>2. p.share = page[h].share /\ p.phase = phase /\ p.session \in {page[h].session, 0}
  BY <1>1 DEF Page
<1>3. page' = page \/ (Waiting(r) /\ page' = [page EXCEPT ![h] = p])
  BY <1>1 DEF Answered
<1>4. Waiting(r) /\ phase \in Early => page[h].phase \in Early
  BY DEF Waiting, Early
<1> HIDE DEF p, h
<1>5. CASE page' = page
  <2> SUFFICES ASSUME NEW i \in Holder
               PROVE  CalmPage(i)
    OBVIOUS
  <2> QED BY <1>5 DEF CalmPage
<1>6. CASE Waiting(r) /\ page' = [page EXCEPT ![h] = p]
  <2>1. page'[h] = p /\ \A i \in Holder \ {h} : page'[i] = page[i]
    BY <1>1, <1>6
  <2>2. CalmPage(h)
    BY <1>2, <1>4, <1>6, <2>1 DEF CalmPage
  <2>3. \A i \in Holder \ {h} : CalmPage(i)
    BY <2>1 DEF CalmPage
  <2> QED BY <2>2, <2>3
<1> QED BY <1>3, <1>5, <1>6

\* What a request leaves to its handler's next call.
Follows(changed, r) ==
    /\ changed.from = r.from /\ changed.route = r.route
    /\ r.route = 2 => changed.ver = r.ver

LEMMA HandlerPages ==
    ASSUME KeyInv, DealInv, NEW r \in requests,
           Answer(r) \/ \E changed : Step(r, changed) /\ Follows(changed, r)
    PROVE  /\ \A h \in Holder : CalmPage(h)
           /\ \A q \in requests' : q.route = 2 =>
                 \E s \in requests : s.route = 2 /\ s.from = q.from /\ s.ver = q.ver
<1>1. CASE Answer(r)
  <2>1. /\ page' = Answered(r, <<"waiting", r.route>>) /\ requests' = requests \ {r}
        /\ <<"waiting", r.route>> \notin Early
    BY <1>1 DEF Answer, Early
  <2> QED BY <2>1, AnsweredIsCalm
<1>2. ASSUME NEW changed, Step(r, changed), Follows(changed, r)
      PROVE  /\ \A h \in Holder : CalmPage(h)
             /\ \A q \in requests' : q.route = 2 =>
                   \E s \in requests : s.route = 2 /\ s.from = q.from /\ s.ver = q.ver
  <2>1. page' = page /\ requests' = (requests \ {r}) \cup {changed}
    BY <1>2 DEF Step
  <2>2. ASSUME NEW h \in Holder
        PROVE  CalmPage(h)
    BY <2>1 DEF CalmPage
  <2> QED BY <1>2, <2>1, <2>2 DEF Follows
<1> QED BY <1>1, <1>2

LEMMA HandlerDeals ==
    ASSUME KeyInv, DealInv, CeremonyTypes', NEW r \in requests, dealt' = dealt, KeysAreKeys',
           \A h \in Holder : participants[h] # 0 => participants'[h] # 0,
           \/ Answer(r)
           \/ \E changed : Step(r, changed) /\ Follows(changed, r) /\ RequestDeals(changed)
    PROVE  DealInv'
<1>1. \A q \in requests' : RequestDeals(q)
  BY DEF DealInv, Answer, Step
<1> QED BY <1>1, HandlerPages, NothingDealt

LEMMA UpsertKeepsDeals ==
    ASSUME KeyInv, DealInv, NEW r \in requests, UpsertRound2(r)
    PROVE  DealsAreFinal
<1>1. r.from \in Holder /\ r.ver \in Nat /\ RequestDeals(r)
  BY DEF KeyInv, CeremonyTypes, Request, DealInv
<1>2. dealt \in [Holder -> [ver : Nat, to : [Holder -> Nat]]]
  BY DEF KeyInv, CeremonyTypes
<1>3. r.route = 2 /\ dealt' = [dealt EXCEPT ![r.from] = [ver |-> r.ver, to |-> r.to]]
  BY DEF UpsertRound2
<1>4. dealt'[r.from].ver = r.ver /\ \A h \in Holder \ {r.from} : dealt'[h] = dealt[h]
  BY <1>1, <1>2, <1>3
<1>5. DealtFrom(r.from, r.ver)
  BY <1>1, <1>3 DEF RequestDeals, DealtFrom
<1>6. dealt[r.from].ver # 0 => dealt[r.from].ver = r.ver
  <2>1. dealt[r.from].ver # 0 => DealtFrom(r.from, dealt[r.from].ver)
    BY DEF DealtFrom
  <2>2. dealt[r.from].ver \in Nat
    BY <1>1, <1>2
  <2> QED BY <1>1, <1>5, <2>1, <2>2 DEF DealInv
<1> QED BY <1>4, <1>6 DEF DealsAreFinal

LEMMA HandlersDeal ==
    ASSUME KeyInv, DealInv, KeyInv', NEW r \in requests, Handle(r)
    PROVE  DealInv'
<1>1. r \in Request /\ RequestOK(r) /\ RequestDeals(r) /\ r.from \in Holder
  BY DEF KeyInv, CeremonyTypes, Request, DealInv
<1>2. CeremonyTypes'
  BY DEF KeyInv
<1>3. ASSUME UNCHANGED <<key, y, participants, dealt>>,
             \/ Answer(r)
             \/ \E changed : Step(r, changed) /\ Follows(changed, r) /\ RequestDeals(changed)
      PROVE  DealInv'
  <2>1. KeysAreKeys'
    BY <1>3 DEF DealInv, KeysAreKeys
  <2> QED BY <1>2, <1>3, <2>1, HandlerDeals
<1>4. CASE LoadRound1(r)
  <2>1. r.route = 1 /\ r.at = "load" /\ UNCHANGED <<key, y, participants, dealt>>
    BY <1>4 DEF LoadRound1, tables
  <2>2. CASE status = "qualified"
    <3>1. requests' = requests \ {r} /\ page' = Answered(r, <<"ready", 1>>)
      BY <1>4, <2>2 DEF LoadRound1
    <3>2. \A h \in Holder : CalmPage(h)
      BY <2>1, <3>1, AnsweredIsCalm
    <3>3. \A q \in requests' : RequestDeals(q)
      BY <3>1 DEF DealInv
    <3>4. KeysAreKeys'
      BY <2>1 DEF DealInv, KeysAreKeys
    <3> QED BY <1>2, <2>1, <3>1, <3>2, <3>3, <3>4, NothingDealt
  <2>3. CASE status # "qualified"
    <3> DEFINE changed == [r EXCEPT !.at = "upsert", !.seen = status]
    <3>1. Follows(changed, r) /\ RequestDeals(changed)
      BY <1>1, <2>1 DEF Request, RequestDeals, Follows
    <3>2. Step(r, changed)
      BY <1>4, <2>3 DEF LoadRound1
    <3> QED BY <1>3, <2>1, <3>1, <3>2
  <2> QED BY <2>2, <2>3
<1>5. CASE UpsertRound1(r)
  <2> DEFINE changed == [r EXCEPT !.at = "update"]
  <2>1. /\ r.route = 1 /\ participants' = [participants EXCEPT ![r.from] = r.ver]
        /\ UNCHANGED <<key, y, dealt>> /\ (Answer(r) \/ Step(r, changed))
    BY <1>5 DEF UpsertRound1
  <2>2. Follows(changed, r) /\ RequestDeals(changed)
    BY <1>1, <2>1 DEF Request, RequestDeals, Follows
  <2>3. \A h \in Holder : participants[h] # 0 => participants'[h] # 0
    BY <1>1, <2>1 DEF KeyInv, CeremonyTypes, RequestDeals
  <2>4. KeysAreKeys'
    BY <2>1 DEF DealInv, KeysAreKeys
  <2> HIDE DEF changed
  <2> QED BY <1>2, <2>1, <2>2, <2>3, <2>4, HandlerDeals
<1>6. CASE UpdateStatus(r)
  BY <1>3, <1>6 DEF UpdateStatus
<1>7. CASE UpsertRound2(r)
  <2> DEFINE changed == [r EXCEPT !.at = "load"]
             row == [ver |-> r.ver, to |-> r.to]
  <2>1. /\ r.route = 2 /\ r.at = "upsert" /\ dealt' = [dealt EXCEPT ![r.from] = row]
        /\ Step(r, changed) /\ UNCHANGED <<key, y, participants>>
    BY <1>7 DEF UpsertRound2
  <2>2. r.ver \in Nat /\ r.ver # 0 /\ DealtFrom(r.from, r.ver)
    BY <1>1, <2>1 DEF Request, RequestDeals, DealtFrom
  <2>3. /\ changed.from = r.from /\ changed.route = 2 /\ changed.ver = r.ver
        /\ changed.at = "load"
    BY <1>1, <2>1 DEF Request
  <2>4. dealt \in [Holder -> [ver : Nat, to : [Holder -> Nat]]]
    BY DEF KeyInv, CeremonyTypes
  <2>5. dealt'[r.from].ver = r.ver /\ \A h \in Holder \ {r.from} : dealt'[h] = dealt[h]
    BY <1>1, <2>1, <2>4
  <2>6. DealsAreFinal
    BY <1>7, UpsertKeepsDeals
  <2> HIDE DEF changed, row
  <2>7. requests' = (requests \ {r}) \cup {changed} /\ Follows(changed, r)
    BY <2>1, <2>3 DEF Step, Follows
  <2>8. \A h \in Holder : CalmPage(h)
    BY <2>1, <2>7, HandlerPages
  <2>9. \A h \in Holder, v \in Nat : DealtFrom(h, v)' => DealtFrom(h, v)
    BY <1>1, <2>1, <2>2, <2>3, <2>5, <2>7 DEF DealtFrom
  <2>10. \A q \in requests' : RequestDeals(q)'
    <3>1. RequestDeals(changed)'
      BY <1>1, <2>2, <2>3, <2>5 DEF RequestDeals
    <3>2. ASSUME NEW q \in requests
          PROVE  RequestDeals(q)'
      <4>1. q.from \in Holder /\ RequestDeals(q)
        BY DEF KeyInv, CeremonyTypes, Request, DealInv
      <4>2. dealt[q.from].ver # 0 => dealt'[q.from].ver # 0
        BY <2>2, <2>5, <4>1
      <4> QED BY <4>1, <4>2 DEF RequestDeals
    <3> QED BY <2>7, <3>1, <3>2
  <2>11. KeysAreKeys'
    BY <2>1 DEF DealInv, KeysAreKeys
  <2> QED BY <1>2, <2>1, <2>6, <2>8, <2>9, <2>10, <2>11, DealsStay
<1>8. CASE LoadRound2(r)
  <2> DEFINE changed == [r EXCEPT !.at = "update"]
  <2>1. /\ r.route = 2 /\ r.at = "load" /\ UNCHANGED <<key, y, participants, dealt>>
        /\ (Answer(r) \/ Step(r, changed))
    BY <1>8 DEF LoadRound2, tables
  <2>2. Follows(changed, r) /\ RequestDeals(changed)
    BY <1>1, <2>1 DEF Request, RequestDeals, Follows
  <2> HIDE DEF changed
  <2> QED BY <1>3, <2>1, <2>2
<1>9. CASE Confirm(r)
  <2> DEFINE changed == [r EXCEPT !.at = "count"]
  <2>1. r.route = 3 /\ UNCHANGED <<key, y, participants, dealt>> /\ Step(r, changed)
    BY <1>9 DEF Confirm
  <2>2. Follows(changed, r) /\ RequestDeals(changed)
    BY <1>1, <2>1 DEF Request, RequestDeals, Follows
  <2> HIDE DEF changed
  <2> QED BY <1>3, <2>1, <2>2
<1>10. CASE Count(r)
  <2> DEFINE changed == [r EXCEPT !.at = "combine"]
  <2>1. /\ r.route = 3 /\ UNCHANGED <<key, y, participants, dealt>>
        /\ (Answer(r) \/ Step(r, changed))
    BY <1>10 DEF Count, tables
  <2>2. Follows(changed, r) /\ RequestDeals(changed)
    BY <1>1, <2>1 DEF Request, RequestDeals, Follows
  <2> HIDE DEF changed
  <2> QED BY <1>3, <2>1, <2>2
<1>11. CASE Combine(r)
  <2> DEFINE changed == [r EXCEPT !.at = "read"]
  <2>1. /\ r.route = 3 /\ UNCHANGED <<key, y, participants, dealt>>
        /\ (Answer(r) \/ Step(r, changed))
    BY <1>11 DEF Combine, tables
  <2>2. Follows(changed, r) /\ RequestDeals(changed)
    BY <1>1, <2>1 DEF Request, RequestDeals, Follows
  <2> HIDE DEF changed
  <2> QED BY <1>3, <2>1, <2>2
<1>14. CASE ReadParticipants(r)
  <2> DEFINE changed == [r EXCEPT !.at = "publish", !.key = KeyOf(participants)]
  <2>1. /\ r.route = 3 /\ UNCHANGED <<key, y, participants, dealt>>
        /\ Step(r, changed)
    BY <1>14 DEF ReadParticipants, tables
  <2>2. IsKey(KeyOf(participants))
    BY DEF IsKey, KeyInv, CeremonyTypes
  <2>3. Follows(changed, r) /\ RequestDeals(changed)
    BY <1>1, <2>1, <2>2 DEF Request, RequestDeals, Follows
  <2> HIDE DEF changed
  <2> QED BY <1>3, <2>1, <2>3
<1>12. CASE Publish(r)
  <2> DEFINE changed == [r EXCEPT !.at = "shares", !.ver = 1]
  <2>1. /\ r.route = 3 /\ r.at = "publish" /\ key' = r.key /\ Step(r, changed)
        /\ UNCHANGED <<y, participants, dealt>>
    BY <1>12 DEF Publish
  <2>2. IsKey(r.key)
    BY <1>1, <2>1 DEF RequestDeals
  <2>3. Follows(changed, r) /\ RequestDeals(changed)
    BY <1>1, <2>1, <2>2 DEF Request, RequestDeals, Follows
  <2>4. KeysAreKeys'
    BY <2>1, <2>2 DEF DealInv, KeysAreKeys
  <2> HIDE DEF changed
  <2> QED BY <1>2, <2>1, <2>3, <2>4, HandlerDeals
<1>13. CASE PublishShare(r)
  <2> DEFINE changed == [r EXCEPT !.ver = @ + 1]
  <2>1. /\ r.route = 3 /\ r.at = "shares" /\ y' = [y EXCEPT ![r.ver] = r.key]
        /\ UNCHANGED <<key, participants, dealt>> /\ (Answer(r) \/ Step(r, changed))
    BY <1>13 DEF PublishShare
  <2>2. IsKey(r.key)
    BY <1>1, <2>1 DEF RequestDeals
  <2>3. Follows(changed, r) /\ RequestDeals(changed)
    BY <1>1, <2>1, <2>2 DEF Request, RequestDeals, Follows
  <2>4. KeysAreKeys'
    BY <2>1, <2>2 DEF DealInv, KeysAreKeys
  <2> HIDE DEF changed
  <2> QED BY <1>2, <2>1, <2>3, <2>4, HandlerDeals
<1> QED
  BY <1>4, <1>5, <1>6, <1>7, <1>8, <1>9, <1>10, <1>11, <1>12, <1>13, <1>14 DEF Handle

LEMMA StatusStaysDeals ==
    ASSUME KeyInv, DealInv, KeyInv', NEW r \in requests, StatusStays(r)
    PROVE  DealInv'
<1>1. UNCHANGED <<key, y, participants, dealt>> /\ Answer(r) /\ CeremonyTypes'
  BY DEF StatusStays, tables, KeyInv
<1>2. KeysAreKeys'
  BY <1>1 DEF DealInv, KeysAreKeys
<1> QED BY <1>1, <1>2, HandlerDeals

LEMMA StutterDeals ==
    ASSUME KeyInv, DealInv, UNCHANGED <<key, y, participants, dealt, page, requests>>, KeyInv'
    PROVE  DealInv'
<1>1. \A h \in Holder : CalmPage(h)
  BY DEF CalmPage
<1>2. KeysAreKeys' /\ \A r \in requests' : RequestDeals(r)
  BY DEF DealInv, KeysAreKeys
<1>3. CeremonyTypes'
  BY DEF KeyInv
<1> QED BY <1>1, <1>2, <1>3, NothingDealt

LEMMA CeremonyDeals == ASSUME KeyInv, DealInv, [CeremonyNext]_ceremonyVars PROVE DealInv'
<1>1. KeyInv'
  BY CeremonyKeepsKey
<1>2. CASE InitCeremony \/ UNCHANGED ceremonyVars
  BY <1>1, <1>2, StutterDeals DEF InitCeremony, ceremonyVars, tables
<1> QED
  BY <1>1, <1>2, PagesDeal, LeavingDeals, FailingDeals, RestartDeals, StatusStaysDeals,
     HandlersDeal DEF CeremonyNext

\* However often a key holder's page is reloaded and its requests are late or repeated, the
\* sub-shares a dealer has stored are never replaced by those of another polynomial: a page
\* that has dealt does not come back to round 1 (KeyCeremony.tsx handleAuthSubmit, dkg.ts
\* POST /dkg/round2).
THEOREM SubSharesAreNeverRedealt == CeremonySpec => [][DealsAreFinal]_ceremonyVars
<1>1. ASSUME KeyInv, DealInv, [CeremonyNext]_ceremonyVars
      PROVE  DealsAreFinal
  <2>1. ASSUME dealt' = dealt
        PROVE  DealsAreFinal
    BY <2>1 DEF DealsAreFinal
  <2>2. ASSUME NEW h \in Holder, PageStep(h) \/ Leave(h)
        PROVE  dealt' = dealt
    BY <2>2 DEF PageStep, Leave, Resume, RunRound1, PollRound1, RunRound2, PollRound2,
       FetchRound1, RunRound3, PollRound3, tables
  <2>3. ASSUME NEW r \in requests, Handle(r) \/ CallFails(r) \/ StatusStays(r), ~UpsertRound2(r)
        PROVE  dealt' = dealt
    BY <2>3 DEF Handle, CallFails, StatusStays, LoadRound1, UpsertRound1, UpdateStatus, LoadRound2, Confirm,
       Count, Combine, ReadParticipants, Publish, PublishShare, tables
  <2>4. CASE InitCeremony \/ Restart \/ UNCHANGED ceremonyVars
    BY <2>1, <2>4 DEF InitCeremony, Restart, ceremonyVars, tables
  <2> QED BY <1>1, <2>1, <2>2, <2>3, <2>4, UpsertKeepsDeals DEF CeremonyNext
<1>2. KeyInv /\ DealInv /\ [CeremonyNext]_ceremonyVars => KeyInv' /\ DealInv'
  BY CeremonyKeepsKey, CeremonyDeals
<1>3. CeremonyInit => KeyInv /\ DealInv
  BY InitKey, InitDeals
<1> QED BY <1>1, <1>2, <1>3, PTL DEF CeremonySpec
=============================================================================
