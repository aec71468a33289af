# Verification of the e-voting simulation

TLA+ modules, TLC configurations and TLAPS proofs for the e-voting simulation: its server
(`src/backend`), its ledger (`src/blockchain`), and the clients where they decide something
(`src/frontend`, `src/packages`). Paths below are relative to `src/`.

## 1. Inventory

One Express process serves voters, administrators and keyholders. It keeps its state in
Postgres (reached through Supabase, one HTTP call per statement, no transactions across
calls) and on a blockchain (two Solidity contracts); a few caches live in the process.
Every handler is a chain of awaits: between any two database calls any other handler may
run, any call may fail, succeed without its answer arriving, or be the last one before the
process dies. The only atomic multi-row operation is a stored procedure, `fn_cast_vote`.

| Component | State it keeps | Operations | What is hard | What makes it correct |
|---|---|---|---|---|
| Election window: `services/electionLifecycle.ts`, `routes/elections.ts`, `services/adminAudit.ts` | `elections.status`, `election_status_events`, `admin_actions` | create, PATCH status | four calls per PATCH without a transaction; update not conditioned on the status read | the window moves one step forward; a reported transition is logged; the log explains the status |
| Casting: `routes/vote.ts`, `services/castIdentity.ts`, `fn_cast_vote` in `schema.sql` | `votes`, `voters.has_voted`, `nullifiers` | POST /vote, check-nullifier, demo deletion | two credentials, checks far from the insert, lost answers, retries, deletion | one ballot per person for ever; `has_voted` agrees with the ballots; 201 and 409 are truthful; nothing is added to a closed election |
| Registration: `routes/voter.ts` | `voters` | register, session | two first registrations race | one row per person and election |
| Sessions: `services/sessionStore.ts`, `middleware/sessionAuth.ts` | `sessions` | issue, resolve, refresh, revoke, revoke-all | resolve, revoke and create are three calls | a token buys at most one successor; sign-out-everywhere leaves nothing live |
| Anchoring: `services/anchorBatch.ts`, `services/anchorSmtBatch.ts`, `routes/anchor.ts` | `merkle_batches`, `smt_batches`, `votes.tx_hash`, in-process trees and in-flight marks | manual batch, sweep, deletion re-anchor, proofs | chain first, database after; overlapping runs; a cache ahead of the chain | every confirmed vote is in one recorded batch; the stored root is the chain's root |
| Contracts: `MerkleRootStorage.sol`, `ElectionSetupCommitment.sol` | batches, sparse roots, commitments | anchorRoot, anchorSmtRoot, anchor, verify | continuity check against a caller with stale state | roots form a chain per election, totals add up |
| Key ceremony: `routes/dkg.ts`, `crypto/dkg.ts`, `KeyCeremony.tsx` | `election_key_ceremony`, `dkg_*`, `key_shares` | init, three rounds, qualification | status written from a stale read; crash between qualification and the share rows | once qualified, stays qualified with the shares the commitments imply |
| Tally: `routes/keyshares.ts` | `partial_decryptions`, `tally_runs` | submit-partial, tally, bundle | write-once rows against partial failure; three unordered reads | a result uses three verified shares per ballot |
| Limits and gates: `middleware/*` | in-process buckets | rateLimit, captcha, admin secret | window boundary | at most `max` per window |
| Pure algorithms: `merkle/*`, `crypto/*`, `packages/core-crypto` | none | trees, proofs, shares | boundaries | proofs verify exactly for members |
| Clients: `packages/core-api`, `packages/mobile-app`, `frontend` | stored token, screens | calls of the above | stale token | a stored token is the last issued one |

Interactions: PATCH writes the status POST /vote reads once; registration writes the row
`fn_cast_vote` locks; a session carries the pseudonym a ballot is recorded under; the
commitment row and the key ceremony gate casting; anchoring reads ballots and marks them;
the demo deletion removes a ballot and re-anchors. `PROJECT.json` lists each hazard at its
line.

Two facts met while reading, which no run here is about (section 5 has more). The mobile app invents device ids
of the form `device-<hex>` (`packages/mobile-app/src/secureSessionStore.ts`) while
POST /voter/session accepts only UUIDs (`backend/src/routes/voter.ts:63`). The triggers that
freeze an election's setup (`backend/src/schema.sql:857-873`, functions at 1132-1174) are
BEFORE UPDATE OR DELETE only, so a candidate or constituency inserted after the commitment
is not refused.

## 2. Plan

1. **Done** `ElectionLifecycle`, `CastVote` (extends it), `BallotBox` (abstract), with
   proofs of the type invariant, one ballot per person, truthful answers and refinement.
2. **Done** `Sessions`: the session store, its middleware and its routes; eight theorems.
3. **Done** `Anchoring` over the contract `MerkleRootStorage` and the two trees, refining
   `AnchorLog`; `SetupCommitment`; `Verifier` composed with `Anchoring`.
4. **Done** `Receipts`: the voter's two clients over `AnchorLog`.
5. **Done** `KeyCeremony`, `Tally` (extends it), `ThresholdCrypto`, `PublicRecord`, `Gates`.
6. **Done** `KeyCeremonyProofs`, `TallyProofs`: the shares fit the key, published counts are
   true, stored partials are never replaced, nothing counted is taken back.
7. **Done** `ReceiptsProofs`, `AnchoringProofs`, `TreeProofs`: what clients are told, what the
   database and the tree in memory may claim, the refinement of `AnchorLog`, dense proofs for
   batches of any size; `NoPhantomConflict` and `EventLogEndsAtStatus`.
8. **Done** The sparse tree for every depth in `TreeProofs` (its cache is that of a rebuild, its
   proofs are complete and sound) and, from it, `SparseTreeIsCanonical` and `BundlesAreSound` in
   `AnchoringProofs`. Every safety property of a passing run is now a theorem.

## 3. Modules

| Module | Role |
|---|---|
| `ElectionLifecycle` | the window and the two administrator handlers |
| `CastVote` | POST /vote over that window, registration, demo deletion; extends `ElectionLifecycle` |
| `BallotBox` | abstract promise of casting; `CastVote` instantiates it as `Promise` |
| `Sessions` | the session table with the requests that read and write it, one call per step |
| `Gates` | rate limiter, captcha, administrator's secret, demonstration switch, as operators |
| `AnchorLog` | abstract promise of anchoring; `Anchoring` instantiates it as `Abstract`, `Receipts` extends it |
| `Anchoring` | sweeps, manual batches, deletions and proof requests over `MerkleRootStorage` |
| `MerkleRootStorage` | the contract's state and functions; extends `MerkleTree` and `SparseTree` |
| `MerkleTree`, `SparseTree` | the two trees as recursive functions over a symbolic hash |
| `SetupCommitment` | the commitment to candidates and constituencies, its contract and its script |
| `Verifier` | the verification bundle and the independent verifier's steps 1 to 3, over any state of `Anchoring` |
| `Receipts` | what the browser and the phone tell the voter, over `AnchorLog` |
| `KeyCeremony` | the key generation: routes of `routes/dkg.ts` and the page `KeyCeremony.tsx` |
| `Tally` | partial decryptions, the tally and its publication; extends `KeyCeremony` |
| `ThresholdCrypto` | ElGamal, Feldman and Shamir sharing, DLEQ and ballot proofs over a small group |
| `PublicRecord` | reasons, sums, recount and turnout, as operators on rows |
| `MCLifecycle`, `MCCastVote`, `MCSessions`, `MCAnchoring`, `MCReceipts`, `MCCeremony` | instances for TLC: symmetry sets, starting states, and the assumptions that compare pure algorithms with reference definitions |
| `LifecycleProofs`, `CastVoteProofs`, `SessionsProofs`, `AnchoringProofs`, `ReceiptsProofs`, `KeyCeremonyProofs`, `TallyProofs` | theorems about the modules they are named for, over all constants |
| `TreeProofs` | the dense tree's functions for any number of leaves, the sparse tree's for any depth; `AnchoringProofs` extends it and `Verifier` |

Operators that no action uses, each just before the operator whose name it begins with or
replaces (`ReadAndStamp` before `Read`), are faulty variants of it: a dropped guard, a swapped
field, a forgotten write. Each property of a
passing run is violated when its variant takes the place of the original (`mutants` in
`PROJECT.json`), which shows that the property does look at the code.

### ElectionLifecycle

`status`, `events` and `audit` are the three tables. A PATCH request is a handler with a
program counter `patchPc`: `PatchRead` is `getElection` with the checks on the row,
`PatchUpdate`, `PatchEvent` and `PatchAudit` are the three writes, `PatchFails` ends the
handler with 500 wherever it stands and keeps what was written, `PatchAuditUnanswered` is an
audit row written whose answer is lost. The rejected and the idempotent branches go straight
to the audit row, as in the code. `SerialAdmin` says whether an administrator waits for one
answer before sending the next request; the code does not enforce it. `Seeded` are the elections
`schema.sql` itself inserts, in 'tallying' and without an event row; `Opening` is the status an
election has before any PATCH.

### CastVote

`pc[c]` names the database call request `c` makes next; `cast[c].seen` is the status its one
`getElection` returned, which is all the window gate ever looks at. The steps, in the order
of `routes/vote.ts`: `ReceiveCast`, `ResolveIdentity` (session or nid, then the gate),
`CheckSetup`, `CheckNullifier`, `CheckBallot` / `RefuseBallot` (candidates, key, proof),
`CastVoteCommits` / `CastVoteRaises` (the stored procedure: locked read of the voter, insert,
`has_voted`, in one transaction), `RecordNullifier` and 201. Faults: `CastFails` (a call fails
without effect), `CastVoteUnanswered` (committed, answer lost, 500), `RecordNullifierFails`
(logged only, 201), `CastDropped` (process or connection gone).

Abstractions. A nullifier is the pair (voter, election) and `nid_hash` the voter: both hashes
are taken to be injective. A ciphertext with its proof is one that verifies or does not. A
ballot is named by its request. `deleted` is a history variable: it only remembers the rows
the demo route removed. The demo route requires an anchored row; anchoring is outside this
module, so any row may be deleted. `Disqualify` is the operator's statement on
`voters.is_eligible`, which no route writes. `KeyChanges` lets the ceremony's status come and
go, since a late round may write over 'qualified' (`routes/dkg.ts:164`).

### Sessions

A row of `rows` is a row of `sessions`; the token is named by the row it opens, and `parent`
is history (the row a refresh replaced). A holder is a voter of one election: the three
identity columns are written together and guarded by `fn_sessions_guard`. Each request walks
through its database calls. `Lookup` is the read of `resolveSession` with all its refusals,
`Touch`/`TouchFails` the extension of the window, after which `Route` reads the clock again
and hands over to the route: `Recheck`, `Retire`, `Create` are `rotateSession`, `SignOut` and
`SignOutEverywhere` the two revocations, and a plain use ends. `AskForSession` is
POST /voter/session once the voter is registered. Each write may succeed with its answer
lost, and `CallFails` ends a request anywhere. A refresh whose insert fails answers 401, as
`rotateSession` does (`invalid_token`), although the old token is already revoked.

Abstractions: tokens are not guessed (a request presents a delivered one), digests are
injective, and one clock serves the process and the database. `ck_sessions_valid_window`
is the guard of `Create` on the clock.

`CastVote` does not extend `Sessions`: POST /vote resolves its token once and afterwards
relies only on the identity columns, which never change; `SessionRefused` there covers every
refusal that `Sessions` produces.

### Anchoring, its trees, its contract and its log

A `run` is one execution of a sweep (`maybeAutoAnchorElection`), of POST /anchor/batch, of the
demonstration deletion, or of a request for a sparse proof. Its steps are the awaited calls:
`Count`, `OldEnough` / `TooYoung` (the sweep's tests; the clock is left out), `Read`, `Send`
(the dense root), `BatchRow`, `VoteRows`, then the sparse tree: `UseTree`, or, when there is
none, `MissTree`, `ReadRows` and `Publish` (`getCumulativeTree` finds no tree, is given the rows as
they were at some later moment, and publishes the tree made of them), then `Latest`, `SmtSend` / `SmtRefused`, `SmtRow`. The two writes after the dense transaction only
log their failure, as in the code; a transaction may land without its receipt being seen; a
deletion may commit and lose its answer, and then ends with 500 and without a rebuild (`DropTree`
is the invalidation the others go on with);
`Restart` empties `tree` and `inFlight` and ends every run. `Finish` clears the sweep mark
whoever set it. A hash is a term (`<<tag, operands>>`), equal only for equal operands, with
`hashPair` unordered as in the code; the sparse tree has `Depth` levels instead of 256. The
cache of its inner hashes is state of its own (`node`), updated along one path by `siblings` and
`Climb`; roots and proofs are read from it, and `CanonicalRoot` is the reference from the leaves.
History: `unstamped` (a stamp that was lost), `overlapped` (two rebuilds at once), and a run's `base`,
the number of sparse roots on the chain when it computed its own.

`Verifier` computes, in any reachable state, the bundle the server would serve for a recorded
batch, and the script's first checks of it; `BundlesAreSound` has a named part per question. The
bundle is taken at one instant. The route (`keyshares.ts:649-735`) reads its tables and then the
tree over several awaits, so a bundle read while a batch is written may mix two moments, as those of
section 5 mix tables and memory.
`SetupCommitment` has no state of its own besides the contract's two fields; `MCAnchoring` puts
it beside `Verifier`.

### Receipts

A browser (`page`) goes through login, vote, confirmation; the key and the candidates it loads
are each the server's or `api.ts`'s mock; a call that fails to arrive, or whose answer does, is
answered by the mock. A vote may also be stored and answered 500, when `fn_cast_vote` commits and
the server does not learn of it: the voter then stays on the page. `mocked` is the list in
localStorage. `SessionEnds` is the server's refusal of a token (expired, or revoked elsewhere). The phone has its session, its
screens and its verification in two calls. A ballot is `sealed` with what it was encrypted
with. The service behind them takes any step of `AnchorLog`.

### KeyCeremony and Tally

A dealer's polynomial and ECDH pair are the number of the attempt that drew them; a key, or a
share of it, is the set of (dealer, attempt) pairs summed into it. This is what the arithmetic
makes of them: `MCCeremony` checks over all polynomials of the small group that a sub-share
verifies for one value only, that combined commitments belong to the summed polynomials, and
that any Threshold shares or partial decryptions, and no fewer, open what the key opens. A
request
to a route is a member of `requests` and runs on when its page has given up. Its steps are the
handler's awaits; `combineAndQualify` is `Combine` (the ceremony's row), `ReadParticipants`,
`Publish` and a `PublishShare` per holder. A failure is `Leave` (a page reloaded or closed),
`CallFails` (a call fails in the page, which the holder may then reload, while its handler runs on
or dies between two of its steps), `Restart`, or `StatusStays` (the update of the ceremony's
status, whose error the code does not look at). A page's round 3 is two steps: `FetchRound1` notes what the dealers had published, `RunRound3` checks the inbox
against it and sums. The page sends both reads at once; the participants are taken to be read
first, since an inbox read earlier has fewer entries, or one that no longer verifies. `fetched`
and `revoked` are history: what such pages fetched, and whether a dealer replaced any of it.
`Tally` starts when voters have cast under the published key, once the ceremony's requests and
tabs are gone. `Mistyped` is a share that belongs to no holder. Of a submission one insert may fail
and the loop go on (`InsertFails`), or the handler die (`PostFails`). POST /keyshares/tally is three
steps: `Tally` reads and counts, `StampRun` takes the time that becomes `tallied_at`, `PublishRun`
stores the row or `RunIsNotStored` fails to. `results` is what /public/results shows, the row with
the latest `tallied_at`: storing a run shows it unless one with a later stamp is stored already, and
`stamped` keeps only the runs that would still be shown. `overtaken` is history: another run was
stamped after this one had read and before its own stamp.

## 4. Runs

| Run | Instance | Shows |
|---|---|---|
| `admin_race` | a created election and the seeded one, 4 overlapping PATCHes, all failures | a reported transition is in both logs; no status but the opening one without a request that wrote it |
| `window_race` (violation) | 1 election, 3 PATCHes | two 'voting' requests around one 'tallying' reopen the election |
| `cast_race` | 1 voter, 3 requests, 1 PATCH, deletion on | the data invariants of casting |
| `cast_window` | 1 voter, 2 requests, 2 PATCHes one at a time | the log leads to the status; a drained closed election is frozen |
| `cast_sessions` | 2 elections, 1 voter, 2 requests, polling day | refinement of `BallotBox`; every request ends |
| `late_ballot` (violation) | 1 request, 2 PATCHes one at a time | a ballot enters after the close |
| `sessions_race` | 1 voter, 2 devices, 4 requests, 3 sessions, 1 tick | revoked stays revoked; a refresh never leaves two live ends; sign-out survives a waiting refresh |
| `sessions_expiry` | 2 voters, 2 devices, 3 requests, 3 sessions, 3 ticks of a window of 2, serial clients | the window slides and ends; a token buys one successor; sign-out-everywhere reaches every device of one voter only |
| `refresh_race` (violation) | 1 voter, 1 device, 3 requests | two refreshes of one token both get a live successor |
| `anchoring` | 2 ballots, a slot for sweeps and one for an operator's request of each kind, threshold 2, 1 failure or restart or edit, a sparse tree of 4 leaves | the database and the tree say of a ballot only what the chain holds; every ballot gets there; bundles mean what they say; refinement of `AnchorLog` |
| `receipts` | 1 browser, 1 phone, 2 ballots, 1 batch | what voters are told is so; every stored ballot can be counted |
| `ceremony` | 3 holders, threshold 2, 2 ballots, 2 tallies at once, 1 failure | the published key is the one the holders share; the ceremony ends or is stuck in one of five named ways; counted means decrypted by enough right shares; what the public is shown loses no ballot to a run that was not overtaken |

Bounds. Three requests of one voter are a first try, a retry and a second device; a fourth
meets the same checks as the third, since a request only looks at what others left in the
tables. Two voters interact only through the window and the key, which one voter meets too;
two elections are needed for a session of the wrong one. Four PATCHes are enough for every
transition plus a repeated one; three for the reopening. The proofs cover all sizes.
For sessions, four requests are a sign-in, two refreshes (or a refresh and a second sign-in)
and a sign-out; a session needs two ticks to be extended and a third to expire. The passing
session runs turn deadlock off, since every request ends and the clock stops at its bound.
`admin_race` and `window_race` turn deadlock off because the system stops when no request is
left.

Fairness. `CastFairness` is weak fairness of a handler's next step, when its awaited call
succeeds: Node resumes a handler whose promise resolved. Nothing is assumed of voters,
administrators, the ceremony, or failures. `EveryCastEnds` needs exactly this.

Anchoring: two ballots make a batch with a pair and let a second batch continue the first;
keys 0 and 2 of four are in different subtrees of the sparse tree and have empty siblings. One
failure is enough for each divergence between chain, tables and memory, and one request of an
operator overlaps the sweeps. Two dense batches of one ballot each and one of both occur.
Receipts: one voter of each kind, since voters meet only in the batch; one batch, so a ballot
in two batches (answered 500) is not reached there. Ceremony: three holders with a threshold
of two have a quorum with one holder missing, as four with three have; the arithmetic is
checked for four and three. One failure is one incident with what follows from it: a call that
fails in the page, a handler that dies with it, and the reload after that are one, and a restart
ends every handler at once. Each of the five ways of `Stuck` is reached with one. A second,
independent failure multiplies the states beyond a run's length; `CeremonyCompletes` was also
checked once with two holders and two failures, up to the vote. These three runs turn deadlock off: everything done, nothing is left to do.

Assumptions checked by TLC on the way. `MCAnchoring`: dense proofs for one to seven leaves;
a dense root stands for one set of ballots (for lists without repetition; pairs may be
swapped, since `hashPair` sorts); no two records of the setup have the same bytes; the
auditor's commitment matches exactly the roster it was made from; the five per cent rule.
`MCCeremony`: the arithmetic; the sums of the tally; turnout. `MCSessions`: the limiter over
every sequence of six requests of two callers: at most twice `max` in any span of a window,
exactly that much across a boundary, and sweeping changes no answer; the other gates.

Fairness of the new runs. `Anchoring`: a run under way goes on (awaited calls return), the
timer starts sweeps for ever (`setInterval`), and `OldEnough` is strongly fair: a ballot left
alone grows old, and once it is, every later sweep finds it so. Failures are bounded, which is
how "the database and the chain are usually up" is stated. `Tally`: each holder moves on
(`HolderMoves`: the page polls and retries, the share is submitted row by row), and so does the
election (`ElectionMoves`: handlers return, the vote is held, administrators run the tally).
`setInterval` and resolved promises give the first of each; that holders submit and an
administrator tallies no code forces, and without it no liveness could hold:
`CeremonyCompletes` and `BatchIsCounted` say what follows from people doing their part.

## 5. Findings

* `window_race`: `routes/elections.ts:197-200` updates by election id only. The transition was
  validated against a copy (line 160), so overlapping requests break "forward-only".
* `late_ballot`: the gate (`routes/vote.ts:123`) tests the copy read at line 97; neither
  `fn_cast_vote` nor any trigger looks at `elections.status`. `DrainedWindowFreezesBallots`
  states what does hold: only requests admitted before the close can add a ballot.

* `refresh_race`: `services/sessionStore.ts:236-251` resolves the token and then revokes its
  row whether or not it is still live, so nothing decides between two refreshes of one token
  and both create a session: the comment at 224-228 promises "a single-use window (T15)".
  `SerialTokensAreSingleUse` proves the promise for a client that never overlaps them.

Divergences seen while modelling that no violation run is about. Each is in the model; the
passing properties say what holds in spite of it.

* Anchoring. Two rebuilds of the sparse tree at once (`anchorSmtBatch.ts:70`) let the later one
  replace a tree that holds newer keys: the next sparse root forgets a ballot
  (`SmtForgetsNothing` and `TreeCoversConfirmed` exclude `overlapped`). Without any rebuild two
  submissions can cross: A computes its root, B adds its ballots to the same tree and publishes the
  larger root, A then reads B's row as the previous root (`anchorSmtBatch.ts:122`) and the contract
  takes A's older root after it. The newest root lacks B's ballots until the next submission; they
  are still in the tree, which is what `SmtForgetsNothing` says of roots published in between. When
  the insert into `smt_batches` fails after the contract took the root (`anchorSmtBatch.ts:174`),
  every later submission names a previous root the contract refuses, for good; dense anchoring goes
  on. A deletion that commits and loses its answer (`anchor.ts:684-691`) leaves the deleted key in
  the tree and in the next roots. A sweep that still holds
  a deleted ballot's id puts its key back. Between a batch's row and the tree's update the phone
  shows "included" and "not included in the anchored sparse tree" together.
* Sparse tree. The class comment says the leaf level "is derived on the fly from `leaves`"
  (`sparseMerkleTree.ts:189-190`); `getNode` (208-210) asks the cache alone and so reads every
  leaf as empty. Two nullifiers that differ in their last bit only would be siblings, and the
  insertion of the second drops the first from the root and from its own proofs. The hashes make
  this an accident that will not happen; `SparseTreeIsCanonical` and `CoveredArePassed` exclude
  it, and `CacheInvariant` says exactly what is forgotten.
* Bundle and verifier. The bundle pairs proofs from the tree in memory with the newest recorded
  sparse root (`keyshares.ts:726`), so an honest bundle fails step 1c while the tree is ahead.
  `published_results` is read from `tally_results`, which nothing writes, so step 6 always
  fails; were it there, the step compares totals only. The setup script reads the rosters of
  all elections (`deploy-election-setup.ts:44-45`), the verifier one's: step 2a fails as soon
  as a second election has candidates. The operator scripts that backfill or re-anchor call
  the anchoring service with older signatures.
* Clients. A browser whose request or answer was lost shows "Confirmed on Blockchain" for a
  made-up receipt (`VoteConfirmation.tsx`). A vote that was stored and answered 500 leaves a browser
  on its page, where a second try is told "already voted", with no receipt either way. A phone that loses the answer to its vote never gets
  the receipt: the retry is a 409.
* Ceremony. A late round-1 handler sets 'qualified' back to 'round1' (`dkg.ts:164`), and the error
  of that update, as of round 2's, is not looked at (`dkg.ts:165`, `273`). A round 1 republished
  after a page in round 3 fetched it makes that page's share worthless (`revoked`); two late handlers
  that combine around such a replacement leave a key and holders' commitments of two sums
  (`QualifiedKeyIsShared` excludes `revoked`). A crash between qualification and the `key_shares`
  rows leaves them missing for good (`dkg.ts:417`). When the handler of the last confirmation dies
  before it counts (`dkg.ts:362`) and its holder reloads, the page shows "qualified" to a holder who
  has confirmed, whatever the ceremony's status (`KeyCeremony.tsx:133-134`), and nobody asks for the
  key again (`Unasked`). A page resumed early confirms a sum of an incomplete inbox. `Stuck` names
  the states these lead to.
* Tally. A mistyped share is stored with `verified` false and cannot be replaced. A tally with
  too few shares still appends a run, which becomes the published one. `tallied_at` is taken after
  the reads and before the insert (`keyshares.ts:563`, `581`), and the newest `tallied_at` is shown:
  of two overlapping tallies the one that read less may be stamped later, and what the other counted
  is no longer shown (`overtaken`). /public/stats counts
  `key_shares.submitted`, which submit-partial never sets; /public/results shows the newest run
  whatever its batch; a full turnout is shown for 4999 of 5000.
* Gates. A client gets twice its limit across a window's boundary, and requests the captcha
  refuses count towards the limit.

## 6. Proofs

All theorems are for every value of the constants. Those about the window and casting assume
only that the place-holders are not data (`NoRequest` is neither a PATCH record nor a cast
request, `NoSession` is no election), that `SerialAdmin` and `TamperDemo` are Boolean, and that
`Seeded` are elections.

`LifecycleProofs`. `LifecycleInv` is the type invariant with `RequestsAreKnown` (a handler
past its read holds a request for an existing election, and one about to update or log holds
a legal step). `AckedTransitionsAreLogged` strengthens it with `AuditedAfterEvent`: a legal
transition that reached its audit call has its event row. `StatusesAreExplained` needs that an
idle slot holds no request, so that a later read overwrites no explanation, and that no POST
creates a seeded election (`SeededStand`).
`SerialWindowMovesForward` carries "the status a handler read is still the status" through
every step under `SerialAdmin`. `SerialLogEndsAtStatus` is about the same client: since the
row then only moves on, any status an event row left, or is about to be logged as having left,
is behind the row for good (`LogIsBehind`); that a row leads into the status is
`StatusesAreExplained`.

`CastVoteProofs`. The induction is in three layers. `AdmissionInv` says what a request that
passed each check may rely on: from 'setup' on its session is for its election and it saw
'voting', from 'nullifier' on the election is committed. `BallotInv` is the heart: every row was
inserted by the request it names under that request's pseudonym (`RowsAreOwn`), a request at
'record' or answered 201 has its row, and the published invariants themselves:
`HasVotedIffRecorded` makes `Spent` exact, so an insert is always the first
(`InsertIsFirst`), from which `OneBallotPerVoter` follows. The deletion route keeps the
induction because history keeps the row. `SystemInv` is the conjunction. `ConflictsAreReal`
is part of the same induction: a request answered 409 stands before its insert, where
`RowsAreOwn` leaves it no row, so the row found for its voter is another request's.
`ClosedWindowDrains` is an action property from `AdmissionInv`: an insert comes from a request
that saw 'voting'. `CastVoteImplementsBallotBox` maps a voter's box to the one row history
holds; every step is `Put`, `Accept`, `Refuse` or a stutter.

`SessionsProofs`. `SessionInv` adds to the published invariants `RequestOK`: where a request
stands tells what it holds (its token's row exists, for its own holder; a refresh at its
insert has a revoked token; its reading of the clock is not in the future). Two facts carry
the induction: `RowStep`, what any step does to the table, gives `RowsPersist` (a row keeps
its identity and never revives), and `Handled` says the stepping request is left well-formed
while the others only need `RowsPersist`. A new row is always somebody's `Create`
(`NewRowsAreCreated`), from which `RotationRetiresParent` and `SignOutIsFinal` follow.
`SerialTokensAreSingleUse` needs `RetiredIsUnused`: between its revocation and its insert a
refresh's token has no successor yet, because it was live at the recheck and a parent never is.
Assumptions: `TTL` and `MaxTime` are naturals, `Never` is no time, `None` is neither a session
nor a row, `SerialClient` is Boolean.

`KeyCeremonyProofs`. `KeyInv` strengthens the types with what ties pages to the key: a page's
share, and what it fetched for round 3, lie within `fetched`; a confirmation under way, and
a key, mean that every dealer has been fetched; and unless `revoked`, everything in
`fetched` is still what its dealer publishes, so that what a handler combined is
`KeyOf(participants)`. The step that could break it is a dealer publishing again: once all are
fetched it replaces something fetched and sets `revoked`; before that no key exists. Two late
handlers that both combine write the same key for that reason. Assumption:
`CeremonyAssumption`.

On top of it `DealInv` says that whatever is in `dkg_shares`, or on its way there, is of one
attempt per dealer (`SubSharesAreNeverRedealt`): a page that has dealt is past round 1 and its
session holds that attempt or nothing, so no tab, reload or late request can deal another.

`TallyProofs`. `SharesFitTheKey` lifts `KeyInv` through the steps of `Tally`, which leave the
ceremony's tables alone. `PublishedCountsAreTrue` needs `CountInv`: a tally at work (`AtWork`: it
has read, or is stamped and not stored), not only a published run, has counted opened ballots only,
and nothing is counted before a batch is sealed. A ballot stays open because its rows are write-once
(`InsertIsWriteOnce`): the set of its openers only grows, and so does its cardinality.
`CountedBallotsStayCounted` is harder, because the tally takes the lowest `Threshold` holders with
a row and a later row can change who they are. It holds because a row is either of a mistyped
share, which is not verified, or of a sum of what was dealt, of which `DealInv` leaves only one
(`OneKey`): whichever verified rows are picked, they are `Threshold` many (`LowestAreThreshold`)
and open the ballot. `SealInv` ties the rows to the batch's key, `KeepInv` says that what a tally
counted still counts, and that one not overtaken shows all that the results and the runs stamped
before it do (`ShowsAll`), which a stamp, a run stored or a run lost keeps (`StampedStays`). That a
dealer may have replaced what others fetched (`revoked`) does not matter. Assumptions: those of
`KeyCeremony` and `TallyAssumption`.

`TreeProofs`. A first-order induction (`SetInduction`, from the least element of a set of
numbers) replaces the library's rules with an operator parameter. A layer of more than one node
has a shorter successor that is a layer again (`LayersShrink`), so a height exists
(`HeightFacts`) and the functions that `getProof` and `verifyProof` choose exist (`PathsExist`,
`HashesExist`). `SiblingsHashUp` is the heart: a node and its sibling hash to their parent, the
last node of an odd layer being its own sibling. By induction on the level what `verifyProof`
computed is the node of that level above the leaf (`DenseTreeVerifies`). Nothing is assumed of
the hash; hashes are terms and `hashPair` forgets the order of its operands. The converse is
`DenseRootNamesItsLeaves`: going up two trees in step, nodes with one hash stand for one set of
leaves (`Gathers`, `Agree`), and equal roots are of equal height.

The sparse tree is for any `Depth` above 0 (`DepthAssumption`). A node's place at level `l` above
a key is `Up(key, l)`, and `Row(l)` the places there are; the arithmetic of powers of two stays
inside `TwoToFacts`, `RowFacts` and `UpFacts`, and each function of `SparseTree` is shown to
satisfy its recursion once (`ClimbUnfolds`, `CanonicalUnfolds`, `DefaultsUnfold`). What one changed
leaf changes is its own path (`OffPath`), and climbing that path past canonical siblings gives
canonical nodes (`ClimbIsCanonical`); so an update of a `Canonical` cache is `Canonical`
(`UpdateIsCanonical`), if the leaf beside it is free. If it is taken, the result is canonical for
the leaves without it (`InsertForgetsTheSibling`). A packed proof reads back as the siblings it
was made from (`ProofIsReadBack`, from `RankInAscending`), hence `SparseProofsAreComplete`; and a
climb that ends in a canonical root began with what the leaf holds (`ClimbDetermines`), hence
`SparseProofsAreSound`, for any proof whatever.

`AnchoringProofs`. `AnchoringInv` has a part for the chain, the tables, the tree and the runs:
each says how its claims can be read off `batches`, and what a run has read and still uses is
still true (`GoodRun`) because the chain and the recorded stamps only grow (`Grows`). `Backed`,
the ballots of a batch that are stamped, deleted or lost their stamp, bounds the tree. It gives
`ConfirmedIsAnchored`, `RowsMirrorChain`, with `TreeProofs` `DenseProofsVerify`, and the
refinement: `Send` is `AnchorLog`'s `Anchor`, `BatchRow` `Record`, `VoteRows` `Stamp`,
`DeleteRow` `Delete`, `SmtSend` `Publish`, the demonstration's edits `Edit`, a change of the tree
`Cover`, the rest stutters. `CoverInv` goes the other way, from the database to the tree, while
no two rebuilds overlapped: there is at most one rebuild and then no tree (`OneRebuild`); the
tree, or what the rebuild has read, holds all that is confirmed or was submitted, and a
submission covers what every root did that was on the chain when it was computed (`Fresh`). The
roots published since are the tree's to keep: nothing leaves the tree but with the tree, and a
rebuild reads all that is confirmed. Each fails once `overlapped`, as section 5 tells.

`CacheInvariant` is about the tree's hashes. Its inductive form cannot be "canonical", which a
sibling breaks: the cache is canonical for some map `f` of leaves that is the tree's own but
where the leaf beside is taken (`Held`). Insertion keeps this (`InsertIsSound`), rebuilds and
extensions are insertions, nothing deletes from the tree in memory, and restarts drop it. Where
no two keys are siblings `f` is the tree's leaves (`SoundTreeIsCanonical`), from which
`TheSparseTreeIsCanonical`. `SparseRootsAreRooted` carries the same fact with each submission to
the contract, under all interleavings and with no condition on the nullifiers: a root on the
chain is one of ballots it covers, so no proof convinces the contract of another ballot
(`SparseRootsProveOnlyTheirBallots`). `TheBundlesAreSound` joins these for `Verifier`: the dense
half from what a row says of its batch (`RecordedBatch`) and `DenseRootNamesItsLeaves`, the bundle
of an untouched batch being the batch as listed (`AscendingOfInterval`); covered ballots from
`ProvenBallotsAreHeld`; acceptance from `LoneBallotIsProved` and the newest row, which the
database has from the chain.

Assumptions of `AnchoringProofs`: `DepthAssumption`, `KeyAssumption` (the sparse tree's keys of
two ballots differ; nullifier hashes are taken to be injective), `KindAssumption`,
`BoundAssumption`, and `None` is no number.

`ReceiptsProofs`. A number a client holds is that of its voter's one ballot (`ReceiptsAreOwn`);
a page about to send holds no audited ballot (`PagesAreOrdered`), so what is stored is sealed
with the server's key or refused; a batch found by a look-up stays recorded while the phone waits
for its second answer (`FoundStaysFound`). The service only adds rows and batches; deleting a
ballot or editing a root makes a look-up of a recorded batch fail, and never "pending". Assumptions: `ReceiptAssumption`
(browsers and phones are different and finitely many, with one ballot each) and `None` is
neither a number nor a verdict.

Every invariant above was checked by TLC on the run of its module before it was proved.

Only model-checked. Liveness under fairness (`EveryCastEnds`, `EveryBallotIsAnchored`,
`CeremonyCompletes`, `BatchIsCounted`) is out of the prover's reach, as is anything about ENABLED. The assumptions of the MC modules (section 4) are evaluated on their
bounded inputs only.

## 7. Not modelled

* Cryptographic soundness (a dishonest prover, a broken hash): `ThresholdCrypto` checks that the
  operations fit together, with a stand-in hash.
* The administrator's dashboard, the tamper visualiser and the public dashboard's layout: screens
  over routes that are modelled. Saved audits and `refreshSession` on the phone: the first is a
  note to the voter, the second no screen calls.
* Seeds, resets, schema runner and backfills: run by hand on an idle system.
* HTTP, CORS, security headers; server start-up and configuration; the other elections'
  anchoring (every table and the contract are keyed by election).
