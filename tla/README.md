# Verification of yaadegar

yaadegar is a multi-tenant gift-list server (Go, SQLite or Postgres, a Svelte
front end). Owners keep lists of items; givers either *reserve* units of an item
or *co-buy* it, pledging money together. This directory holds TLA+ models of the
server, the TLC runs that check them and the proofs TLAPS checks.

What is hard to test here is almost always a second actor arriving between two
statements. Handlers run many statements; only some are in a transaction behind
a row lock; e-mail is sent in between; two sweepers run on tickers; a DNS lookup,
an identity provider and a proof of work take their own time; and processes of
several builds may start on one database.

## Inventory

| Part (under `src/internal` unless said otherwise) | State | Operations | Hard behaviour | What makes it correct | Module |
|---|---|---|---|---|---|
| Reservations: `api/reservations.go`, `api/myreservations.go`, `storage/sqlstore/reservations.go` | `reservations` rows: state, quantity, capability and link hashes, `state_at`, `last_activity_at` | reserve (guest, account, e-mail-confirmed), confirm, release, keep and release links | reads before the lock, failing sends, duplicate confirms | never more units than wanted; a token handed out works | `Reservations` |
| Item lock: `storage/sqlstore/capacity.go` | the item row | `withItemLock`: lock, check, write | both tracks check each other and the sum under it | reserve and co-buy exclude each other (#93) | `Reservations`, `CoBuying`, composed in `Item` |
| Decay sweeper: `decay/decay.go`, `storage/sqlstore/decay.go` | candidates of one sweep | remind, mark, expire | snapshot, send before write, several instances | no silent expiry; expiry is earned and final; holds move on | `Reservations` |
| Co-buying: `api/cobuying.go`, `storage/sqlstore/contributions.go`, `matches.go` | `contributions`, `matches`, `match_contributions` | pledge, propose, confirm, decline, withdraw, dissolve, reveal | unlocked multi-statement updates, stale match state | contacts revealed once, by consent; ended stays ended | `CoBuying` |
| Match expiry: `cobuy/sweep.go`, `matchexpiry.go` | candidates | expire a proposed match | race with the last confirm | single winner; no match lingers | `CoBuying` |
| Items, archive: `api/items.go`, `archive.go`, `sqlstore/items.go` | item row | create, edit, archive, unarchive, delete | compare-and-set stamp, notices after the write, whole-row writes | an archive stands and tells every holder it could read, once | `Lists`, and the tracks |
| Lists, public page: `api/lists.go`, `public.go`, `sqlstore/lists.go` | `lists`, `list_owners` | create, edit, delete, read | ownership asked before the write | only the owner's rows are written or shown to it | `Lists` |
| Admin and roles: `api/admin.go`, `adminusers.go`, `authz.go` | role, ban flag | create accounts, change role, ban | demotion against list creation | a giver owns no list (but by a race) | `Lists`, `Accounts` |
| Registration: `api/register.go`, `sqlstore/emailverification.go` | users, verification tokens | register, resend, verify | background resend; claim, activation and session are three statements | a link counts once; no session before verification, but by Google | `Accounts` |
| Passwords, sessions: `api/auth.go`, `password.go`, `passwordreset.go`, `auth/` | hash, credential version, reset tokens | login, change, reset, invite, set-password | version read again after the write | a superseded password has no session, unless its change was overtaken | `Accounts` |
| Access tokens: `api/accesstokens.go`, `sqlstore/accesstokens.go` | `access_tokens` | create, revoke, use | limit under the user lock, creation against reset | limit; none in the store survives a reset | `Accounts` |
| OAuth: `api/oauth.go`, `oauthlogin/` | identities, state cookie, tickets, used jtis | start, callback, resolve, link, complete | find-then-create, ticket eviction | one account per identity; one use of a ticket | `SignIn` |
| Custom domains: `api/domains.go`, `sqlstore/domains.go` | domain rows | add, take over, verify, delete | a DNS lookup between read and write | only a proved claim serves | `Domains` |
| Tenancy: `api/resolver.go`, `middleware.go`, `tenant/` | tenants | resolve a host, bind queries to a tenant | reads | who gets a custom domain's requests | `Domains` (partly) |
| Rate limiter, captcha: `auth/ratelimit.go`, `captcha/`, `api/clientip.go` | in-memory windows, spent solutions | allow, record, sweep, consume | check-then-act, forged headers, eviction | bounded attempts, no replay | `Gate` |
| Migrations, store: `sqlstore/migrate.go`, `store.go` | `schema_migrations` | open, migrate | two processes, two builds, migrations that drop, crashes | every migration of a build is applied before it serves | `Startup` |
| Command line, server: `src/cmd/yaadegar`, `server/server.go` | processes | serve, drain, operator's commands | signals, hung requests, faulty configuration | serves again; fails closed | `Startup` |
| Import, export: `api/import.go`, `export.go` | items | import a document, export | one transaction after a stale ownership check | all rows or none on one's own list; an export shows one's own items | `Lists` (partly) |
| E-mail: `email/` | — | send | may deliver and report failure | — | `Reservations`, `CoBuying` (partly) |
| Settings: `settings/` | windows per tenant and list | resolve | reads | — | constants (partly) |
| Preview fetcher, generated API, web front end | — | HTTP, parsing, presentation | — | — | not modelled |

The components are listed one by one, with their status, in `PROJECT.json`; so
are the hazards, each at its line.

## Modules

| Module | What it is | Proofs |
|---|---|---|
| `Reservations` | the reserve track of one item: every reserve path, confirm, release, links, decay sweep, owner's operations | `ReservationsProofs` |
| `Ledger` | the abstract specification of what holds promise: booked within a limit, one key for life, never dropped unasked, over stays over | in `ReservationsProofs`: `Reservations` implements it |
| `CoBuying` | the co-buy track of one item: pledges, matches, reveal, match expiry | `CoBuyingProofs` |
| `Introductions` | the abstract specification of what a match promises: agreed once and by a yes, introduced at most once, only those who said yes, never after it lapsed | in `CoBuyingProofs`: `CoBuying` implements it |
| `Item` | one item with both tracks and its owner: `CoBuying` extended by an instance of `Reservations` | in `CoBuyingProofs`: each track behaves as its own module says |
| `Accounts` | one e-mail address: the account, its mailed links, its sessions and access tokens | `AccountsProofs` |
| `SignIn` | sign-in with Google on one tenant, from the start of a flow to the session | `SignInProofs` |
| `Lists` | owners, lists, items, the owner's reads and exports, import, archive and its notices, and role changes | `ListsProofs` |
| `Domains` | one hostname that several tenants claim | `DomainsProofs` |
| `Gate` | the limiters, the client address they key on, and the proof-of-work guard | `GateProofs` |
| `Startup` | the processes on one database: migrations, configuration checks, serving, draining, commands | `StartupProofs` |
| `MC...` | model values, symmetry sets, and restricted environments for TLC | |

Conventions of all models:

* **A process is a record with a `pc`.** A request handler reads, then acts in
  later actions on what it read. What runs in one transaction of the store
  (`withItemLock`, `withRowLock`, a single guarded UPDATE) is one action; two
  statements outside a transaction are two actions. `Abort` lets a handler stop
  between any two of them (store error, cancelled request, crash); the sweepers
  have `StopSweep` and `ExpiryFails`.
* **An id is a fresh uuid.** A row is `none` before its insert and `gone` after
  its delete, and is never reused.
* **A token is the thing it was minted for.** Guessing is not modelled: a link is
  used only by someone it was delivered to. A capability hash is the handler that
  minted it or a sentinel of the code; a match-action token is its match; a
  session is the credential version it carries.
* **Mail** is a set of what reached an inbox. A send may fail, and may be
  delivered although it reports failure (the error of QUIT, `email/smtp.go:163`).
* **Sums** (`SUM(quantity)`, `SUM(pledged_amount_minor)`) are counted as the
  (row, unit) pairs, which needs no recursion. The int64 addition of the
  overfunding check wraps (`Wrapped`), with `MaxInt` the largest value.
* **History variables** (`peak`, `handed`, `consented`, `revealed`, `spent`,
  `wins`, `shown`, `made`, `kept`, `told`, `tries`, ...) record what left the
  store or happened before, so that it can be compared with what the store says
  later. No guard reads them but those that say who holds a token.
* **Faulty variants**, each marked with the comment `faulty`, stand beside the
  operator they would replace: they are the bugs with which every property is
  known to fail.

### How state and actions correspond to the code

`Reservations`: `res` is the table; `item`, `wanted`, `list` the owner's rows;
`pledged` stands for the other track; `hs`, `sw` the processes; `invited`, `inbox`
the delivered links; `back` is how long ago the item came back from the archive
and `raced` the holds a sweep had listed then. Time is ages: `idle` and `dwell`
are the ticks since `last_activity_at` and `state_at`, saturating at `MaxAge`,
past which no window can tell two ages apart. A sweep ages too (`sw[s].age`),
because its writes stamp the time at which it *began*.

`CoBuying`: `pledges`, `matches` are the tables; `item`, `price` the owner's row;
`reserved` the other track; `links` the delivered action links. A match is 0, 1 or
2 old: within the confirm window, past it (the sweep may take it), and past the
later expiry of its links, which are minted after the match. `Judge` is the only
read of a match's state by a withdrawal or a decline; the statements that follow
it each write a row from a copy read at that point or at the start, as the code
does.

`Item` is both of them over one item. `Pledged` and `Reserved` are the two counts
that the two `CreateWithinCapacity` take under the item lock, and stand for
`pledged` of `Reservations` and `reserved` of `CoBuying`; `row` and `list` are the
owner's rows, from which follows whether `CreateContribution` lets a pledge on
(`PledgeDoor`; the owner's `allow_cobuy` may change at any time).

`Accounts`: `user` is the row with its hash and `credential_version`; `links` the
verification, reset and invite tokens; `sessions` what was issued and has not run
out, each with the version it carries and, as history, the door its owner came in
by, the password he proved or set, and the version the account had at that moment
(`since`); `pats` the access tokens, with the version of the session each was asked
for with (`madeWith`). A verification is three statements (`claim`, `activate`,
`issue`), a reset is one transaction, a resend runs in a goroutine of its own. A
change and a reset write first and then read the version to issue at (`reissue`,
`issue`). `OAuthRegister` and `OAuthComplete` are the two ends of a sign-in with
the provider that touch the account; what lies between is `SignIn`.

`SignIn`: a flow is a state, its nonce and its verifier, and later a jti. The
callback goes through `exchange`, `subject`, `email`, `guard` or `create`, `link`
and `ticket`; completing through `consume` and `session`; each is one statement
or one call. The provider may answer any flow, change an address, or call it
unverified.

`Lists`: every request is read, `OwnsList`, then write or answer (`GetList`,
`ListItems` and `ExportList` only answer; `shown` remembers what was answered).
`ArchiveItem` stamps an unstamped row; who stamped it reads the reservations
(`NotifyReserved`), then the pledges, and writes to all (`NotifyPledged`). Either
read may fail, is then logged and passed over, and its track goes into `lost`; a
crash puts both there.

`Domains`: `rows` are the claims, `dns` the tokens in the zone. Adding is a read
of the clock and then a transaction; verifying is a read, a lookup and an update
by id.

`Gate`: `entries` are the limiter's windows by key, asked (`Allow`) and told
(`RecordFailure`, `RecordSuccess`) under separate locks; `ClientHop` is the walk
over X-Forwarded-For; `seen` is the proof-of-work guard.

`Startup`: a process goes through `open`, `ensure`, `read`, `migrate` (once per
missing version, in the transaction of `applyMigration`), then either
`configure`, `listen`, `serve`, `drain` or the look-up and write of a command.
`applied` is what `schema_migrations` records, `schema` the migrations whose tables
and columns are there: a migration makes its own and drops what `Drops` says of
earlier ones (`After`).

## Runs

| Run | Bounds | Shows |
|---|---|---|
| `ReserveRace` | 2 reservations, 2 handlers, 1 sweeper, quantities up to 2 | `WithinCapacity`, `TokensHonoured`: capacity and honoured tokens while the owner edits the wanted quantity (decay is off: reminders move no units) |
| `HoldsLive` | 1 reservation, 1 handler, 1 sweeper, windows of 1, 2 and 3 ticks; the owner archives, unarchives and switches the list | `KeepsLedger` (the refinement), `NoSilentExpiry`, `EarnedExpiry`, and under fairness `HoldsMoveOn` |
| `MatchRace` | 2 pledges of 0 to 3, price 2, integers up to 3, 1 match, 2 handlers, 1 sweeper, any write may be the last | `RevealNeedsConsent`, `ExpiredNeverRevealed`, `PledgeFits`, `KeepsIntroductions` (the refinement) |
| `MatchLive` | 2 pledges, 1 match, 1 handler, 1 sweeper, a price that moves between 1 and 2 | under fairness `MatchesResolve` |
| `AccountsRace` | 2 handlers, 2 links, 2 passwords, 2 access tokens with a limit of 1, versions and clock up to 3, nine workloads | `LinksSpentOnce`, `PasswordSessionsCurrent`, `NoSessionWhilePending`, `PatLimit`, `TokensFallWithReset` |
| `SignInRace` | 2 handlers, browsers, flows, subjects and addresses; tickets last one tick of a clock that ticks once | `TicketOnce`, `OneAccountPerSubject`, `LinksAreVouched`, `SecondSubjectRefused`, over restarts |
| `DomainRace` | 2 tenants, 2 handlers, 3 claims, a claim window of 1, clock up to 3 | `ServedByProof`, `ClaimStands` |
| `ListsRace` | 2 accounts, 2 handlers, 2 lists, 1 item, 1 giver, 2 archivings, five workloads | `OwnersOnly`, `GiverByRaceOnly`, `ToldPerArchive`, `HoldersTold`, `ArchiveStands` |
| `GateRace` | 2 handlers, 1 client behind or beside the proxy, 2 names, 1 solution, limit, window and TTL of 1, clock up to 3, three workloads | `AttemptsBounded`, `SweepKeepsUp`, `SolutionOnce`, over restarts |
| `StartRace` | 2 of 2 instances and 2 commands at a time, builds with 1 and 2 migrations of which the second drops what the first made, 1 sweep, 1 request, 2 faults, a sound and an unsound configuration | `ServesWhole`, and under fairness `UpAgain` |
| `TracksOverlap` | `Item`: 2 pledges and 2 of their handlers, no match expiry; 1 reservation, 1 of its handlers and 1 decay sweeper; archive, list switches, deletion | **violated**: two dissolves at once revive a pledge beside a reservation |
| `ContactsNeedConsent` | 2 pledges, 1 handler, no match expiry | **violated**: a dissolve that stops half-way lets one party complete the match and read the other's address |

`TypeOK` is checked in one run of each module. Every property of a passing run is
known to fail when one definition is replaced by its faulty variant.

**Why these bounds.** Each hazard needs two actors, or one actor and a sweep or
the clock, so two handlers reach it; two rows let them collide or be told apart;
a third claim can take over from one that has itself taken over while the first
is still being looked up. Quantities up to two separate "fits", "fits exactly" and "exceeds by one".
Three decay windows of different lengths cannot be mistaken for each other. A
window of one tick already has a before, an at and an after. Two archivings let
the notices of one overlap the next. The limit of one is reached by one token and
overrun by two. Two faults suffice for a crash during the recovery from a crash.
Two builds whose numbers of migrations differ by one are an upgrade.
In `MatchRace` two pledges of up to 3 cover the price of 2 exactly, exceed it by one
and leave the integers of up to 3 altogether.

**Workloads.** `Accounts`, `Lists` and `Gate` choose at the start which kinds of
requests come together in a behaviour, because all of them at once are out of
TLC's reach. Every kind is in some workload beside the ones it shares state with.
The proofs are for any workloads.

**Restricted environments.** `MatchRace` drops the owner and the other track
(`RaceNext`) to afford two handlers: the price and a closed item only decide which
pledges exist, and a deleted item fails the locked steps as `Abort` and
`ExpiryFails` do. It also drops what other behaviours dominate. A giver with a token
may do all that one with a link may (`Actor` asks for either), so there every pledge
is answered with its token, and the mailed links play no part; and a request that
stops before its first write leaves what it would have left by not coming.
`TracksOverlap`, `MatchLive` and the proofs have the links. `MatchLive` drops the other track, whose reservations would only
stop pledges from coming.

**Deadlock** is not checked in `AccountsRace` and `ListsRace`, where a behaviour may
use up its links and ids and its clock, nor in the two violated runs.

**What the properties except.** Six promises of the code's comments and documents
do not hold of the code in one case each. Each property below holds in every other
case and names that one in its formula; the behaviours are listed in the next
section.

| Property | Excepted |
|---|---|
| `EarnedExpiry` | holds that a sweep had listed when their item came back from the archive |
| `PledgeFits` | the addition that itself leaves the int64 range |
| `PasswordSessionsCurrent` | a change or reset overtaken by another one before it read the version to issue at |
| `NoSessionWhilePending` | the door of the identity provider |
| `TokensFallWithReset` | a creation that had passed the middleware when the reset was committed |
| `HoldersTold` | the track whose read failed; both, where the handler died |

`ServesWhole` promises of an older build no more than the code can: all its own
migrations are applied, and what it misses of their tables and columns a newer
build has dropped.

`EarnedExpiry` is checked with one sweeper, and without more it only holds with
one: of two sweeps that overlap, the slower marks a row with the older time at
which it began itself, and the faster then counts the response window from that.
`decay.go:139-140` says that "single-instance is clean". The proofs say what
several sweepers keep: that no *pending* hold is cut short
(`NoPendingHoldIsCutShort`), all of `EarnedExpiry` as long as no two sweeps overlap
(`ExpiryIsEarned`), `NoSilentExpiry` and the refinement. No run has two.

### Seen while modelling, without a run of their own

The models contain these behaviours. Most contradict a comment or a document; no
run is kept for them.

Reservations and items:

* a send that reports failure after delivery rolls back the hold by its id, also
  when its giver has confirmed it meanwhile (`reservations.go:313`; the comment at
  `:276` is about a pending hold without its link);
* a sweep that had listed a hold when its item came back from the archive decides
  by the stamps it read before: it reminds, or expires, a hold whose restarted
  window has not run out (`decay.go:105` and `:150` look at the candidate, the
  update in `sqlstore/decay.go` at the state alone; against `items.go:265-282`);
* a failed read of one track in the notices of an archive is logged and passed over,
  and the givers on that track hear nothing, then or later
  (`archive.go:194-197` and `:206-209` against `:155`);
* a sweep that read its candidates before an archive expires a hold of the
  archived item (`decay.go:72` against `types.go:330`);
* a reserve in flight inserts on an item archived or a list disabled after it was
  read (`reservations.go:53` against `types.go:328`);
* a reminder goes out although its transition then does not fire
  (`decay.go:132` against `decay.go:5`);
* an update of a list or an item writes every column of the row it read, so of two
  overlapping edits one is lost (`sqlstore/lists.go`, `items.go`);
* items carry no foreign key to their list: an item inserted while its list is
  being deleted stays, unreachable because `ownsList` joins the list;
* a demotion counts the lists, then writes the role: a list created in between
  belongs to a giver (`adminusers.go:153-155`);
* an export is called round-trippable (`export.go:42`), but an import refuses what
  the API accepts (a blank name, a price that is not positive, a negative
  priority) and takes 500 rows where an export has up to 2000.

Co-buying:

* the check at `cobuying.go:261` is not repeated under a lock, so a release can
  revive pledges that the sweep expired meanwhile (against `sweep.go:12` and
  `cobuying.go:256-260`), and revived pledges can overfund the item (against
  `contributions.go:90`, which checks only what is inserted);
* two pledges in flight list the same pending rows (`cobuying.go:148`) and both
  propose a match of them;
* a withdrawal decides on a `match_id` read before its match was proposed
  (`cobuying.go:245`): the remaining party completes the match alone
  (`matches.go:210`);
* a withdrawal that judged the match before the last confirm marks the completed
  match declined (`cobuying.go:544` against `:222`);
* a proposal that fails is only logged (`cobuying.go:118-121`): the covering
  pledges stay pending, and every later one is refused as overfunding;
* an item that is deleted keeps its proposed match for ever, because
  `ExpireIfProposed` locks the item row;
* a pledge near the largest int64 wraps the sum and is accepted
  (`contributions.go:116` against `:90`); with `MaxInt` set to 3, `MatchRace` takes
  that step.

Accounts and sign-in:

* a password change is checked against the row that the middleware read
  (`password.go:46`), so one that was under way writes its hash over an operator's
  set-password (`password.go:73` against `users.go:227-229`);
* a change or a reset that another set-password overtakes between its own write and
  its reading of the version issues a session of the newer version: the password it
  had set is superseded, its session lives (`password.go:79-88`,
  `passwordreset.go:254-262` against `users.go:227-229`);
* a creation of an access token that passed the middleware before a reset inserts
  after it, and the token works (`accesstokens.go:54-93` against
  `passwordreset.go:125-126` and ADR-0016 §4);
* a request admitted with an access token before a reset runs on after it;
* two resends at once delete and insert one after the other and leave two live
  links (`register.go:173` against `:194`);
* `AdminCreateOwner` hashes without the policy that `auth/password.go:55` calls the
  single funnel (`admin.go:55`);
* completing an OAuth sign-in asks neither for a ban nor for the account's status, so
  an account that registered with a password and has not verified its address gets a
  session by the provider and stays pending (`oauth.go:257-276`, `:310-341` against
  `types.go:125-126` and `docs/adr/0012-registration-mechanics.md:86`); the
  middleware lets that session through as it asks for a ban only;
* a ticket presented in its last moment, or a proof of work at its expiry, can be
  honoured again once the guard has dropped it, or the process restarted;
* the conflict path of a self-registration links without the guard of the other
  path (`oauth.go:370`); what it links to was created after the sign-in began, or
  else it would have been found, which is why `SecondSubjectRefused` holds;
* the OAuth and other toggles are read once at the start of an instance.

Processes:

* nothing refuses a database that is newer than the build, and migrations drop
  (`migrations/sqlite/0006_list_owners.sql:26-27`, `0016_admin_capability.sql:12`):
  an older build beside a newer one, or started after it, serves without columns and
  tables its requests ask for (`migrate.go:70-73` skips by version alone; ADR-0003
  calls migrations forward-only);
* a faulty configuration is refused only after the migrations ran;
* background mail and a running sweep are not awaited at shutdown.

## Fairness

`Reservations!Fairness`: time passes; the sweeper's ticker (`runSweeper`) never
stops, so some step of each sweeper keeps being taken; and a store or mail server
that keeps being tried answers in the end (strong fairness of one reminder, mark
and expiry per row, enabled again by each sweep). No fairness of givers or owners:
they may never act. `HoldsMoveOn` is about holds with an address on a live item of
an active list; a hold without an address is skipped by the sweep on purpose, and
the windows are positive in that run because a zero window turns the sweep off.

`CoBuying!Fairness`: a request's statements run on or the request stops, time
passes, the sweeper keeps ticking and one expiry per match succeeds in the end.
`MatchesResolve` exempts a deleted item, as said above.

`Startup!Fairness`: a process that is running goes on (weak fairness of its steps),
and an instance that is down is started again. The first is the scheduler's, and
the drain's own timeout ends it although a request hangs; the second is an
assumption about the operator's supervisor, whom `docs/self-hosting.md:392` asks to
restart at an upgrade: no file of the repository states a restart policy. Faults
are bounded (`MaxFaults`): an instance that is killed for ever never serves.
Nothing is assumed of requests, sweeps and commands.

The other modules state no fairness: what they promise is safety.

## Proofs

The theorems hold for every value of the constants that the named assumptions of
the modules admit: any number of rows, handlers, sweepers, flows or processes, any
windows, any clock bound. Every safety property of a passing run is proved except
those listed below. The column on the right says what the
properties need to become inductive.

| Module | Theorems | What the inductive invariant adds, and why |
|---|---|---|
| `ReservationsProofs` | `TypeCorrect`, `CapacityKept`, `TokensAreHonoured`, `NoExpiryIsSilent`, `ExpiryIsFinal`, `NoPendingHoldIsCutShort`, `ExpiryIsEarned`, `OneInstanceEarns`, `LedgerKept` | `WantedWithinPeak`: a handler checks the quantity it *read*, so that is at most `peak`. `InsertsFresh`: an inserting handler's row exists nowhere else. `BusyOnARow`. `PendingHasSentinel`: the winner of a confirm is the first to hand out a token. `LinksOnlyOnceNotified`, `TodoIsFresh`, `MarkingAfterSend`: minting a new link pair kills no stored one, and a sweeper that marks has sent. `PendingEarned`, `NotifiedEarned`: a row a sweep is to expire, still in the state it was listed in, has used up its window or was stamped after the sweep began; the second survives a mark only if no other sweep is under way. `ClocksSince`: no stamp and no listed row is older than the item's return from the archive, but for the rows that were listed then. The refinement mapping of `LedgerKept` takes `state` and `units` from the rows, `keys` from the tokens handed out and `limit` from `peak` |
| `CoBuyingProofs` | `TypeCorrect`, `OnlyConsentRevealed`, `NoRevealAfterExpiry`, `RevealedOnce`, `PledgesFit`, `IntroductionsKept`, `PledgesOfItem`, `ReservationsOfItem`, `ExclusiveUnlessRevived` | `BusyWithSomething`. `OneReveals`: the handler that completed a match is the only one at its reveal. `RevealSettled`: a match being revealed is completed, or was closed by a dissolve that judged it before, and the sweep takes neither. `Begun`: a match a handler works on has been proposed, so closing one never calls off what was not there. The mapping of `IntroductionsKept` takes `verdict` from the matches, `yes` from the confirms, `due` from the handlers at a reveal and `introduced` from the mails. `InStep`: `reserved` and `item` of `CoBuying` are what the reservations and the owner's rows say |
| `AccountsProofs` | `TypeCorrect`, `LinksCountOnce`, `SessionsFollowPassword`, `PendingHasNoSession`, `LimitHolds`, `ResetEndsTokens` | `BusyWithSomething`. `SessionsVouched`, `HandlersVouched`: no session is ahead of the account's version, so raising it ends all, and the password proved or set when the account had its present version is the present one; the same of every session about to be issued. `IssuingIsLetIn`: who is about to issue one has an active account or came in by the provider's door. `SpentIsOver`, `MintedOnce`: a link that counted is not live, and one being minted is nobody else's. `ResetBehind`, `CountedAt`: the last reset is not ahead of the account, and a token is counted at a time that has come, after which fewer of the old ones work. `MadeAfterReset`: a token in the store or on its way was asked for after the last reset, or was on its way then |
| `SignInProofs` | `TypeCorrect`, `TicketsCountOnce`, `OneAccountEach`, `VouchedLinks`, `NoLateSecond` | `Sound(h)`: a handler past the provider works on its flow alone (`Alone`), its account is the one whose address was looked up (`Meant`), and what was linked when it began still is (`Seen`). `FlowAnswered`: a verified address was vouched for. `TicketLinked`: a ticket is for its subject's link. `WinsRemembered`: a use that counted is remembered until the ticket expires |
| `ListsProofs` | `TypeCorrect`, `WritesAreRightful`, `GiversOwnByRace`, `NoticesPaidFor`, `EveryHolderTold`, `ArchivesStand` | `Rightful(h)`: a handler about to write acts on a list its account made, and one about to demote somebody who owns only what raced. `OwnersMade`, `ItemsListed`. `OwnShown`: an item that was shown is on a list made by the account it was shown to, because items never move and lists never change hands. `NoticesCounted`: letters sent plus tellings under way are at most the archives, a cardinality argument. `HoldersCovered`: a holder is told, or a telling has not read his track yet, or has noted him, or his track is lost |
| `DomainsProofs` | `TypeCorrect`, `OnlyProvedClaimsServe`, `ClaimsStand` | `InsertsFresh`: an inserting handler's row exists nowhere else and its clock is past. `UpdatesProved`: an update is about a claim whose token the lookup found, even if the claim has gone |
| `GateProofs` | `TypeCorrect`, `ArrivesAsHimself`, `AttemptsAreBounded`, `RedeemedOnce`, `NothingOldIsKept` | `Shapes`: which keys a request has left to tell of. `WindowsBounded`: an open window's failures *and* the requests let through on its key that have yet to tell of it stay below the limit and the number of handlers; this is what a request that was let through long ago, or retries, cannot break. `Mirrors`: the limiter's entry of an open window is the true count. `SweptSince`: the last sweep left nothing whose window had ended. `SpentKnown`: a redemption is remembered as long as the solution is valid |
| `StartupProofs` | `TypeCorrect`, `WholeIsServed` | `SchemaWhole`: the migrations on record are the first ones, and the schema is what these leave. `ProcOK(p)`: what a process found applied is a beginning of them; past its migrations it has all its own applied; an instance that started passed its checks. `WholeNext` and `WholeMisses` are the two facts about what migrations leave: one more makes its own and drops its own, and what a longer beginning lacks of a shorter one's, a migration between dropped |

Assumptions beyond bounds being natural numbers and "no ..." names being no
members: `Resv`, `Pat`, `Binary` and the handlers of `Lists` and `Gate` are finite
(for cardinalities), and the limiter's keys of names are no addresses (they have a
prefix of their own). `ArrivesAsHimself` is about a client who comes straight or
through one trusted proxy, which adds the address it saw. `DropsAssumption` says
that a migration drops only what earlier ones made. Quantities of reservations are
far below the int range (`MaxQty`), so their sum does not wrap.

Most modules' proofs go the same way: a lemma says what a step must do for the
*other* handlers to stay sound (`OtherStays`, with a relation such as `Grows` of the
data), another that the moving handler is sound in its next record (`StepMoves`),
then there is one lemma per action and the sum of them in `Steps`.

**The two tracks of an item.** `Reservations` and `CoBuying` each leave the other to
a flag. `PledgesOfItem` and `ReservationsOfItem` show that in the composition `Item`
both behave as their modules say, so all that is proved of either holds of an item
that has both: `CoBuying` assumes that a reservation comes only while no pledge is
live, and that is shown of the reserve track's insert. What does not follow is the
exclusion itself: inserts keep it, but `dissolveMatch` and `matchRepo.Create` write
rows whatever their status. `ExclusiveUnlessRevived` proves it for the behaviours in
which no declined or expired pledge becomes live again, and `TracksOverlap` shows
one in which it does.

Model-checked only: the liveness properties `HoldsMoveOn`, `MatchesResolve` and
`UpAgain` (fairness and ENABLED are outside the prover).

## What is abstracted

* The store's transactions are atomic and serial behind the row lock. SQLite has
  one connection; on Postgres a count under READ COMMITTED relies on every
  writer of the counted rows taking the same `FOR UPDATE`. Writers that do not
  take it are separate actions.
* Each model is of one tenant, and of one item, address or hostname where nothing
  crosses them. The tenant id is in every query.
* Names, messages, notes, currencies, thank-you mails, read models and response
  bodies. An imported document is the facts its validation asks of each cell.
* Passwords are values; hashing, signing, PKCE and the proof of work are assumed to
  do what they are for.

## Plan, and what is left

Done: every module above, with the proofs listed.

Left, in the order of their worth: an abstract specification of accounts (what a
session is worth, and when) implemented by `Accounts` and `SignIn` together; a run
of `Reservations` with two sweepers, which is beyond what TLC finishes in minutes
next to two handlers; the expiry of session cookies in the web front end.

### Not modelled

* **Preview fetcher** (`preview/`): HTTP and HTML parsing of foreign pages; it keeps
  no state and its result is a suggestion the owner edits.
* **Generated API** (`api/gen/`) **and web front end** (`src/web`): generated bindings
  and presentation; the server decides everything the models are about.
* Of **settings**, **tenancy**, **e-mail**, **import and export**, **lists and the
  public page**: the look-ups, conversions and transports. `AddOwner` and
  `RemoveOwner` have no caller.
