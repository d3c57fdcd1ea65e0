# RosterIQ: verification

TLA+ models of RosterIQ, a hockey front-office application in TypeScript: Next.js server actions
over Drizzle, on managed Postgres or on PGlite, a Postgres embedded in the server process
(`src/src/db/client.ts`). TLC checks the models on small instances; TLAPS proves the theorems
listed below for every value of the constants.

Contents: [parts](#the-system-and-its-parts) · [hard behaviours](#what-is-hard) ·
[modules](#modules) · [runs](#runs) · [fairness](#fairness) · [proofs](#proofs) ·
[disagreements](#where-code-and-documents-disagree) · [abstractions](#abstractions) ·
[plan](#plan) · [not modelled](#not-modelled)

## The system and its parts

A browser posts a form to a server action (`src/src/server/actions`). The action checks the
user's role (`requireOrgAccess`), calls a service (`src/src/server/services`), and the service
runs SQL statements one `await` at a time. Nothing is shared between requests except the
database and, for outbound fetches, one in-process rate limiter. Pure libraries (`src/src/lib`)
do the arithmetic. So a part's state is the rows it keeps, and two parts interact through rows
that one writes and the other reads.

| part | state | operations | talks to | correct when |
|---|---|---|---|---|
| Salary-cap engine `lib/engine` | none | `calculateCap` | called by projector, reports, gate | line items explain the charge; relief never exceeds what it relieves; shares add up |
| Scenario projector `lib/scenario`, `scenarioService`, `capService` | none | `buildTeamCapInputs`, `projectScenario` | reads official records and scenario rows | the preview shows what applying will make true |
| Apply service `applyService` | contracts, players, obligations, official log, scenario status | `applyScenario` | gate (projector), official records | atomic, once, dead cap booked once, departures final |
| Scenario editing `scenarioActions` | scenario rows and status | create, duplicate, add, remove, toggle, set status, apply | apply service | what is applied is what was read; applied is read-only |
| Edits by hand `contractActions` | contracts, players | create and terminate a contract, set a roster status | same rows as applies | never undone by an apply in flight |
| Invites and membership `inviteService`, `inviteActions`, `auth` | invites, members, accounts | create, revoke, accept, register, change role, remove | billing (seats), session | uses are joins; nobody twice, unpaid or above their grantor; an admin stays |
| Billing `billingService`, webhook | one subscription row per organization | `applyStripeEvent`, `getPlanState` | Stripe, membership | an old event never replaces a newer state |
| Outbound rate limiter `lib/connectors/rateLimiter` | a promise chain and last start per host | `acquire` | connector fetches | one host's requests are spaced, in order, and all settle |
| Connector fetch and cache `connectorService`, `connectors/http` | cache rows | `cachedFetch`, `rateLimitedGet`, plans of pages, bundles | limiter, import pipeline | what is staged is as old as it says and of its own pages; nothing is kept of a failed fetch |
| Data source connectors `lib/connectors`, `connectorDefinitions`, `connectorCommit` | ten `ext_` tables | parse, validate, upsert of twenty datasets | fetch, imports | an unknown value is NULL and never 0; no dataset replaces another's rows |
| Live scores and game situations `scoresService`, `situationsService` | boards and downloads in memory, a file per season | a visit, a refresh behind it | NHL, limiter | no page older than it may be; a refresh that fails does not stop later ones |
| Import pipeline `importService`, `connectorCommit` | imports with their rows, errors, the records they become | upload, fetch, validate, approve (one or a bundle), reject | players, contracts, prospects, connector tables | only rows that are valid when committed are; nothing twice; groups whole; connector rows traceable |
| CSV files `csv`, `csvParse`, `definitions` | none | write, read, map columns to fields | imports, exports | what is written is read back; a column is its own field's |
| Draft boards `boardService` | boards, entries, versions, snapshots, rankings, consensus | create, add, remove, reorder, rank, edit, lock | scouting reports, fit | ranks are a permutation; a snapshot is the board at its version; locked boards stay |
| Free-agent boards `boardService` | boards, entries with a history of every field | add, edit, reorder, archive | prospects, members | priorities are dense; the history explains every field |
| League rules `ruleActions` | rules, rule versions, audit | `updateRuleAction` | cap engine through `capService` | one active version per key and season; history is kept |
| Organization and club setup `orgActions`, `nhlClubService` | organizations, leagues, teams, seasons, players | create, join, import a club | membership, rules, NHL | a team has its seasons and rules; an import makes no second club and undoes no edit |
| Team-player fit `fitService`, `lib/scouting/fit` | needs, runs, scores, breakdowns | edit a need, run a fit | prospects, contracts, reports | missing data is not a low score; a score has its own breakdown |
| Scouting statistics `lib/scouting` | none | percentiles, role scores, trends | fit, profile pages | like is compared with like; no datum, no penalty |
| Scouting desk `scoutingActions`, `scoutingService` | reports, watchlists, assignments, views, role scores | create, add, assign, save, delete, visit a profile | boards, fit | rows of one organization; scores of the line that was read |
| Links to frozen reports `reportService` | reports, sections, tokens | generate, read, revoke | cap engine | a link shows one whole report, never changed, never after its revocation |
| Draft link `lib/prospects/draftLink` | none | find a pick's or a prospect's NHL player | NHL search | no namesake is linked |
| Valuation `lib/valuation`, `valuationService` | none | a price, a market estimate, a player page | contracts, comparables | of the nearest comparables of one's own pool; dearer ones never lower it |
| Exports, profile, player records, session, pages, analytics, schema and seeds | little or none | see [not modelled](#not-modelled) | | |

## What is hard

- **Statements interleave.** A server action is a sequence of awaited statements. Transactions
  wrap `applyScenario`, `createContract`'s inserts, scenario duplication, `acceptInvite`, rule
  edits, the writes of import validation and import commits, profile changes, the club import and
  report snapshots; nothing else. Everything read before a transaction, and everything outside
  one, may be stale when it is used.
- **Two databases.** On PGlite a transaction holds a mutex that keeps every other statement out.
  On Postgres at READ COMMITTED a statement sees what has been committed when it starts, updated
  rows stay locked, conditional updates are evaluated again once the lock is free, and transactions
  can deadlock. Some guards are safe on the one and not on the other.
- **Two pieces of code for one meaning.** A scenario's preview overlays hypothetical rows on cap
  inputs; applying it writes records from which cap inputs are built anew. They must agree.
- **Checked now, written later.** An import is validated when it is mapped and again when it is
  approved; in between other imports and edits by hand change what it was validated against.
- **Partial failure.** Any statement can fail and any process can die between two.
- **Order of events.** Stripe delivers late, twice and out of order; timers fire early.
- **Arithmetic at the edge.** Rounded shares of a hit, the buried threshold, the LTIR pool.

`PROJECT.json` lists these hazards one by one, at the line where each bites, with the property
that watches it or the reason none does.

## Modules

| module | models | composes |
|---|---|---|
| `CapEngine` | `calculateCap` as a pure operator: totals, counts, line items, violations, warnings | |
| `CapRoster` | a roster whose statuses are edited, under the engine | `CapEngine` |
| `RosterMoves` | the official records and what each kind of move does to them (`applyOne`); `buildTeamCapInputs` | `CapEngine` |
| `Projector` | `projectScenario` over cap inputs | `RosterMoves` |
| `PreviewApply` | one scenario taken move by move by the projector and by the apply code side by side | `Projector` |
| `OfficialLedger` | abstract: the records change by edits and by whole scenarios | `RosterMoves` |
| `ScenarioApply` | requests that gate, apply, edit scenarios and edit records, statement by statement | `Projector`, refines `OfficialLedger` |
| `Roles` | the roles and what each may do | |
| `Billing` | the subscription row and the webhook's handlers | |
| `Membership` | invites, members, accounts, the requests that change them | `Billing` |
| `LeagueRules` | edits of rules: read, one transaction, audit | `Roles` |
| `OrgSetup` | organizations, leagues, teams and NHL clubs, on either database | `Roles` |
| `RateLimiter` | `HostRateLimiter.acquire` with its promise chain, clock and failing sleeps | |
| `ConnectorFetch` | requests, plans of pages, the cache, the network, staged imports | |
| `SourceParsers` | the cells a parser makes of a source's page, or its error | |
| `ConnectorTables` | the definitions of twenty datasets, their validation, preview and upserts | `SourceParsers` |
| `LeagueViews` | the scoreboard and the teams' situations, with memory, files and restarts | |
| `CsvFiles` | what is written as CSV, what is read of any text, the mapping of columns | |
| `ImportRows` | which rows of a file are valid against the records, and what committing them writes, for each kind of file | |
| `ImportPipeline` | uploads, validations, approvals, rejections and edits by hand, request by request | `ImportRows` |
| `Consensus` | mean, median, range and deviation of the scouts' ranks | |
| `DraftBoard` | one draft board, its editors and the scouts who rank | `Consensus`, `Roles` |
| `CfaBoard` | one free-agent board and its history | `Roles` |
| `FitScore` | the fourteen components of a fit, the overall score, the confidence; what the service gathers for them | |
| `FitRuns` | a need, its edits and the runs against it, statement by statement | `Roles` |
| `ScoutingStats` | rates, percentiles, role scores, trends | |
| `Scouting` | the scouts' requests and the role scores of profile pages | `Roles` |
| `SharedReports` | reports generated, read by link, revoked | `Roles` |
| `DraftLink` | names compared, candidates ranked and verified | |
| `Valuation` | the performance price, the market estimate, the page of a player | |
| `CapRosterProofs`, `ScenarioApplyProofs`, `OrganizationProofs`, `RateLimiterProofs`, `ImportProofs`, `FetchProofs`, `OfficeProofs` | theorems and proofs | `CapRoster`, `ScenarioApply`, `Membership` and `LeagueRules`, `RateLimiter` and `LeagueViews`, `ImportPipeline`, `ConnectorFetch`, `DraftBoard` with `Scouting`, `FitRuns` and `SharedReports` |
| `BasicFacts` | lemmas the proofs share: least numbers, lists, sums over finite sets | |
| `MC...` | instances for TLC, see [runs](#runs) | |

How state and actions correspond to the code:

- **`RosterMoves`** keeps the records as `[contracts, players, obligations, log]`. `Arrive` is
  `createIncomingContract`, `Depart`, `Assign` and `Extend` are the other branches of `applyOne`,
  `Refused` collects the `ApplyError`s, `After` is one whole `applyOne`.
- **`ScenarioApply`** keeps the committed records in `db`, a request's position in `pc` and what
  its open transaction wrote in `mine`; `View(r)` is what its statements see. `Gate` is the
  server-side projection of `applyScenarioAction`; `CheckStatus`, `ReadPlan`, `Begin`, then
  `Load` and `Write` for every move, then `Commit` are `applyScenario`. `AddRead`/`AddInsert`,
  `ToggleRead`/`ToggleWrite`, `RemoveMove`, `SetStatus` are the scenario actions,
  `CreateRead`/`CreateWrite`, `Terminate`, `SetPlayerStatus` the edits by hand. `Fail` is a failed
  statement or a crash; `AbortDeadlock` is Postgres's deadlock detector. `Exclusive` chooses the
  database.
- **`Membership`** keeps rows in `members` and `invites`, the audit rows of joins in `joined`, and
  a request's position and memory in `pc` and `task`. `Authorize` is `requireOrgAccess`;
  `CheckRole`/`WriteRole` and `CheckRemoval`/`WriteRemoval` are the check and the write of
  `changeMemberRole` and `removeMember`; `Admit`/`Register` are `registerAction`;
  `AcceptRead`/`Claim`/`Join` are the statements of `acceptInvite`'s transaction. `exclusive`
  chooses the database.
- **`Billing`** splits `applyStripeEvent` into `Receive` (up to the staleness check) and `Store`
  (the upsert).
- **`RateLimiter`** has one action per continuation of `acquire`: `Acquire` enters the chain,
  `StartAtOnce`, `Sleep`, `Wake` and `SleepFails` are what follows, `Tick` is time.

- **`ImportRows`** keeps a row as whom it names, what it refers to, its key, its values and
  whether every cell passes its field's check. `ValidRows` is `validateRows` (`Fits` row by row,
  `BadNames` for the groups of a contract file); `Written` is the body of `commitImport`'s
  transaction, `Upsert` with `Overwrite` and `Fill` is `commitConnectorRecords` with `upsertSet`.
- **`ImportPipeline`** keeps the rows of `imports` in `imports`, those of `import_errors` in
  `errors`, everything imports are about in `records`, and a request's position and memory in `pc`
  and `task`. `ValidateRead`, `ClearErrors` and `StoreErrors` are `validateImport` up to, at and
  after its transaction's delete; `Approve` is an approval of one import or of a `Bundle`, whose
  imports `CommitRead` and `CommitWrite` commit one by one; `RejectRead`/`RejectWrite` are
  `rejectImport`; `AddPlayer` and `Terminate` are edits by hand of what imports are validated
  against. `Clerks` are the requests that may approve, `Reviewers` all others.

- **`LeagueRules`** keeps the rows of `league_rules` in `rules`, those of `rule_versions` in
  `changes` and those of the audit log in `audits`; `editing[e]` and `edit[e]` are where an
  editor's request stands and the row it has read. `ReadRule` is `updateRuleAction` up to its
  transaction, `Supersede`, `InsertNext`, `InsertChange` and `CommitEdit` the statements of it, with
  the lock of the row it has updated (`RowLocked`) and the unique index (`VersionTaken`),
  `AuditEdit` what follows it, `CutShort` a request that dies. `LoadRuleSet` is what the cap engine
  reads.
- **`OrgSetup`**: `CreateOrganization`/`InsertMember` and `CreateLeague` or `JoinLeague`,
  `InsertSeason`, `InsertRules`, `InsertTeam` are `orgActions`, one insert a step. `FetchRoster`
  to `CommitImport` are `importNhlClub` with its one transaction, `EditStatus` is a status recorded
  by hand, `Trade` a player who changes his club, `Dies` a request that fails; `serial` is the
  database.
- **`DraftBoard`**: a request's first step is its action's checks and reads (`AddProspect`,
  `ReorderBoard`, `UpdateEntry`, ...); the statements and then those of `commitBoardVersion` follow
  one by one. An edit of an entry stores all the fields of its form that differ and logs
  each, under one version; a form of nothing but `NOTE_FIELDS` may be stored on a locked board. A
  snapshot keeps `SnapshotColumns`, which leave out notes, floor, ceiling and expected range.
  `Derive` is what a stored ranking or score makes of the derived columns. Nothing
  is a transaction, and nothing has a lock. **`CfaBoard`** is alike, with `InsertEntry`,
  `StoreEntry` and `LogEntry`.
- **`ConnectorFetch`** keeps a run's state in `run[r]`: the request, the pages it needs, those it
  has. `Begin` is the action with its plan of pages, `Look` a look into the cache,
  `Answer`/`Unreachable`/`Refused` the fetch, `Store` the cache row, `Record` the audit row,
  `FollowUp` the season that HockeyTech's first page names, `Stage` the import, `ReadFile` a model
  file, staged as retrieved when its model was trained (`TrainedAt`), or now when no model card says
  when, `Finish` the end. `Die` is a failed statement or a crash anywhere, also between the cache row
  and the audit row, which no transaction holds together; `lost` remembers that page. `Tick` is time,
  `Publish` a change at the sources.
- **`ConnectorTables`**: one action, `Commit`, is a page parsed, validated, previewed and upserted
  in chunks; its pages are inputs. A cell of an item may have a value, say nothing (`None`: null or an
  empty text), be `Junk` (unreadable) or be `Absent`, which the code tells apart where it compares with
  `undefined` (`SaysNoPercentage`). `Datasets` are the definitions, with key, required and optional
  cells; `Statements` are the upserts with their conflict targets, `Insert` one of them.
- **`LeagueViews`**: `getScoreboard` is a visit up to its fetch, `AnswerBoard` what the NHL says,
  `ReceiveBoard` what is kept and shown; `getTeamSituations`, `Download`, `Downloaded`, `Refresh`
  are a visit, a foreground download and one behind the visitor's back.
- **`FitRuns`**, **`Scouting`**, **`SharedReports`**: a request's first step has its checks and
  reads, then each statement is a step; a transaction is one step where nothing of it is read by
  another. `Fail` cuts a request short. What others do to the rows they read (`Extend`,
  `ImportLine`, `Edit`, `Leave`, ...) is between.
- **`FitScore`**, **`ScoutingStats`**, **`Consensus`**, **`CsvFiles`**, **`DraftLink`**,
  **`Valuation`** are operators named like the functions they are of. Their properties take inputs
  as parameters; `MCScores` and `MCEngines` enumerate them.

Operators named `X_Fault` (`Depart_StaysActive`, `Claim_Uncounted`, ...) are `X` with a plausible
bug; no specification uses them. Replacing `X` by one must break a property, which shows that the
property sees that code.

## Runs

Every run but the violations has several **parts**: the variable `part` says which of the
instances below a behaviour belongs to, it never changes, and the variables of the other parts are
null or stay as they were. A property speaks of each part it names.

| run | parts | checks |
|---|---|---|
| `engines` (`MCEngines`) | `roster`: three contracts, hits around the buried threshold, retained shares, dead cap, three LTIR pools, every status. `scenario`: from three official records, every sequence of up to three of 17 moves over two contracts, a free agent, two league seasons and one outside. `fit`, `window`, `peers`, `roles`, `years`, `logs`, `rows`: inputs of the scouting engines. `texts`, `tables`, `columns`: CSV. `names`, `links`: the draft link. `market`, `page`: valuation | `ChargeTold`, `RetentionConserves`, `BuryingNeverRaisesCharge` (roster), `PreviewTold` (scenario, base season), `ScoresTold` (the scouting engines, market, page), `TextsTold` |
| `applies` (`MCApplies`) | `races`: PGlite, three requests, two scenarios that want one contract, contracts added and terminated, statuses set, failures. `postgres`: two applies that lock two contracts in opposite orders. `editing`: a scenario edited, toggled and archived while it is applied | `LeavesOnce` and `ImplementsOfficialLedger` (races), `AllOrNothing`, `NoResurrection`, `EachRequestEnds` |
| `organization` (`MCOrganization`) | `members`: one admin, two people joining, one billing handler, two invites, both databases. `rules`: three administrators, two rules. `setup`: two administrators who set up and import two clubs, both databases | `JoinsCounted`, `KeepsAnAdmin`, `RevokedAdmitsNobody`, `SeatsFollowBilling` (members), `RulesTold`, `NeverOverwritten` (rules), `SetUpWhole`, `SetupKept` (setup) |
| `imports` (`MCImportPipeline`) | two files of every kind about two names, two mappings, one request that approves and one that does not, edits by hand, both databases | `ImportedOnce`, `ContractsSound`, `RowsTraced`, `RosterErasesNothing` |
| `connectors` (`MCConnectorFetch`) | `pages`: one organization asks twice for the same players. `ages`: while bodies grow old or are bypassed. `plans`: two organizations, every other kind of plan, sources that change. `tables`: any dataset's page of one or two items, then any other's, blank, unreadable or repeated here and there | `StagedAsSaid`, `Traceable`, `NothingHalf`, `TablesTold` |
| `office` (`MCOffice`) | `editing`, `failing`, `ranked`: one draft board, edited by one user after the other, with requests that die, or while scouts rank its prospects; in the other parts it stays as made. `crossing`: a second board, two editors at once. `agents`: a free-agent board. `numbers`: every set of ranks of four scouts. `fit`, `fit alone`: two runs of a need that cross, three one after another. `desk`, `lists`: two organizations' scouts. `visits`, `visit`: profile pages, two at once, one by one. `shared`: links to reports | `RanksTold`, `HistoryTold`, `VersionsTold`, `FailuresHeal`, `ConsensusOfRankings` (the draft board), `OthersTold` (crossing, agents, numbers, shared), `OneOrganization`, `ScoresWhole`, `LastWriterTold` |
| `rate_limiter` (`MCRateLimiter`) | `limiter`: four requests over two hosts, timers one tick early, failing sleeps. `scores`: two visits of the scoreboard while a game is played. `situations`: two visits while a season is played and ends, restarts, files written in part, answers that are no report | `Serialized`, `Spacing` (limiter), `PagesTold`, `EachSettles` |
| `preview_later` (`MCEngines`) | scenario | `EverySeasonTold`, **violated** |
| `apply_twice` (`MCApplies`) | two requests confirm one scenario | `AppliedOnce`, **violated** |
| `applied_edited` (`MCApplies`) | a move of an applied scenario is removed | `AppliedIsReadOnly`, **violated** |
| `last_admin` (`MCOrganization`) | members, two admins at work at a time | `KeepsAnAdmin`, **violated** |
| `finished_season` (`MCRateLimiter`) | situations | `FinishedSeason`, **violated** |

What the properties of several modules say together is in the comment before each in the `MC`
modules; the conjuncts are stated and explained in the module they are about (`OneActive` in
`LeagueRules`, `FrozenAndOwn` in `SharedReports`, and so on). Types are conjuncts of them
(`DeskTypeOK`, `SetupTypeOK`, `RulesTypeOK`, ...).

**Bounds and why they are enough.** Interleaving faults of a check and a later write need two
requests, three when a bystander holds the transaction: `races` has three, the others
two of the kind in question. A scenario conflict needs one contract that two scenarios want; a
deadlock needs two, locked in opposite orders. Projector and apply code treat moves one by one,
so a disagreement shows within a pair of moves that touch one contract, and a third is there to
follow or precede it. Two league seasons and one outside tell base, later and foreign apart. `MaxMoves`
bounds a scenario's length, `MaxRows` the rows a scenario may hold (in `Membership`: the member
rows ever inserted), `RowIds`, `Contracts` and `Players` the ids ever handed out, `IdleTime` the
clock of the limiter. In `members` three users, two invites (one for anyone and once, one for
one address and twice) and two events with seats 2 and 3 are the fewest that make the last use,
the last seat and a late event happen. Rules are read and written key by key: two keys show that
one edit leaves the other alone, three versions (`MaxVersion`) that a version already superseded
stays so, three editors that a request waits for a lock while another reads. In `setup` four
requests (`MaxRequests`) on PGlite can make an organization, two clubs and one of them again; on
Postgres, where more crosses, three, and `MaxTrades` lets a player change clubs between two
imports.

In `imports` a fault is between two files, or between one file and the records it was
validated against, so two files are enough (`MaxImports`); `Batches` pairs the files that touch
the same records, and three writes (`MaxWrites`) let a commit follow an edit by hand that follows
a commit. One request approves: with two, names repeat (below). `HandNames` bounds the players
entered by hand. In `tables` a row can only be spoilt by one before it in its table, so
two imports of two items are enough; a chunk is two rows, and a third row is a chunk of its own.
In `ages` bodies live two ticks of three (`Ttl`, `MaxTime`), so that one expires while a run waits;
in `pages` and `plans` no time passes, as what they are about is which page is whose. Models were
trained before the clock began, or nobody says when (`TrainedAt`).

A draft board of three prospects in two groups, of which two are ranked to begin with, is the
least on which overall and group ranks differ; six versions let three edits follow one another
after it was made, so that one locks, one unlocks and one ranks.
Its forms (`MCForms`) are of one field and of two, with and without a note, one of them for a
locked board too; in `crossing` both editors fill in the same two fields.
In `failing` two requests die, so that a repair can die too; in `crossing` two editors of one
prospect are enough to read one version, and one may die between the other's statements. Fit runs need two prospects, since a
run that stops between them leaves one of each; `MaxOpen` bounds the requests in progress.
Two organizations show whose a row is. In `visits` two seasons show the latest one, two versions a
line that is imported anew. The inputs of the pure engines cover each branch of the code and the
values at its edges; the pools of `market` have a sixth comparable that contends for the fifth
place, those of `peers` as many peers as the code's thresholds tell apart. `MaxFailures`,
`MaxEdits`, `MaxVersion`, `MaxTime` bound what could go on for ever.

Symmetry is used where ids are interchangeable and no liveness is checked.
`CHECK_DEADLOCK FALSE` is set in every run but `imports`: their requests finish for good, or their
inputs are read once.

## Fairness

- `ScenarioApply`: `WF(Continue(r))`, since the server runs a begun request's next statement once
  its `await` resolves; `WF(AbortDeadlock(r))`, since Postgres's deadlock detector ends a cycle of
  waits (`deadlock_timeout`). No fairness on starting requests, failing or editing. `MCApplies`
  says the same of each of its parts.
- `RateLimiter`: weak fairness of each request's step and of time, since the event loop runs due
  timers and microtasks.
- `LeagueViews`: weak fairness of `Refresh`. The downloads of a refresh are bounded in time although
  `http.ts` stops its timer when the headers arrive: undici ends a body that stands still. No
  fairness of visits, publications or restarts.
- The other modules have no liveness properties and no fairness: a user may walk away.

## Proofs

Assumptions are the `ASSUME`s of the modules: types and finiteness of the constants, `None` being
none of the values it stands beside, initial records that hang together. TLC evaluates each of
them on the instances.

**Rate limiter** (`TypeCorrect`, `SerializedAlways`, `SpacingHolds`). The invariant is
`TypeOK /\ QueueInv /\ ChainInv /\ Serialized /\ TimerInv`: the request at the end of a host's
chain is the latest that asked; a request is chained behind the one that asked just before it; a
timer is armed for the end of the interval after the last start. `EarlierSettled` and `Alone` give
that whoever runs is alone at its host, and spacing follows because it slept for what it read.

**Scoreboard and situations** (`PagesToldAlways`), for any visits, dates, seasons, times to live
and downloads (`TimesAssumption`: a board lives for some time; `PagesAssumption`: no date is a
season, nothing and junk are no downloads). `PagesInv` relates what is shown to what is kept.
`BoardsInv`: a board in memory is dated by the visit that asked for it, and the NHL gave it no
earlier, so one that still lives was given less than its time to live ago; `VisitsInv` says the
same of every visit that was shown one, and that an answer on its way came after its visit began.
`CopiesInv`: no download, in memory or whole on disk, was fetched later than now, so one that is
fetched now is no older than the one it replaces. `JobsInv`: a season is marked just when it has a refresh, on which
`OneRefresh` and the refresh that `StaleIsRefreshed` promises rest.

**Sums and recursive functions** (`BasicFacts`). The library states induction with an operator as
parameter, which no prover here can instantiate. So induction is done with sets: a set of numbers
that is not empty has a least one (`LeastNumber`, from the well-foundedness of `<`), hence a set
closed under successor has all numbers (`AllNumbers`), hence one closed under adding an element has
every finite set (`BuiltUp`). With that the sums of the community modules are shown to be sums:
they exist (`SumsExist`), an element can be taken out or put in whichever it is (`SumWithout`,
`SumWith`), and sums over two disjoint sets, or over a set's images, are what they should be
(`SumOfBoth`, `SumOfImages`).

**Cap engine**, for any roster, obligations and rules (`InputsAssumption`, `RulesAssumption`:
finitely many rows and obligations in whole dollars). `RetentionIsConserved`: rounding half up of
`n*p/100` and `n*(100-p)/100` never loses a dollar and gains at most one, by integer division
lemmas. `ChargeToldAlways`: the line items are the disjoint lines of six categories
(`ItemsAreLines`), each of which adds up to its figure (`CategoriesAddUp`; a buried row without a
line costs nothing), so all add up to the charge; and without the players on LTIR the others cost
what they cost before (`OthersStay`), while relief is at most the hits it is for (`ReliefBounded`).
`BuryingNeverRaises`: setting a status leaves every hit as it is (`EditKeepsHits`), so a player who
is sent down takes his hit out of one sum and puts his buried charge, which is no more
(`BuriedBounded`), into another. The invariant all three need is that inputs keep their types
(`InputTyped`).

**Scenario apply**, on the embedded database (`ASSUME Exclusive`) unless said otherwise:
`RecordsStayGood`, `DeadCapIsBookedOnce`, `DepartedStayDeparted`. `DeadCapOnce` is not inductive: a
transaction in flight could book for a contract that has left. The inductive invariant `IInv` is
`ShapeInv /\ OpenInv /\ RecordsInv /\ PlanInv /\ LoadedInv`: one transaction is open at a time;
what an open transaction sees (`View`) is as good as what is committed and only goes forward from
it (`ViewGood(r) == RecordsGood(View(r)) /\ Follows(db, View(r))`); plans parse; and what a
transaction has loaded is still what it sees when it writes (`LoadedGood`), which is where
exclusivity is needed. Lemmas first show what every kind of move preserves (`ArriveGood`,
`DepartGood`, `AssignGood`, `ExtendGood`, `MoveGood`), then what every action preserves.

- `LeavesOnceAlways` adds `LeaveInv`: the movement log fits the records, in the database and in
  what an open transaction sees. With it a contract leaves at most once.
- `AppliedAllOrNothing` holds on both databases. Its invariant `LogInv` says what a transaction has
  logged so far is one entry of its own for each move it is past (`WritesInv`), and that a request
  that has been applied has one block of the log, its plan in order, and every other request has
  nothing (`Block`): commits append, so blocks stay where they are.
- `KeepsTheLedger` is the refinement of `OfficialLedger`, whose only steps are a whole scenario
  booked, one edit by hand, or nothing. `ReachedInv` says that what an open transaction sees is
  among what its moves so far may leave behind of the records it began with (`Outcome`, a
  recursive function, unfolded by induction on numbers), so its commit is one step of the ledger;
  `TypedInv` gives that its plan is a list of moves the ledger may take. Every other action maps to
  a stutter or to an edit.

**Connector runs**, for any plans, hosts, clocks and runs at a time (`FetchInvariant`). `IInv` is
`TypeOK /\ CacheInv /\ ImportsInv` and, for each run, `RunInv`: the pages it has are those of its
plan, in order, each asked for by its own organization, as old as its request allows and traced
(`NeedInv`); an answer that is still to be stored or recorded is the next page's; what it has
staged is what its plan lists up to where it stands. Cached bodies are of answers that were whole.
A page is traced by its audit row, or by a request that is about to write it or that failed before
it could (`Traced`): a failure between the two statements leaves the page to later imports without
one, so no more is true. What an import of pages says of its age is bounded by its request; what one of
a model file says is when the model was trained, and is not.
`StagedAsSaidAlways`, `TraceableAlways` and `NothingHalfAlways` follow.

**Rules**, for any keys, values and editors (`RulesInvariant`). `RulesToldAlways` needs four things
that are no property of their own: a rule's versions are `1..n` with one row each (`OneRow`,
`NoGap`); the row that a transaction has updated is updated by no other (`OneHolder`, the row lock);
past the unique index the next version is still free (`NextIsFree`), since who else would take it
waits for that lock; and the changes without an audit number no more than the requests cut short
or about to write one (`LostAreCut`, with a set of lost ones). `RulesPersist` is the action property.

**Membership**, on both databases unless said otherwise. `MembershipInv` is
`TypeOK /\ SlotInv /\ ClaimInv /\ RowInv`: each kind of request stands only at its own labels; a
claimed invite exists, is unrevoked, has a use left and is claimed by one request at a time
(the row lock); member rows have ids that were handed out, one row per id. From it:
`TypeCorrect`; `UsesAreCounted` (a claim's guard still holds when its join commits);
`RevocationHolds` (a revoke waits for the lock); `OneMembershipEach` (with the unique index);
`NobodyPromotesThemselves` with `AuthorityInv` (a role read earlier is still no league admin's);
`LastAdminStays`, assuming one admin slot and a founder who is org_admin, with `SpareInv` (what an
admin is about to write spares another); `SeatsHold` with `SeatInv` (on the embedded database the
count read by a transaction in flight is still right). Of billing, `NoOlderEvent` assumes that one
event is handled at a time (`Handlers = {one}`), since with two it is false (below): by
`HandledInv` the event that a handler has found new enough still is when it writes, as nobody else
writes meanwhile. `SeatsFollow` is `SeatsHold` and `NoOlderEvent`.

**Set-up**, for any organizations, clubs, players, requests and failures, on both databases
(`SetupInvariant`). `SetupInv` says what inserts without a transaction leave to later ones.
`TypedInv` gives the tables their rows and each request the work its stage needs. By `IdInv` an id
is given once: no row has one that a request is about to give. By `LeagueInv` every NHL league is
whole and seasons and rules are made year by year, so that a league is whole, or a request is at
work on it and has made all years before the one it has come to. `OrphanInv` counts what nobody
works on: organizations without a member and leagues that are not whole are no more than the
requests that died, which is what makes `HalfMadePerFailure` inductive. `PlaceInv`: the team an
import writes is the club's and the organization's own, has a row or an id to itself, and is none
of those that are hidden for it. `SerialInv`: on PGlite one request is in its transaction, so what
it has found of leagues and teams is still so when it commits. `SetUpWholeAlways` follows.
`SetupKeepsAll` is the action property: on PGlite a commit maps the teams of a club one to one to
those after it (`TeamIsOne`), leaves the team it writes to work with (`TeamIsLeft`), and on either
database refreshes a player's row with the status the row has then (`StatusIsKept`).

**Import pipeline**, for any files, mappings and number of requests. `IInv` types everything and
adds what a request relies on at each label (`TaskOK`): the mapping it carries maps the file, and
the rows it is about to commit are `Sifted`, that is, complete, of one name each, and whole groups
of a contract file. Rows are about a file, and files never change (`FilesStay`), so this survives
every step. From it `TypeCorrect`; `WholeContracts`; `TracedRows` and `RosterFills`, through what
an upsert leaves under a key (`UpsertCommitted`); and `ErrorsMatch`, on the embedded database, with
`ReportInv` (what a validation has cleared is all that is stored). `NamesOnce` and `ActiveOnce`
need one thing more: that the rows are still `Fresh` when they are written. `FreshInv` says so;
edits by hand preserve it and a second commit does not, so these two theorems assume `OneClerk`.

**Draft board**, for any prospects, scores, users and values, and however requests fail.
`HistoryHasItsSnapshot` and `OneEditIsLogged` are about any number of editors, whose statements
fall between each other's. The invariant `VersionInv` says what commits rely on without a
transaction: past the unique index an edit has its version to itself (`OwnVersion`), nothing is
logged under it yet and no other edit past the index has it, so that its events are logged
together and under its own snapshot. An edit carries the moves of one reorder, or the fields of one
form of one entry, or one change (`OneEdit`).

The others assume one editor (`Editors = {e}`), since with two they are false (below), while any
number of scouts submit rankings. The invariant is `EditInv(e)`, one conjunct for each: halfway
through an edit the board is not in order, so `OrderInv` says that the updates left will give each
entry its rank (`Ranking`) and then its position (`Positioning`) along one enumeration of the
entries; `ShowInv` that the snapshot carried shows the columns it keeps of the entries; `ExplainInv`
that an event of the director's rank or of a form's field tells what the entry holds or an update left
will store; `LockInv` that an edit of what the board ranks stands on an
active board; `DeriveInv` that the updates of an added prospect will give the scores'
ranks (`Deriving`), of the scores there were at the start, which do not change in the model: the code
derives ranks anew only when a prospect is added (`refreshBoardDerived`), so that after a new score
they are those of the last addition; `FreeInv` that the version carried is the one after the board's. What reads
the order must get the one that ranks give: if ranks number the entries, sorting by rank has one
result (`OneOrder`, by the least place where it would go wrong). `ReordersHeal` and `NextIsFree` hold
after any number of failures; the others are about edits that went through (`failures = 0`).
`ConsensusIsOfRankings` assumes one scout at a time, and any editors (`ConsensusInv`).

**Scouts' desk**, for any users, organizations, prospects and requests. Every request looks its
prospect up in the organization that it was let into and writes later, so `DeskInv` carries what was
found along: a request about a prospect has his organization (`WorkInv`), a list has an id of its
own and keeps its organization (`ListInv`), and so do the rows that refer to either (`OwnRowsInv`).
`KindsAssumption` says that the requests are those that the desk knows. `DeskKeepsToItsOwn` and
`ScoresAreKeptOnce` hold whatever crosses. `VisitsRefresh` assumes one request at a time, since a
visit that read an older line may store its scores last (below); `VisitInv` says that the scores of
the roles a visit is done with are of the line it read.

**Fit runs**, for any prospects, requests and forms of a need. `FitInv` types the tables and says what
a run has left behind at each label: whom it has scored has a score, its depth is stored before its
links are, and a score without a breakdown is one whose breakdown a run is just replacing
(`ExplainedInv`). `NullAssumption` says that no row is null. `RunsAreWhole` follows, whatever
crosses. `RunsAlonePure` assumes one request at a time, finitely many requests and prospects; with
two runs at once it is false (below). `AloneInv` counts: the scores whose breakdown is not their own,
leaving out the one being replaced, are no more than the requests cut short.

**Links to reports**, for any users, teams, edits and requests. `SharedInv` says of each request
where its reads stand: it was asked for no later than it read, read the records in order, and none is
newer than the records are. A stored section is of its request's reads, which do not change once they
are made. `ReportsStayFrozen` follows, and that a revoked link stays revoked.

These six theorems state what `OneOrganization`, `ScoresWhole` and `LastWriterTold` check, but for
the types and what a link shows; as the runs' formulas choose between the parts of `MCOffice`, no
theorem has their names.

Where a run's property has two halves, a theorem of its name has both: `JoinsAreCounted` is
`UsesAreCounted` and `OneMembershipEach`, `SoundContracts` is `WholeContracts` and `ActiveOnce`
(so `OneClerk` is assumed), `RowsAreTraced` is `TracedRows` and `ErrorsMatch`. Of the draft board
`RanksAreTold` is `EditsKeepOrder` and `ScoresAreRanked`, `HistoryIsTold` is `SnapshotsShow`,
`HistoryTells` and `LocksHold`, `FailuresAreHealed` is `ReordersHeal` and `NextIsFree` (all of one
editor), and `VersionsAreTold` is `HistoryHasItsSnapshot` and `OneEditIsLogged` (of any number).

**What stays with TLC.** Liveness (`EachRequestEnds`, `EachSettles`) and ENABLED. `PreviewTold`,
which compares two whole evaluations of a list of moves. The engines of scouting, CSV, links and
valuation (`ScoresTold`, `TextsTold`): RECURSIVE operators or folds over sorted data. Of the draft
board the types (a deviation is a CHOOSE whose existence needs square roots) and the numbers of a
consensus. The free-agent board and the connectors' tables are model-checked only. So are what a link shows
(`FrozenAndOwn`: sections sorted by a CHOOSE over all orders) and the counts of `SharingAudited`.
On Postgres `LeavesOnce` is false (below); `NoResurrection` and `AllOrNothing` are checked there.

## Where code and documents disagree

Shown by a run:

- `preview_later`: the apply page promises a charge for every season
  (`src/src/app/(app)/scenarios/[id]/apply/page.tsx:87,94`); an assignment is previewed in one
  season (`projector.ts:158-168`) and applied to the player's one roster status, which counts in
  all of them.
- `apply_twice`: `applyService.ts:401` refuses a scenario that "has already been applied", but
  reads the status outside the transaction; two confirmations apply it twice.
- `applied_edited`: `README.md:79` and `docs/ARCHITECTURE.md:76` call an applied scenario
  read-only; only adding a move looks at the status.
- `last_admin`: "An organization always keeps at least one org_admin" (`inviteService.ts:7`); the
  count and the write are separate statements, and two admins at once leave none.
- `finished_season`: "A finished season is fetched once" (`situationsService.ts:5`); a copy fetched
  while the season was played is never fetched again once it is over.

Met while modelling, each following from an action of the models, without a run of its own:

- The gate's projection is computed before the apply and not again in it: an edit between `Gate`
  and `Begin` lets a scenario through over a limit.
- In a league that keeps past seasons (no run has one, the base season being the first) the projector previews an assignment in the first season
  the contract has, not in the season the scenario is about, and a departure books dead cap for
  seasons already played; `docs/CALCULATIONS.md:53,62` say "remaining".
- The cash previewed for an acquisition or an extension leaves out the signing bonus that the
  applied contract pays (`ProjectedCash` against `OfficialRow`).
- Two requests can both pass `createContract`'s guard against a second active contract
  (`CreateRead`, then `CreateWrite`).
- On Postgres two applies both load a contract as active before either commits, and dead cap is
  booked for it twice (`LeavesOnce` is checked and proved for the embedded database).
- On Postgres two people can accept into the last seat together: both count before either joins
  (`SeatsFollowBilling` is about the embedded database).
- Two billing events handled at a time can leave the older one stored: the upsert looks at
  nothing. Events of one second replace each other in either order. A late event of an
  organization's former subscription replaces the state of its present one, since the row keeps
  the organization and not the subscription it heard from.
- An import that was committed or rejected can come back: `validateImport` reads the status, and
  its transaction sets `awaiting_approval` whatever has happened since (`ValidateRead`, then
  `CommitWrite` or `RejectWrite`, then `StoreErrors`); `importService.ts:611` says "while not yet
  committed/rejected". Approved again, its rows are validated again, so that names do not repeat;
  game logs do, since nothing compares them with the rows there.
- A rejection that read the status before a commit wrote it leaves the import `rejected` with its
  rows committed; `importService.ts:9` says "nothing committed". A mapping stored while a commit
  is under way is shown beside rows committed under the former one.
- Two approvals at a time, of one import or of two that share a name, both validate before either
  writes, and players and active contracts appear twice: `ImportedOnce` and `ContractsSound`
  are about one approval at a time.
- On Postgres two validations of one import at a time leave both sets of errors, since neither
  delete sees the other's inserts; `importService.ts:611` says "re-mapping replaces prior errors".
- A dataset fetched earlier and approved later overwrites a newer one.
- An invite admits with the role it was made with although who made it has been lowered or removed
  since (`inviteService.ts:164`); `RevokedAdmitsNobody` is about invites that were revoked.
- On an invite-only deployment two strangers can both be "the very first account"
  (`inviteService.ts:270-273`): `Admit` counts before either `Register`s.

Of boards, rules and set-up:

- Two editors of a draft board at once read one version; the second insert of `version + 1` fails
  after its entries are written, and the snapshot of the first may show them. The part `editing` has
  one editor; what two still promise is checked in `crossing` and proved.
- A lock read before a board is locked lets that edit go on (`Begin`, then `SetStatus`).
- A snapshot of the "ordered entry rows" (`schema.ts:1391`) leaves out notes, floor, ceiling and
  expected range (`boardService.ts:95-108`), of which only the history tells.
- A scout's and an editor's requests at once can leave the entry with an older consensus
  (`Derive`), although the consensus table has the newer one.
- On Postgres two administrators who each import the first club make two NHL leagues
  (`EnsureNhlLeague`); there `OneNhlLeague` is not claimed. A second import finds a team by its
  abbreviation under whatever league it was made by hand, and rules of that league apply to it. A
  club's players who left it stay on the official roster of the team.

Of fit, scouting and reports:

- Two runs of one need that cross leave two breakdowns of a score, or links of both; a run that dies
  says `running` for good. Grades given on the scales 1-10 and 1-5 reach the engine as they are
  (`FitInput`), next to floors that mean 20-80. A weight that is switched off counts with its
  default (`ComponentWeights`). The trend "role expansion" is found of a player with fewer games.
- Two visits of one page at once: the visit that read the older statistics line may store its scores
  last (`StoreScore`), since the upsert compares nothing.
- "Missing data NEVER produces a low score" (`fit.ts:10`): a missing component that was above the
  overall lowers it, as any weighted mean of the rest does; `ConfidenceDrops` states what holds.
- An assignment's scout is a member of the organization when he is looked up
  (`scoutingActions.ts:325-334`, `FindScout`), and may have left it when the row is stored: no property
  is about him.
- Two revocations of one link both audit `hadShareToken: true` (`reportService.ts:193`), though the
  second found none. The shared snapshot is read in several statements before its transaction,
  so it can mix two moments and show what the sharer did not see; `reportService.ts:6` says "without
  exposing anything beyond what the sharer saw".
- Comparables are read without an order, so a tie at the fifth place leaves the estimate to the
  database. The confidence that `docs/MODELS.md:34` caps at 0.85 is never above 0.80.

Of sources and files:

- A roster of all clubs with one player on two of them passes the check of keys in its file, but
  both rows of `ext_players` meet one conflict target, so the import can never be committed
  (`connectorCommit.ts:109-117`, `connectorDefinitions.ts:149`). Optional fields of columns that may
  not be NULL (`game_date`, `p_nhl_regular`, `baseline_p`, `multiplier`, `log_factor`) pass
  validation blank and then cannot be committed.
- `connectorCommit.ts:7` says "Blank values become NULL — never 0"; `pairs ?? 0` of the RosterIQ
  equivalencies and `power_play_goals ?? 0` of HockeyTech (`hockeytech.ts:193-199`) are 0. HockeyTech says one
  line per player and team, and its row key drops a traded player's second. A team of RosterIQ whose
  code is unknown is keyed by its name.
- The cache row and the audit row of a fetch are two statements (`connectorService.ts:196-219`), and a request that dies or whose insert fails
  between them leaves a page that later imports are made of without an audit row (`Die`).
- "A save % of exactly 0 with no shotsAgainst is a placeholder" (`nhl.ts:183`); the code takes it for
  one only where `shotsAgainst` is left out. Where it is null, empty or unreadable the 0 is kept
  (`IsPlaceholder`).
- The timer of a fetch is stopped when its headers arrive, so it does not bound the body. A body
  without its data array is cached before it is parsed, and a finished season's file is then poisoned
  for as long as the cache keeps it.
- A scoreboard of games not yet begun is kept as long as one of games that are over, though
  "longer when the board cannot change" is about the latter.
- `draftLink.ts:205` speaks of "a same-surname candidate"; the query by full name accepts any close
  name with that birth date. Candidates already seen use up the checks of later queries.
- In a CSV of one column blank rows are dropped, and of two headers of one name the last one counts.
  A lone `$` validates as 0 (`definitions.ts:59-62`).

## Abstractions

- One team, one league, one organization, but where two are what a property is about. Ids are model values; names are compared, never built.
- Percentages are whole and money is in whole dollars, so that rounding is exact; a base salary
  is the hit, as when a payload leaves it out. Contract totals, AAV, dates, labels, notes and
  audit rows other than joins are left out, and so are figures no property tells apart.
- A move's statements are one `Write`: they are within a transaction, and on Postgres the lock of
  the first updated row is what others wait for. The reads of one function that follow each other
  with nothing written in between are one step: the gate's, `addScenarioTransaction`'s status and
  order, `loadTeamContract`'s, `acceptInvite`'s, the member and the count of admins, the lookup
  and the address check of a registration. Splitting a read from another only makes staler the
  values whose staleness the model already has.
- A season appears once in a payload. A stored payload that does not parse is a move `Parsed`
  refuses. Initial records of `MCEngines` have no active contract of a player who is not on
  the roster.
- PGlite excludes every other statement from a transaction; Postgres is at READ COMMITTED, its
  default. Both are outside `src/` and modelled from how `db/client.ts` uses them.
- In `ImportRows` two connector datasets stand for all: one that is overwritten and one, a roster,
  that is filled; `ConnectorTables` has each of the twenty. The
  letter case of schools and conferences, the team and status that an imported contract sets on
  its player, and the seasons and figures of statistics are left out. A fetch that fails or is
  refused stores nothing and is no step.
- Billing switched off is `FreeSeats` beyond the number of users. Expiry of an invite is an event
  that may come at any time after it was made.
- `FitScore`, `ScoutingStats`, `Valuation` and `Consensus` compute with exact fractions and round
  where the code rounds with `toFixed` or `Math.round`; the program's floating point may differ in
  the last digit shown. `WindowNeeds` takes only windows whose earliest season is not after the latest,
  as the need's form does.
- In `ConnectorTables` a cell stands for columns that a dataset carries together and that nothing
  tells apart. Fetch, validation and approval are one step there; what comes between is the
  subject of `ConnectorFetch` and `ImportPipeline`.
- The texts of `CsvFiles` and `DraftLink` are sequences over the characters that the code treats
  differently, and a letter or two.
- A report's section is the version of the records it was read from; a score in `FitRuns` and
  `Scouting` is whose computation it is, its number being `FitScore`'s or `ScoutingStats`'s.

## Plan

Done: the cap engine; moves, projector, applies and edits; membership and billing; rules and set-up;
the limiter, fetches, parsers, tables and imports; CSV; both boards and the consensus; fit, runs,
scouting and its statistics; links to reports; valuation; the draft link; scores and situations.
Proved: the cap engine, the apply service and its refinement, membership and billing, the limiter,
imports, fetches, rules, set-up, draft boards, the desk, fit runs, links to reports, scores and
situations. What would come next, in order:

1. Theorems about the free-agent board, with one editor at a time, as for the draft board.
2. For `ScenarioApply` on Postgres, `NoResurrection` with locks instead of exclusivity.
3. Creating and duplicating scenarios, with the order of moves that share a sort order and a
   creation time (`scenarioActions.ts:263`).

## Not modelled

- Creating and duplicating a scenario: inserts of new rows, in one transaction; see the plan.
- Exports: they read what the other parts keep; the text they write is `CsvFiles`'s.
- Session, password and context: a signed cookie and reads; the read of a member's role is
  `Membership`'s `Authorize`. Profile, preferences, player records: single-row writes of one's own
  record and an audit row. The prospect list: reads.
- Checkout: requests to Stripe that keep nothing here.
- The layout of each source's pages below the cells of `SourceParsers`, and the reads of the
  reference pages.
- `persistValuation`, which nothing calls.
- Pages and components: renderings of what the other parts keep.
- Analytics: offline training in Python. Migrations and seeds: run once, by hand.
