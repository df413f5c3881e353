# Unleash 4.15.4 in TLA+

Unleash is a feature toggle server: an Express application over PostgreSQL
(`src/src/lib`), with an admin user interface (`src/frontend`) and a
documentation site (`src/website`).  This directory holds a TLA+ model of the
server's own logic, the TLC runs that check it, and proofs about it.

Paths below are relative to `src/src/lib` unless they begin with another
directory of the repository.

## 1. How the server executes

* One Node process (or several on one database) serves requests.  A handler is
  an `async` function: between two `await`s nothing else of the process runs,
  at an `await` any other handler may run.
* Almost no handler opens a database transaction.  Each awaited SQL statement is
  atomic; another request, of the same or of another server, may run between
  two statements; an exception undoes nothing of what came before.
* Between requests, state lives in PostgreSQL.  The exceptions are the caches
  and buffers that the components below name: they are lost at a restart and
  are not shared between servers.
* Services talk to each other by direct calls, by events (the event store
  inserts rows and then emits them on `process.nextTick`) and by the shared
  tables.

So the models take one SQL statement, or one stretch of code between two
`await`s, as one action.

## 2. Inventory

Every component is listed in `PROJECT.json` under `components`, with its
sources and its status.  What each keeps, does and must get right:

| component | state | operations | hard behaviour | what makes it correct |
|---|---|---|---|---|
| Feature environments and strategies (`services/feature-toggle-service.ts`, `db/feature-environment-store.ts`, `db/feature-strategy-store.ts`) | tables `feature_strategies`, `feature_environments` | create, update, delete, list strategies; enable, disable; connect and disconnect environments; clone | check and write in separate statements; a handler that stops half-way; a URL that names another environment | an enabled environment has a strategy; a strategy records its feature's project; rows only for features that exist |
| Feature rows (`db/feature-toggle-store.ts`) | table `features` | create, archive, revive, delete, stale, metadata, variants, tags | whole rows are written back as read; swallowed insert errors; a delete that deletes nothing | no lost archive, revive or move; a name is never used twice |
| Environments (`services/environment-service.ts`) | tables `environments`, `project_environments` | toggle, sort, add to and remove from a project, start-up override | two-statement removals, count read before the removal | a project always has an environment; features live in their project's environments |
| Projects (`services/project-service.ts`) | table `projects`, `project_environments`, `role_user`, `group_role` | create, update, delete, move a feature, members and groups | owner check before the removal; project deletion with archived toggles | a project always has an owner |
| Access control and groups (`services/access-service.ts`, `services/group-service.ts`) | `roles`, `role_permission`, `role_user`, `group_role`, `group_user` | create, update, delete a role; set a root role; update a group | role in use is checked before the delete; root role is removed and then added | a user has exactly one root role; a role in use stays |
| API tokens (`services/api-token-service.ts`) | table `api_tokens`, the list `activeTokens` in memory | create, delete, update expiry, look up by secret, reload each minute | reloads overlap creations | a created token can be used; a deleted or expired one stops being usable |
| Frontend proxy (`services/proxy-service.ts`, `proxy/proxy-repository.ts`) | map of clients per token, a feature list per client | first request creates a client; events reload it; a deleted token drops it | creation awaits between the check and the store; reloads finish out of order; the subscription comes after the load | one client per token; a client eventually sees the last change |
| Settings (`services/setting-service.ts`) | table `settings`, a cache | get, insert, delete, delete all | reads fill the cache while writes clear it | a read after a write sees it |
| Client metrics (`services/client-metrics`) | arrays of unsaved metrics and `seenClients`, tables `client_metrics_env`, `client_applications`, `client_instances` | register metrics, register a client, flush, announce | the buffer is taken and then awaited; a failed flush is dropped; shutdown does not flush; upserts of several servers lock the same rows | a count is stored at most once, and as often as it was sent if nothing fails |
| Event log and add-ons (`db/event-store.ts`, `services/addon-service.ts`) | table `events`, the emitter, add-on configurations (memoised for a minute) | store, store a batch, deliver | events are stored after the change they report and emitted after the insert; errors swallowed; stale configurations | what is emitted was stored; a disabled add-on stops receiving |
| Users, sessions, reset tokens (`services/user-service.ts`, `services/reset-token-service.ts`) | `users`, `unleash_session`, `reset_tokens`, `role_user` | create, delete, log in (password, SSO, demo), change and reset a password | a token is validated and used in two statements | a reset token changes a password once; a reset ends the sessions |
| Segments (`services/segment-service.ts`) | `segments`, `feature_strategy_segment` | create, update, delete, attach to a strategy | limits and names are checked before the insert | limit of segments per strategy; unique names |
| State import and export (`services/state-service.ts`) | all tables | export, import with keep and drop | long unprotected sequences of statements | an import of an export changes nothing |
| Feature evaluation (`util/feature-evaluator`) | none | evaluate strategies, constraints, segments, variants | normalised hashes, weights, boundaries | the same context gets the same variant; weights partition the hash space |
| Variants (`FeatureToggleService.fixVariantWeights`) | `features.variants` | distribute weights | rounding | weights add up to 1000 |
| Server life cycle (`server-impl.ts`) | timers, the HTTP server | start, stop | intervals are cancelled before their buffers are written | nothing buffered is lost at a clean shutdown |

The other components (tag, type, strategy and context catalogues, HTTP routes
and OpenAPI, feedback, splash, version, mail and health records, the user
interface, the documentation site) keep single-table records without
interaction, or no state; section 15 says what is left out and why.

`PROJECT.json` lists the hazards at their lines; the properties of the models
are chosen for them.

## 3. Modules and runs

| module | what it models | checked in | proved in |
|---|---|---|---|
| `FeatureEnvironments` | where a toggle lives, its strategies, where it is enabled (4) | `MCFeatureEnvironments`: `serial`, `rows`, `races`, `foreign_env` | `FeatureEnvironmentsProofs` |
| `ClientMetrics`, abstract `MetricsLedger` | buffers of usage counts (5) | `MCClientMetrics`: `metrics_faults`, `metrics_two_hours` | `ClientMetricsProofs` |
| `ProxyClients` | clients of the frontend API and their reloads (6) | `Caches`, `MCCaches`: `caches`; `Services`, `MCServices`: `services` | `CachesProofs` |
| `ProjectAccess` | members, groups, roles and owners of a project (7) | `MCProjectAccess`: `access_serial`, `access_interleaved`, `access_owner_group` | `ProjectAccessProofs` |
| `ApiTokens`, `SettingsCache`, `AddonDelivery`, `Applications` | what servers keep in memory (8) | `Caches`, `MCCaches`: `caches` | `CachesProofs` (14), but for `ApiTokens` |
| `Accounts`, `GroupMembers` | users, reset links, sessions, groups (9, 10) | `Services`, `MCServices`: `services` | `ServicesProofs` (14) |
| `FeatureRow`, `Segments` | lost updates and checks before writes (11) | `Services`, `MCServices`: `services` | `FeatureRowProofs`, `SegmentsProofs`, `ServicesProofs` (14) |
| `Variants` | weights, selection and order of variants (12) | `Services`, `MCServices`: `services`; itself: `sticky_variant` | `VariantsProofs`, `ServicesProofs` (14) |
| `EnvironmentOverride`, `StateImport` | start of servers, imports (13) | `Services`, `MCServices`: `services` | `ServicesProofs` (14) |

`Caches` and `Services` put modules that share no variable next to each other:
`focus` chooses one of them in the initial state, its part takes all steps, and
the other parts stay in an initial state.  A behaviour of such a run is
thus a behaviour of one module, with every invariant and temporal property of the others true
of their initial states, and the run checks each module as a run of its own
would.  `MCCaches` and `MCServices` give
the constants their values, and let what is not in focus begin in one state only.  They are
grouped by the question they answer: `Caches` asks whether what a server remembers, or has yet to hand on, becomes
right in the end, and states the fairness for that; `Services` asks what
overlapping requests can break, and needs none.

## 4. `FeatureEnvironments`

### State

| variable | table |
|---|---|
| `project` | `features.project`, `None` where there is no row |
| `archived` | `features.archived_at is not null` |
| `projectEnvs` | `project_environments` |
| `featureEnvs`, `enabled` | `feature_environments` and its column `enabled` |
| `strategies` | `feature_strategies`: id, feature, environment, project |
| `issued` | uuids drawn by `createStrategy` |
| `req` | for each request in progress, its operation, its next statement and the local variables its handler keeps |

### Actions

`Call(r)` is the beginning of a handler up to its first awaited check and what
it reads there; `Continue(r)` is one further SQL statement; `Fail(r)` stops a
request between statements (a statement fails, or the server dies).
The operations are `createStrategy`, `deleteStrategy`, `updateEnabled`, `toggle`,
`createFeatureToggle`, `archiveToggle`, `reviveToggle`, `deleteFeature`, `updateStale`,
`updateFeatureToggle` (PUT and PATCH), the deprecated `PUT
/api/admin/features/:name` (`legacyUpdate`), `changeProject`,
`addEnvironmentToProject` and `removeEnvironmentFromProject`.  `Ops` selects those that
clients call in a run.  Three things follow the code where it surprises:

* `createStrategy` relies on foreign keys, and those refer to features and
  environments only, not to the project's environments.
* `deleteStrategy` does not compare the strategy's environment with the URL's.
* `disconnectFeatures` deletes the rows of `feature_environments`, while its query on
  `feature_strategies` only selects: the strategies stay.

Abstracted: strategy parameters, constraints, sort order and segments (no
property here depends on them); events (stored after the change, read by none
of these handlers); permissions.

### Runs

| run | instance | shows |
|---|---|---|
| `serial` | 1 request at a time, 1 feature, 2 projects, 2 environments, 2 strategy ids, fair | what the handlers maintain when nothing interleaves: an enabled environment has strategies, a feature lives in its project's environments, strategies follow a moved feature, a project keeps an environment; and an emptied enabled environment is eventually disabled or refilled |
| `rows` | 2 requests that create, delete, move and connect, and may fail | foreign keys and types under interleaving, against late inserts for a deleted feature |
| `races` | 3 requests, 2 ids, foreign URLs, the legacy update | the three ways, and no other, in which an enabled environment loses its guard; breaking off is the fourth, which the proof covers |
| `foreign_env` | 1 request | `EnabledHasStrategies` fails (finding) |

Bounds: `Requests` (two suffice for each race of a check with a write, three let
two deletions race with a third request), `StrategyIds` (two, so that "the last
strategy" differs from "a strategy"), two projects and two environments (one to
move from or remove, one to keep).  One feature is enough: no handler decides
anything about one feature by the rows of another.  `races` stops when the ids are used up and
nothing is left to call, hence `CHECK_DEADLOCK FALSE` there; the runs with the
whole API do not stop.  Symmetry is used in safety runs only, on sets without
a distinguished element (`DefaultEnv` makes environments unsymmetric).

### Fairness

`FairSpec` assumes weak fairness of `Continue(r)`: a handler whose statement can run
is resumed by Node and PostgreSQL eventually.  Nobody is obliged to send a
request.  `serial` has no failures: with them `EmptiedIsDisabled` is false, as
`GuardLostOnlyByRaces` says.

### Findings

`deleteStrategy` looks for remaining strategies in the environment of the URL,
whichever environment the strategy is in (`foreign_env`).

The same model shows further disagreements with other constants.  They have no
run of their own, since the passing properties name them or their
preconditions exclude them:

* `updateEnabled` checks for strategies and enables in separate statements; the legacy update
  deletes the strategies before the step that refuses to enable.  Both are disjuncts of
  `GuardLostOnlyByRaces`.
* the last environment of a project is protected by a count that a concurrent
  removal outdates: `ProjectKeepsEnvironment` fails with two requests.
* the message for a failed foreign key in `createStrategy` (`feature-toggle-service.ts:339`)
  speaks of a key that does not exist: a strategy can be added in an environment that the
  project does not have.
* a strategy created while its feature moves keeps the old project:
  `StrategyInFeatureProject` fails with two requests.

### Proofs (`FeatureEnvironmentsProofs`)

Assumptions: `ConstantsAssumption` only (the default environment is one of
the environments, `None` is none of the values, finitely many environments).  All
theorems hold for any number of features, projects, environments, ids and requests.

* `TypeCorrect`: `Spec => []TypeOK`.  `TypeOK` is inductive because `Request` says which
  fields a request holds at each of its statements: without that part the
  delayed inserts could not be shown to be of type, nor of features that exist.
* `IdsAreFresh`: `Spec => []FreshIds`.  A uuid is the key of one row, and a request
  that has yet to insert one is alone in having it.  This is what makes
  the deletion by id delete one strategy.
* `GuardCorrect`: `Spec => GuardLostOnlyByRaces`.  With `TypeOK` and `FreshIds`, a case for
  each statement: only those that remove strategies, set `enabled`, or end a
  `deleteStrategy` can matter; `DeleteStrategyRow` leaves its own request pending, and
  `CountStrategies` and `DisableEnvironment` end only when the environment is no longer
  uncovered.
* `EnabledHasStrategiesWhenCalm`: `Calm => (Spec => []EnabledHasStrategies)`.  `Calm` excludes
  what breaks the property: the legacy update, foreign URLs, failures,
  and deletions concurrent with anything.  The inductive invariant `CalmInv` adds
  that a request about to enable still has the strategy it saw, and that an
  uncovered enabled environment is one which a request is about to disable.

* `LastEnvironmentKept`: `Spec /\ []OneRemoval => []ProjectKeepsEnvironment`.  `OneRemoval`
  excludes one thing: two requests that remove environments from one project at the same time.
  Everything else may interleave, fail, move and delete.  `Leaves` says that a removal which
  has counted still has another environment before it: additions only help, and removals from
  other projects do not matter.
* `StrategyFollowsFeature`: without failures, `Spec /\ []OneMove => []StrategyInFeatureProject`.
  `OneMove` says that nothing else works on a feature while it is moved or deleted. `Home`: what
  a request has read of the feature's project is still so when it writes it; `AtHome`: a strategy
  elsewhere is one that a move is about to fetch.
* `FeatureLinksCorrect`: without failures, `Spec /\ []OneMove /\ []OneLinker =>
  []FeatureInProjectEnvs`.  `OneLinker`: of the requests that write links of projects or features
  (`Linkers`), or move features, one at a time.  The invariant `LinkInv` is stronger
  than the property: a feature has exactly the environments of its project, but for the request that
  is about to bring them in line (`InHand`), and `Links` says how far each of those requests has come.
  The weaker statement is not inductive: an environment is removed from the features first, and then from
  the project, and only the equality says that both lists were of the same features.

The hypotheses are conditions on states, that hold of every behaviour of the run `serial`; they are weaker
than its one request at a time, since other operations may interleave.  Each is needed: the
findings above say what happens without.

### Only model-checked

The liveness property `EmptiedIsDisabled`: the prover handles neither fairness nor `ENABLED`.

## 5. `ClientMetrics` and `MetricsLedger`

| variable | code |
|---|---|
| `buffer`, `order` | `unsavedMetrics` of each server, by toggle and hour, and the order of its rows |
| `inserts` | upserts that `batchInsertMetrics` has sent, with the rows each has locked |
| `counted` | `client_metrics_env`, as how often each reported count was added |
| `taken`, `dropped` | what the servers accepted, and what a failed statement or a stop threw away, for the properties only |

A count is the set of the reports it adds up, so that "twice" and "never" can be
told apart.  `Register` is `registerClientMetrics` with `collapseHourlyMetrics`;
`BulkAdd` is the interval's call, up to the `await`; `LockRow` and `Commit` are
PostgreSQL executing the upsert, row by row in the order of the sort; `Abort`
ends a statement of a circle of waits (PostgreSQL's choice) or one that fails;
`Stop` is `stopUnleash` or a crash. The toggle of the model is the triple of
feature, application and environment that the sort compares; the hour is the
rest of the key, which it does not. Left out: `setLastSeen`, the filter of empty
counts, `clearMetrics` (48 hours).

| run | instance | shows |
|---|---|---|
| `metrics_faults` | 2 servers, one of which buffers, 3 reports, 2 toggles, 1 hour, failures and stops, fair | the server implements `MetricsLedger`: nothing is counted twice or invented; only what a failure or a stop threw away is missing, and that is not in the table; no circle of waits; every other count is stored in the end |
| `metrics_two_hours` | both servers buffer, 4 reports, 2 hours, no faults | a circle of two statements (finding) |

Two servers, and reports of two toggles or hours to each, are what a circle
needs: two rows in two orders.  `Batching` is the set of servers with the flag `batchMetrics`.
These runs end when all reports are sent, hence `CHECK_DEADLOCK FALSE`.  `FairSpec` is
fair to `BulkAdd` (an interval fires again and again) and to the database; a
statement may fail, and a server stop, at any time.

Refinement: `Ledger == INSTANCE MetricsLedger WITH ...` maps what was taken and counted;
buffers, statements, locks and what is dropped are hidden.  The ledger says that
each item taken is added to the table once at most, whenever it likes.

Finding: the sort "to avoid deadlocks" leaves out the hour.  Around the full
hour, buffers with two hours of one toggle can be written in opposite orders; the
aborted statement's counts are lost, since its copy of the buffer is dropped.

Proved (`ClientMetricsProofs`, from `MetricsAssumption`): `MetricsTypeCorrect`;
`LedgerCorrect`, `Spec => ImplementsLedger`; and `LossCorrect`, `Spec =>
[]NothingLost`.  The inductive invariant says that everything held was taken and
not yet counted, and that no count is in two places: two buffers, two statements,
or a buffer and a statement; with it, a count that leaves its place is either
added or recorded as dropped.  `DeadlockAvoided`: if all counts are of one hour
(`OneHour`) and the toggles are bounded (`BoundedToggles`: the sort has a greatest
one), `Spec => []NoDeadlock`.  Each statement locks rows in the order of the
sort (`LocksInOrder`), so who waits, waits for a row greater than those it has
locked; in a set of statements that wait for each other, the one with the
greatest wanted row would wait for a greater one.  With two hours the sort is no order of
the rows, and `metrics_two_hours` shows the circle.  Liveness is model-checked only.

## 6. `ProxyClients`

| variable | code |
|---|---|
| `clients` | `ProxyService.clients`, by secret |
| `repo` | the `ProxyRepository` objects: token, features, segments, subscribed |
| `loads` | calls of `loadDataForToken` in progress, with the value read and not set |
| `version`, `unsent`, `emitted` | the database's contents as a number, and the events between insert and emission |

`RequestClient` and `SetClient` are the two halves of `clientForProxyToken`
around its `await`; `ReadFeatures` to `SetSegments` the statements of a load;
`Emit` is the `process.nextTick` of the event store, which starts `onAnyEvent`
in each subscribed repository. `ForeignChange` changes the database without an
event here: through another server, or because the insert of the event failed,
which `store` swallows.  `unleash-client`, which awaits the repository's `Ready`
event, is external; a first load that fails is left out, since what
`startUnleash` then does is the library's.

| run | instance | shows |
|---|---|---|
| `services` | 1 token, 2 repositories, 2 changes, everything | only clients that have loaded and subscribed serve; four ways to fall behind, and no other |
| `caches` | changes one at a time (`Ops` is empty), fair | each change is eventually served |

Bounds: `MaxVersion` 2, so that a load can be overtaken; two repositories, so that two
first requests for a token overlap, as the code lets them.  The fairness is to
emission and to loads; requests, changes and deletions are free.

"Reload cached token data whenever something relevant has changed", says
`proxy/proxy-repository.ts:73`.  `EventuallyFresh` fails if changes overlap
loads, since the subscription comes after the first load and reloads are not
ordered, and if they come without an event; `FallsBehindOnlyByRaces` names these
ways.

Proved (`CachesProofs`, last section, from `ProxyAssumption`): `ProxyTypeCorrect`;
`ReadyCorrect`, with the invariant that a repository which is awaited or in the
map has a token; and `FallsBehindCorrect`, which looks at what each step can
take from `Covered`: a change with an event leaves it due, an emission turns it
into a load that has yet to read, and so on. Only model-checked:
`EventuallyFresh`.

## 7. `ProjectAccess`

| variable | code |
|---|---|
| `access` | the rows of `role_user` and `group_role` for one project |
| `members`, `roles` | `users` and `groups`; `roles` |
| `req` | requests between two statements, and what their handlers remember |

`addUser`, `addGroup`, `addAccess`, `removeUser`, `removeGroup`, `changeRole`
(and `changeGroupRole`), `deleteUser`, `deleteGroup` and `deleteRole` are the
operations.  `validateAtLeastOneOwner` is two statements, `CountUsers` and
`CountGroups`; a group with several roles is counted or not, since
`getProjectGroups` keeps one role of each group.  The primary keys contain the
role: a member can have several, and an update that would make two rows equal
fails (`Updates`).  What a handler reads before it decides anything is read in
one step; permissions and events are left out.

| run | instance | shows |
|---|---|---|
| `access_serial` | 3 users, 1 group, 2 custom roles, 1 request, operations that validate | a project keeps an owner; deleting a role takes it from no user; a user has one role |
| `access_interleaved` | 2 users, 1 group, 2 requests, everything | foreign keys and types; a late role change gives nothing back |
| `access_owner_group` | `removeGroup` | no owner is left (finding) |

Three users and a group are enough for "two owners" to be made of users, of a
group, or both.  When users, groups and custom roles are all deleted nothing is
left to call: `access_interleaved` says `CHECK_DEADLOCK FALSE`.

`validateAtLeastOneOwner` counts groups as owners and `changeGroupRole` calls
it, `removeGroup` does not: the finding. The model shows more with other
constants: `deleteUser` and `deleteGroup` take the last owner as well; with two
requests, two removals of the last two owners both count two, and two `addUser`
calls give one user two roles, after which its role cannot be changed;
`deleteRole` looks for users only, and deletes a role that a group has.

Proved (`ProjectAccessProofs`, from `AccessAssumption`): `AccessTypeCorrect`;
`AccessGivenCorrect`, `Spec => OnlyAddingGivesAccess`; and `OwnerKept`: if
requests come one at a time (`OneAtATime`) and the operations that do not
validate are not called (`OwnersValidated`), `Spec => KeepsOwner`.  Its
invariant, `AnotherOwnerRemains`, says that a request about to take the owner
role still has two owners before it (`addAccess` may only have added some), and
that one about to change another role finds its member with that role: with a
second one the update fails.  Both conditions are needed, as the preceding
paragraph says. `OneRoleEach`: with one request at a time and without `addAccess`,
`Spec => []OneRole`; `AddedHaveNone` says that what `addUser` found of a user is
still so at its insert. `RoleInUseKept`: with one request at a time, or without `addAccess`
and with any interleaving of the others, `Spec /\ []DeletedAlone => RoleInUseStays`, where
`DeletedAlone` says that nobody is given the role between the check of `deleteRole` and its
`DELETE`; `DeletedNotInUse` says that what the check has found is then still so.

## 8. What servers keep in memory

`MCCaches`, run `caches`.  It also has the proxy's `EventuallyFresh` (6).

* `ApiTokens`.  `activeTokens` of two servers against the table.  Fetches (each minute,
  and at the start) are not serialised: an answer may be assigned after a later one, and a token that
  was inserted meanwhile is pushed to whichever list is there. Deletion and a new
  expiry write the row only, as in the code; expiry is a step of time. Initial
  tokens are inserted when a server counts none, by two servers at once
  if they start together. `EventuallyExact`: every server ends up accepting
  exactly the tokens that stay active. There is no stronger promise in the code:
  a deleted token is accepted for up to a minute.
  Bounds: two answers under way for each server, one restart.
* `SettingsCache`.  One key of the cache of two servers, its row, two requests.  The absence
  of a row is cached as well. `StaleOnlyByRaces`: a cache becomes stale by a write on another
  server, by a get that comes between the clearing and the write, or by a get that
  read before the write; nothing repairs it, since the cache has no time limit.
* `AddonDelivery`.  Events are numbered in the order of emission; `Join` is memoizee's way to give
  all callers one promise. `InOrder`, `EventuallyDelivered` (to an add-on that
  stays enabled, unless the fetch failed, whose rejection nobody catches) and `EventuallyStops`.
  What a provider does with an event is a request to another program and is left out.
* `Applications`.  `seenClients` is keyed by application and instance, so that a
  registration for a second environment replaces the first (`Overwritten`).
  `AnnouncedOnce`: an upsert keeps the column `announced`, so that an application
  is announced once, and once more for each edit in the user interface, whose schema gives
  `announced` its default. `EventuallyRegistered`: what is neither overwritten nor fails
  arrives.

Fairness (`CachesFairness`): emission, loads, intervals and statements that have
begun go on.  Clients, administrators, failures and restarts are free. The bounds
are in `MCCaches`: two servers where they matter, three events (two that wait
for one fetch and a later one), two flushes at once.

## 9. `Accounts`

One user: its row, password, root roles, sessions and reset links, each in its own table.  A
password is the number of changes before it; a session is the password it was
opened with, so that "sessions of an older password" can be said.  `Begin` records
in `overlapped` which kinds of requests have been in progress together, and the properties
hold for what has not overlapped:

* `OneRootRole`: `setUserRootRole` removes and adds in two statements; two updates at once
  leave two roles.
* `OneActiveLink`, `UsedOnce`: a link is validated, and then marked, without a condition on
  `used_at`; two requests with one link both succeed.  No other overlap does it.
* `SessionsEnd`: a reset deletes the sessions after it has set the password. A login
  that read the old hash may save its session afterwards.

## 10. `GroupMembers`

Groups, their members, and logins by single sign-on, which leave and join groups.
`GroupNamesUnique` (no index; the check is an earlier statement) and `MembersAsAsked`: `asked` is what the last
writer wanted, and after two overlapping writers nothing is claimed. `updateGroupUsers` is
the one transaction of these handlers, and one action.

## 11. `FeatureRow` and `Segments`

`FeatureRow` has project, archived, stale and variants of one row. `updateStale`,
`patchFeature` and `changeProject` write all columns as they read them (`Written`), a
PUT writes all but variants, the others one column.  `LostOnlyByRaces`: a column differs from what was
asked for last only if a request that carries it along overlapped with one that is about it (`Writers`,
`CarriersOf`). `DeletedWhenArchived`: the deletion's own condition on `archived_at`
protects a toggle that was never archived.  A boolean stands for the variants: that
they were written, not which they are.

`Segments` has the names of segments and the segments of strategies.  A clone
adds all segments of its source at once (`Promise.all`), so its checks and inserts
come in any order. `SegmentNamesUnique` and `SegmentLimitKept` hold unless two
checks overlap. A clone cannot exceed the limit by itself, since
its source does not.

## 12. `Variants`

The pure part: `FixVariantWeights` and `SelectVariant`, for all lists of up to
three variants and a total of 5 instead of 1000. `WeightsAddUp` and
`ShareIsWeight` (each of the `Total` hashes has exactly one variant, and a variant
has as many as its weight) compare the algorithms with what they mean.  Five is enough for each
remainder of three variants, zero weights and equal shares.  Overrides and stickiness choose
the hash, and are left out.

The code sums weights in a loop or with `reduce`. Here a variant of weight `w` is `w` units
(`Units`), and a sum is how many units there are (`WeightIn`), so that sums can be reasoned about
with the theorems on finite sets.  For the same reason `filter` and the sorting by name take the variant with the
`n`-th key (`Nth`).

Proved (`VariantsProofs`), if names are finitely many numbers and the total is a natural number:
`WeightsCorrect` and `SharesCorrect`.  The invariant is `Fit`: names differ, the weights of a list that is not empty
add up, and those of variable variants differ by one at most.

* Taking variants from some places, each once, keeps their weight (`Rearranged`), since
  units move along a bijection (`WeightMoves`): this is the sorting, and the filtering. That the `n`-th
  key gives a bijection is `Ranks`.
* `n` shares of `rest` are an even part of `n` times `rest \div n` units and one unit more for the first
  `rest % n` of them (`SharesAddUp`); with the fixed ones they are the total (`SavedFit`).
* The weights so far grow by each weight from 0 to the total (`Counters`).  A hash lies between two
  of them (`SomeShare`), and is given the variant that is there, also next to variants of weight zero
  (`SelectsBetween`); so the users of a variant are an interval of the length of its weight (`FitShares`).

Finding (`sticky_variant`): the same user gets another variant although no
weight changed, when a toggle is marked as stale, patched or moved: what is
written back is sorted by name (`rowToFeature`), what `saveVariants` stores is not.

## 13. `EnvironmentOverride` and `StateImport`

`EnvironmentOverride` is `ENABLED_ENVIRONMENTS` at the start of servers, next to other starts,
stops, and requests to servers that run. `StartRemaps`: a start that nothing overlaps and that
completes leaves no project in an environment it disabled. `raced` records
overlaps. The model shows a case that no property states: if every named environment is enabled
already, `toEnable` is empty, and a project that had only the others is left with none,
although `RemoveEnvironmentFromProject` would never do that.

`StateImport` is what an import does to environments and to API tokens.  The foreign key
from tokens to environments was dropped by a migration, and an import deletes, without
waiting, the tokens of every environment that its insert did not return.
`SparesLivingTokens`: a token of an environment that exists is condemned only by an import
that dropped nothing (environments that were there are ignored by the insert, and hence
not returned), or that overlapped with another import.  The first of these is a trap: an import
without `drop` into a running server deletes the tokens of all environments
that it finds.  No document of the repository promises otherwise, so it is no finding.

## 14. Proofs about `Caches` and `Services`

The theorems named after the properties are about the specifications that the runs `caches` and `services` check
(`CachesSpec`, `ServicesSpec`), for any values of the constants. A step of the composition is a step
of one part and leaves the others as they are (`AccountsStep`, `AddonsStep` ...), so that an
invariant of the part is one of the whole.

`CachesProofs`, without assumptions, and without fairness:

* `CachesStaleOnlyByRaces`.
  The invariant `ClearedStaysEmpty` says that the cache which a write has cleared is
  empty until a get fills it, and that the write then knows (`refilled`): so a write
  through the same server makes the cache stale only if it was refilled.
* `CachesInOrder`.  At most one fetch is in progress, and only while `memo` says so; the events that wait for it are in order, and come
  after everything that any add-on was given (`Waits`).  Delivery then appends a sequence that begins after the end of
  the other (`Concatenation`).
* `CachesAnnouncedOnce`. `AppsInv`: marks do not exceed edits, but by one while the application is marked. An upsert
  keeps the column, and a deletion starts anew.

`ServicesProofs`.  Ghosts such as `overlapped`, `raced` and `asked` are set where requests begin; the invariants turn
"has not overlapped" into what a request still knows at its next statement:

* Accounts, without assumptions. `AccountHolds` says which request comes to which statement, `AccountOverlaps` that two
  requests in progress have been recorded. `ServicesOneRootRole`: between the removal and the insert there is no root role
  (`RolesInv`). `ServicesOneActiveLink`: between the two statements of `createToken` no link is active
  (`LinksInv`). `ServicesUsedOnce`: a link that is active, or that a request has just found valid, has not been used
  (`UsesInv`). `ServicesSessionsEnd`: a login that is about to save a session has read the
  current password, and a user that is about to be deleted has no session left (`SessionsInv`).
* Groups. `ServicesGroupNames`, without assumptions: a request about to write a name has found no
  group with it (`GroupNamesInv`). `ServicesMembersAsAsked`, if no group is called `Nothing`: members
  are as asked, and each request knows them as they are (`MembersKnown`) while only one writes.
* Imports. `ServicesSpareLivingTokens`, without assumptions: an import that drops and is alone finds no environment at its insert,
  and has inserted all there are when it reads the tokens (`ImportInv`).
* Starts. `ServicesStartRemaps`, if no server is called "request": servers that start at the same time have been raced
  (`OverrideInv`), and one that has not been knows, at each of its statements, what is enabled
  and which links are left (`RemapKnown`): when it unlinks, all links to what it disables are among those it has yet to unlink.
* Rows, segments and variants. `ServicesLostOnlyByRaces`, `ServicesDeletedWhenArchived`, `ServicesSegmentNames`,
  `ServicesSegmentLimit`, `ServicesWeightsAddUp` and `ServicesShareIsWeight` follow from the theorems about the modules themselves, with their assumptions; for variants see section 12:

* `FeatureRowProofs`: `RowLossCorrect` and `DeletionCorrect`, if no project is called `Nothing`.
  `RowInv` has four parts: which request holds what; two requests in progress one of which is
  about a column that the other carries along have raced for it (`OverlapsAreRaces`); a column not raced for is
  as asked in the row (`RowAsAsked`); and so it is in what every request in
  progress has read or validated (`ReadAsAsked`).  The last part is what makes the others inductive: writing back an old
  value is harmless because nobody has asked for another.
* `SegmentsProofs`: `NamesCorrect` and `LimitCorrect`, if there are finitely many ids and
  `Nothing` is none of them.  While nothing has raced, the name that a request is about to write is
  free (`NameIsFree`), and what a request will have added is within the limit, but for the one segment that it has yet to
  check (`AddsWithinLimit`).  A clone starts from an empty strategy with the segments of another one, so that all
  of them together are within the limit in whatever order they are checked and added.

## 15. Not modelled, and why

* Tag, type, strategy and context catalogues; feedback, splash, version, mail and health
  records: one table each, one statement per operation, a name check like that of
  `Segments`.  A model would repeat `Segments` without a new question.
* Strategies' parameters, constraints and sort order; activation strategies and constraint operators of
  the evaluator: comparisons of strings, numbers, dates and versions without state, which unit tests reach
  and whose operands TLA+ would not tell apart.
* The import of tables other than environments, project deletion, clones of toggles: sequences of
  the statements that are modelled for their own operations.
* HTTP routing, OpenAPI schemas, validation and permissions' middleware: parsing and formatting; what
  they let through are the inputs of the models.
* The admin user interface (`src/frontend`), the documentation site, migrations and tests.  The user
  interface is a program of its own which keeps no state that the server depends on.

Most of the repository's implementation lines are of these kinds: three quarters
are React components, OpenAPI classes and pages of the documentation.  The server's services and
stores, about 13,000 lines, hold the state that this project is about.  The
share of mapped lines over the whole repository is small for that reason and cannot become
large: what remains is mostly presentation, generated types and text.

Of the properties that the passing runs check, those of liveness are not proved (`EmptiedIsDisabled`, `EventuallyCounted`,
`EventuallyFresh`, `EventuallyExact`, `EventuallyDelivered`, `EventuallyStops`, `EventuallyRegistered`): the prover
treats neither fairness nor `ENABLED`.  All others are theorems, some of them under the conditions that
their sections state.
