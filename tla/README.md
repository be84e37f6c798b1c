# ds-sql-dps-rs in TLA+

`ds-sql-dps-rs` is a data plane for dataspaces: a control plane tells it over
HTTP (Data Plane Signaling) that a data flow STARTs or TERMINATEs, it hands out a
bearer token for the flow's dataset, and clients fetch the dataset's file from
`GET /public/{dataset_id}` with that token, under an ODRL policy that is evaluated
anew for every request. This directory holds a specification of it in TLA+, the
TLC configurations that check small instances and proofs for TLAPS.

The code is small and its concurrency is real: axum runs every request as a task
of its own on tokio's worker threads, and all of them share a token store and a
configuration graph without a lock that would cover more than one access. That is
what the specification is about.

## 1. Inventory

| component | code | state | operations |
|---|---|---|---|
| token store | `dataplane/src/tokens.rs` | a map from token to (flow, dataset) behind one `RwLock` | `issue`, `lookup`, `revoke_flow` |
| configuration graph | `config-graph/src/store.rs` | an in-memory RDF store | `seed_offer` (many inserts), `file_path`, `media_type`, `policy_jsonld` (two queries) |
| file offer handler | `dataplane/src/handler.rs` | none of its own; `Arc`s to both stores | `on_start`, `on_terminate`; `on_started` does nothing, `on_prepare` and `on_suspend` refuse |
| public endpoint | `dataplane/src/public.rs` | none of its own | `get_file` |
| build and serve | `dataplane/src/lib.rs`, `main.rs` | two listeners, the base URL put in every token's address | `build`, `serve` |
| registration | `dataplane/src/registration.rs` | none | one PUT to the control plane |
| configuration | `dataplane/src/config.rs` | constant after start | `from_env`, `file_offer` |
| Contreforts connector | `contreforts-connector/src/lib.rs` | none | `pull`, `get`, `push` |
| signaling SDK | external, `dataplane-sdk` =0.1.2 | the state of each flow | calls the handler's hooks |
| ODRL engine and adapter | external | none | ingest and evaluate a policy |

How they interact:

* A START or TERMINATE message goes to the SDK, which calls `on_start` or
  `on_terminate` inside a transaction of its own repository. The handler ignores
  that transaction: what it does to the token store stays done if the SDK then
  fails. The SDK records the flow and answers after the hook.
* `on_start` asks the graph for the dataset's file path. An unknown dataset is
  refused, or, in TCK mode, seeded on the spot. Then it issues a token.
* `get_file` looks the token up, clones the record, and then asks the graph four
  times (policy header, policy rows, file path, media type) with an evaluation of
  the policy at the current time in between, and reads the file last.
* `build` seeds the graph, binds the public port, makes handler and SDK, binds the
  signaling port, registers with the control plane and only then returns what
  `serve` serves. Nothing is persisted: a restart starts from the environment.

What makes each component correct:

* token store: a revocation takes every token of its flow, and no other; a token
  belongs to one flow and one dataset for ever.
* configuration graph: what was seeded is read back, in its order; what a reader
  concludes from one quad about the others is so, although it may read between two
  inserts of a seeding.
* handler: a token it mints is for a dataset whose whole offer is in the graph or is
  being put there, so that only the policy can refuse it (as it does after the
  deadline: START does not ask the policy); a TERMINATE leaves no token of a START
  that ended before it.
* public endpoint: a file is served only to a token that was live, for its own
  dataset, before the deadline, and never to a dead one; never 404, never with the
  wrong media type.
* connector: what `get` returns was in the graph at one instant, and whole if the
  offer was; `pull` returns the one offer there is.
* build, serve and registration: addresses given away lead to this process;
  a control plane does not hear of a process that fails to start; registration
  never keeps the data plane from serving.

What is hard: calls interleave at every access to a store; an offer becomes
visible quad by quad; the SDK may repeat or overlap messages, fail after a hook or
answer late; requests outlive the token they came with; the clock moves during a
request; a control plane may answer late, never, or call back first. `PROJECT.json` lists these hazards at
their lines, each with the properties about it.

## 2. Modules

### TokenStore and OfferGraph: the shared stores

`TokenStore` has `issue`, `lookup` and `revoke_flow` as operators on a set of
entries. Each takes the `RwLock` once, so each is one step of its caller.

`OfferGraph` describes the configuration graph by the facts that its readers can
tell apart. `seed_offer` inserts between 13 and 18 quads, each insert a
transaction of its own. A reader sees a prefix of them, and two prefixes differ
for a reader only in which of five facts they hold: `filePath`, `mediaType`,
`policyHeader` (the second of the two quads of the header query), `permission`
(the last quad the required part of the rows query needs) and `constraint` (the
last quad its OPTIONAL needs). The other quads are invisible until one of these
is in. `SeedOrder` is the order in the code. Permission and constraint nodes are
blank nodes, so two seedings of a dataset leave two of each, while the first three
facts hang on IRIs and are the same triple twice.

The policy `policy_jsonld` rebuilds is the set `PermissionRows` of the permissions
it found, each with or without its constraint, and `Allows` is the engine's
closed-world answer for the one constraint `Config::file_offer` can write.

### ConfigGraph: every quad and every row

`OfferGraph` is an abstraction, and `ConfigGraph` is what it abstracts from. Its
store is a set of triples; a seeding of any `FileOffer` inserts `Quads`, one per
step, in the order of the code, and other seedings go on meanwhile or fail between
two inserts. Strings are members of the constant `Term`, an IRI is a namespace and
a term, a blank node is known by the seeding that made it. Of the literals only
those of `ds:order` are numbers.

The queries follow `policy_jsonld`: the join with its OPTIONAL (`RowsOf`: a
permission without a *complete* constraint has one row with `?corder` unbound),
ORDER BY (`SortKey`, `Orderings`; SPARQL puts unbound first and leaves the order
of equal rows open, so a query has a set of possible results), the loop that
appends a row to the last entry if that one is its permission's (`AddRow` with
`SameEntry`, `Grouped`) and the array without blank nodes (`PermissionArray`). The empty set
stands for `NotFound`.

`ConfigOffer` gives it the offer that `Config::file_offer` builds and maps the
quads to the five facts: `RefinesOfferFacts` says that each of the up to eighteen
inserts adds the next fact in `SeedOrder` or changes nothing that a reader can
tell, and that the policies agree. `OfferFacts` is the abstract side: seedings
that insert facts, with the operators of `OfferGraph`. This is why DataPlane may
work with five inserts per seeding instead of eighteen.

### Connector and AtomicConnector

`Connector` is `FileOfferConnector` over `ConfigGraph`. A `get` is four steps, one
per query (`ReadFilePath`, `ReadMediaType`, and the two of `policy_jsonld`,
`ReadHeader` and `ReadPermissions`); `pull` is a `get` of `PRIMARY_OFFER_ID`;
`push` and other kinds are refused at once. A first solution is any member of the
answer set. `AtomicConnector` promises more: a call is refused, or answered by one
look at the graph at one instant between call and return (`documents` is what a
look would yield, an input that changes as it likes). The instant is the call's
last query: facts only ever get added, so what the first queries returned is still
there.

### DataPlane: handler, public endpoint, and everything that runs at once

A call is a record with a `pc`. Its steps are exactly the accesses to shared state:

| code | action |
|---|---|
| the SDK accepts a START | `StartDispatch` |
| `on_start`: `graph.file_path` | `OnStartCheck` |
| `on_start`: `graph.seed_offer`, one insert | `OnStartSeed`, `OnStartSeedFails` |
| `on_start`: `tokens.issue`, and the answer | `OnStartIssue` |
| the SDK stores the flow and answers, or fails | `StartCommit`, `StartAbort` |
| the SDK accepts a TERMINATE | `TermDispatch` |
| `on_terminate`: `tokens.revoke_flow` | `OnTerminate` |
| the SDK stores the flow and answers, or fails | `TermCommit`, `TermAbort` |
| the SDK is notified of COMPLETED | `SdkComplete` |
| a client sends a GET | `GetSend` |
| `get_file`: `tokens.lookup` and the two early returns | `GetLookup` |
| `get_file`: `policy_jsonld`, first and second query | `GetPolicyHeader`, `GetPolicyRows` |
| `get_file`: ingest, claims, `evaluate_request` | `GetEvaluate` |
| `get_file`: `file_path`, `media_type`, `fs::read` | `GetFilePath`, `GetMediaType`, `GetReadFile` |
| the clock | `Tick` |
| the process ends and `main` runs again | `Restart` |

`Restart` starts with the graph as `build` seeds it, because no call is served
before `build` returns. `issued`, `disclosed`, `dead` and the record fields marked
*history* are auxiliary: no action of the code depends on them, except that a
UUID is drawn outside `issued` (it does not repeat), that a client only sends
tokens it was given, or a string that is no token. `ended` remembers which STARTs
of its flow were over when a TERMINATE was accepted.

What the SDK does is outside the repository, and nothing in the repository tells
whether it excludes the hooks of one flow from each other. So nothing is assumed:
it may run them at once, start a flow twice, deliver late copies, and fail after a
hook has returned. A START that is under way while its flow is terminated can
therefore leave a token behind, and no property denies it. What a TERMINATE
achieves in spite of that is said about the STARTs that are over when it comes
(`EndedStartsRevoked`); the token left behind is one of these for the next
TERMINATE of the flow.

### AccessControl: what the data plane promises

Abstractly a request is served only if there is *one instant*, after it was sent,
at which its token was live for the dataset it asks for and the deadline had not
passed; a flow's tokens go all at once; a token never comes back. `get_file` looks
at these facts at different times, with other calls in between, and so has no
obvious such instant. `RefinesAccessControl` says that there is one: the lookup.
The request that is let through was allowed by the policy *later*, and since time
only grows it was so at the lookup too. `Phase` is this mapping; it makes a
request "authorised" from its lookup on if the deadline had not passed by then.

### Startup: the process

`Startup` follows `build` step by step. Its environment: other processes that take
and free ports, a control plane of one of five kinds, and the end of the process
at any step. Of an address only the port is kept, hosts are left out. `callback` is
the port in the URL of the SDK's own control plane, which `build` takes from the
configuration before the signaling port is bound (`lib.rs`, 111-117; a configured 0
stays 0); no property reads it, because what the SDK does with that URL is not in the
repository. A PUT is a message; it may be handled after its sender is gone and
after the next run's PUT, and its answer may be lost. Two assumptions are not in
the code: a port that a process has left can be bound again at once, and
`local_addr` of a bound socket does not fail.

DataPlane, Startup and Connector run side by side: the connector is called by
`build` only, before the first request, and only reads. What the runs about it show,
with seedings going on beside a `get`, is therefore about the library, not about
the binary. DataPlane and Startup share nothing but the restart: `build` ends before
the first call, and no call changes a listener. They are therefore separate
specifications.

`MCDataPlane`, `MCStartup`, `MCConfigGraph` and `MCConnector` add the symmetry sets
and the offers for TLC.

## 3. Runs

All but `connector` and `pull_fixed_id` run with `CHECK_DEADLOCK FALSE`: the number
of START, TERMINATE and `seed_offer` calls and of process runs is bounded, and the
system may stop when all are used up.

| run | question | bounds |
|---|---|---|
| `dataplane_normal` | normal mode: refinement, deadline, revocation, whole offers | 2 flows, 2 datasets (one known), 2 STARTs, 1 TERMINATE, 1 client, clock 0..2 with the deadline at 1, 1 restart |
| `dataplane_tck` | TCK mode: what concurrent seedings leave to a reader | the same, clock 0..1 with the deadline at 0 |
| `dataplane_orphans` | does a TERMINATE take the tokens of repeated and failed STARTs too | 2 flows, 3 STARTs, 2 TERMINATEs that may overlap, fail and be retried, 1 restart |
| `dataplane_live` | do the uses of a dead token end | 1 flow, 2 STARTs, seedings that fail half-way, 1 restart |
| `startup` | addresses and registrations over two runs of the process; does registration end, are early calls answered | 3 ports, 2 runs, control planes that answer, are down or unset |
| `graph` | is what is seeded read back, what is seen meanwhile, do seedings keep out of each other's way | 2 seedings, 2 datasets; offers with up to 2 permissions of at most 1 constraint, 2 of none or 2, or 1 of up to 3, over 2 actions and 2 constraints, repetitions included |
| `offer_facts` | does the quad-level graph implement the five facts | 2 seedings, 2 datasets, Config's offer with a deadline |
| `connector` | do the connector's four queries read like one | 1 caller, 2 seedings, 2 datasets, an offer with 2 permissions |
| `tck_deadline` | *violated*: the deadline in TCK mode | 2 STARTs, 1 token |
| `registration_hangs` | *violated*: registration never blocks serving | 1 run, control planes that are silent or probe first |
| `graph_split` | *violated*: two seedings of one dataset | 1 permission with 2 constraints |
| `pull_fixed_id` | *violated*: pull finds the one offer | 1 seeding, a DATASET_ID that may differ from primary |

Why these are enough to be interesting: a race needs two STARTs of one flow or one
dataset and a TERMINATE between them, and the second flow shows that a revocation
spares others; two datasets are one that `build` seeds and one that it does not;
the clock has values before, at and after the deadline; a client has one request
at a time and may ask again and again, and requests of several clients do not
affect one another, because `get_file` writes nothing that is shared. Of ports,
three let both listeners and one other process have one each. Two runs are enough
for a late PUT. A control plane that probes first does nothing one that answers
could not do, so the safety properties need not look at it. Offers with two
permissions and with two or three constraints are the smallest with equal
neighbours, with a bare permission before or after a constrained one and with a
middle element; the sort compares two keys at a time. Callers of the connector do
not affect one another, since they only read; the proof is for any number of them.

Properties of `DataPlane`:

* `TypeOK`.
* `NeverNotFound`: `get_file`'s 404 never happens to a token that `on_start`
  minted, because a file path is never removed while such a token lives.
* `MediaTypeAsConfigured`: its `application/octet-stream` default never shows,
  although a dataset may be half seeded: the policy header that the request has
  seen by then was inserted after the media type.
* `DeadlineEnforced`: no file is served on an evaluation after the deadline. Holds
  in normal mode, where the only seeding ends before the first call.
* `PrimaryDeadlineEnforced`: the same in TCK mode, for the dataset that `build` has
  seeded: its file path keeps `on_start` from ever seeding it again.
* `TerminatedTokensStayDead`: a request sent after the acknowledgement of a
  TERMINATE, with a token that was disclosed before that TERMINATE was sent, is
  never served. It holds whatever else is going on; tokens a START discloses
  *while* the TERMINATE is under way are not covered, and may survive.
* `GrantedTokensLive`: a token that a client was given is in the store until the
  process ends or the hook of a TERMINATE of *its* flow runs: repeated and aborted
  STARTs, terminations of other flows and COMPLETED do not take it away.
* `LiveTokenHasOffer`: each live token's dataset has a whole offer in the graph or
  one that a START is still writing. A GET with the token may still be refused by
  the policy: a START after the deadline does get a token.
* `EndedStartsRevoked`: once the hook of a TERMINATE has run, no START of its flow
  that had ended when it came has a live token: not one that was answered, not the
  earlier of two, not one that failed after its hook, whose token nobody ever
  received; and not later either, whether the TERMINATE itself is acknowledged,
  fails or is retried. It is stronger than a statement about disclosed tokens and
  says nothing of STARTs that overlap the TERMINATE.
* `RefinesAccessControl`.
* `DeadTokensDrain` (liveness): requests that passed the lookup before their token
  died finish, and no later request passes it.

Properties of `Startup`: `StartupTypeOK`, `TokensPointAtListener` (addresses in
tokens), `RegistrationNamesListener` (the control plane's entry, also a stale
one), `NoPhantomRegistration` (nothing that can abort `build` follows the PUT),
and the two liveness properties `RegistrationNeverBlocksServing` and
`EarlyCallsAnswered`.

Properties of the configuration graph and the connector:

* `GraphTypeOK`.
* `SeedingsReadBack`: when the seedings of a dataset are done, `policy_jsonld`
  answers with the authored permissions and constraints in their order, once per
  seeding, and with nothing else, however equal rows are sorted. It holds for one
  seeding of anything and for several of offers with at most one constraint per
  permission, which is all that `Config::file_offer` builds (`CopiesCannotMix`,
  which `ReadsAreTruncations` and `WholeOffersAreGot` ask for too).
* `ReadsAreTruncations`: a reader between two inserts, or after a failed seeding,
  sees the permissions of each seeding cut off at one point: only the last one
  seen can lack constraints.
* `RefinesOfferFacts`, `RefinesAtomicConnector`: see above.
* `WholeOffersAreGot`: if an offer was wholly seeded when a `get` of it began, the
  Document has its path, its media type and every permission with all its
  constraints, also while other seedings of the dataset go on or fail.

Fairness. `dataplane_live` assumes that an accepted request gets on: tokio polls
its task, the queries and the file read end. Nothing is assumed of STARTs, of
TERMINATEs or of clients. `Startup!FairSpec` assumes that `build` and `serve` get
on, and that a control plane which is not silent gets on too. Nobody has to stop,
restart or free a port.

### What the four violations show

* `tck_deadline`. `on_start` takes the file path for the whole offer. In TCK mode
  a second START of a dataset being seeded passes that check, mints a token, and a
  GET may read the permission before its constraint: `policy_jsonld` leaves an
  incomplete constraint out, so the permission is unconditional and the file is
  served after `POLICY_NOT_AFTER`. The doc of `get_file` (`public.rs`, 21-25)
  promises that a time-bound constraint is enforced on every request. Normal mode
  is not concerned.
* `graph_split`, of `CopiesStayWhole`. The loop over the rows opens a new entry
  whenever the permission differs from that of the row *before*. Two seedings of one dataset leave two
  permissions with the same `ds:order`; with two constraints each, ORDER BY yields
  the first constraint of both, then the second of both, and each permission is
  split into two that demand one constraint only. The comment at `store.rs` 295-301
  takes the result for grouped by permission. Config's offer has at most one
  constraint, so the data plane as it is configured does not meet this
  (`SeedingsReadBack`); a `FileOfferHandler` built with another default offer would.
* `pull_fixed_id`, of `PullReturnsTheOffer`. `pull` asks for `primary`; the one
  offer is seeded under DATASET_ID. The doc at the connector's lines 28-31 calls the id fixed.
* `registration_hangs`. The registration's HTTP client has no timeout, and `build`
  waits for it before anything is served. A control plane that accepts the PUT and
  does not answer, or first calls the endpoint it is given, keeps both bound
  listeners unserved for ever. The docs of `registration.rs` (24-37), `config.rs`
  (36-37) and `lib.rs` (147-151) call registration optional and non-fatal.

## 4. Proofs

The theorems hold for all values of the constants that satisfy the modules'
ASSUMEs: any numbers of flows, datasets, tokens, calls, clients, callers, seedings
and ports, both modes, any SDK, any deadline and bounds, and offers of any length.
Every safety property of a passing run is one of them.

### DataPlane

* `DataPlaneProofs` is about types and tokens.
  `TypeCorrect`, Spec => []TypeOK. `TypeOK` is not inductive: a START that is
  running has a flow and a dataset, one that has issued has a token, one that seeds
  has not inserted everything yet. `CallsFilledIn` says so, and `TypeInv` is both.
  A lemma for the effect of each action with a nested update is cited by all that
  follows instead of unfolding the action.
  `RevocationFinal`, Spec => []TerminatedTokensStayDead. The inductive
  `RevocationInv` says where a dead token can still be: not in the store, not with
  a START that would disclose it, not with a request that was sent late and has
  passed its lookup. The step to watch is a `TermCommit`: what makes its tokens
  dead is that `OnTerminate` has removed them after they were disclosed, and a
  token is issued only once.
  `EndedStartsStayRevoked`, Spec => []EndedStartsRevoked, from the same invariant: an
  entry with a START's token is filed under that START's flow, whatever became of
  the START (`StoredUnderOwnFlow`), so `revoke_flow` finds it; a START that is over
  issues nothing any more, and nobody else draws its token.
  `GrantedTokensStayLive` (Spec => []GrantedTokensLive): an entry leaves the store
  by a revocation of its flow only. None of these assumes anything about how the
  SDK orders or overlaps hooks.
* `DataPlaneAccess` is about what a request is served.
  `FileIsFound` (Spec => []NeverNotFound) and `MediaTypeIsConfigured` (Spec =>
  []MediaTypeAsConfigured) follow from `OfferInv`, which is about half-written
  offers: a seeding has inserted the first `seeded` facts of its dataset, a policy
  header implies a media type and a file path, a live token implies a file path,
  and a request that is past a query has seen what it returned.
  `LiveTokensHaveOffers` (Spec => []LiveTokenHasOffer) assumes `~StoreCanFail`; with
  inserts that may fail half-way it is false, since the next START takes the
  half-written offer for a whole one.
  `PrimaryDeadlineHolds` (Spec => []PrimaryDeadlineEnforced) and, assuming
  `~TckMode`, `DeadlineHolds` (Spec => []DeadlineEnforced). The inductive
  `DeadlineInv` says that of all that is in the graph about the configured dataset
  there is `build`'s offer and nothing else, so the rows a request reads of it are
  constrained, and that a request that is past its evaluation was in time
  (`Punctual`). `OnlyPrimary` adds that in normal mode there is no other dataset.
  `DataPlaneImplementsAccessControl`, Spec => RefinesAccessControl, assuming
  `DeadlineIsSafe`: normal mode, or no deadline. It rests on all the invariants
  above: a fresh token is not in the store, so `issue` is a `Grant`; it is for a
  dataset that may be granted; and `Timely` says that a request which the policy
  has let through was looked up before the deadline, so that it has been
  "authorised" since its lookup when it is served. In TCK mode with a deadline the
  refinement is false, for the reason `tck_deadline` shows.

### The configuration graph and the connector

What sorting, flattening and grouping compute for data of any length needs
induction. The library's induction theorems take a predicate as a parameter, which
the provers cannot instantiate, so `SequenceLemmas` has first-order ones, drawn
from the well-foundedness of `<` on the naturals: a *set* that contains 0 and is
closed under successor has all naturals (`NatSetInduction`), and a function given by
a recursion exists and satisfies it. From these follow the lemmas about data that
the other modules cite: the places of the elements of a `FlattenSeq`, finite sets
that have a sorted arrangement, sorted arrangements that keep blocks together.

* `ConfigGraphProofs`. `StoreIsPrefixes`, GraphSpec => []StoreInvariant: the store
  is the union of what the seedings inserted, each a prefix of its `Quads`. This is
  all that the other theorems about the graph need of its history. `QuadPlaces`
  says which quad stands where (`PermissionPlace`, `ConstraintPlace`) in an offer of
  any length. `GraphTyped`, GraphSpec => []GraphTypeOK.
* `ConfigGraphReads`. `ReadsTruncated` (GraphSpec => []ReadsAreTruncations) and
  `SeededIsReadBack` (GraphSpec => []SeedingsReadBack), in four steps. Of each
  seeding a query sees the first permissions, of each the first constraints, and of
  all but the last permission every constraint (`SeenInOrder`). So the rows are
  known (`RowsSeen`). In any order that ORDER BY admits, the rows of one permission
  are adjacent and in the order of its constraints, unless copies mix
  (`IsReading`). Therefore the loop makes one entry of each permission seen, in the
  authored order (`IsGrouping`, by induction on the rows that the loop has taken).
  The entries of one seeding are then a truncation; when all seedings are done
  nothing is cut off, and the entries of n seedings are each permission n times.
* `ConfigOfferProofs`. `ConfigOfferIsFacts`, GraphSpec => RefinesOfferFacts, where
  the offer is the one `Config::file_offer` builds, with or without its constraint.
  The 5th, 6th, 9th, 13th and 18th quad are the last ones that some query needs
  (`FactIn`), so the number of quads a seeding has inserted tells which facts are in
  the graph (`FactsOfSeedings`) and, through `IsGrouping`, what `policy_jsonld`
  answers (`AnswersOfSeedings`). An insert adds the next fact or is a stutter.
* `ConnectorProofs`. `ConnectorIsAtomic`, Spec => RefinesAtomicConnector.
  `ReadsStayTrue` is the invariant: what a call has read is still in the graph,
  because no step removes a quad. A query that finds nothing makes the call fail at
  that instant; the last one completes a Document of this instant. `WholeOffersGot`,
  Spec => []WholeOffersAreGot, with `GotInvariant`: a dataset that was wholly seeded
  when the call began still is, so no query finds nothing (`SeededIsFound`) and the
  answer has every permission of the completed seeding (`CompletedIsInAnswer`).
  Copies that cannot mix now could not when the rows were read, as the seedings of
  a dataset only increase (`MixingStays`).

### Startup

* `StartupProofs`: all safety properties of `Startup`, for any ports, control planes
  and number of runs. `StartupInv` adds to the types where the base URL comes from
  (`PublicAddress`), that a fixed port is the one listened on (`SignalingAddress`)
  and, for every registration a control plane has or has still to handle
  (`SentInOrder`), that it is of a run no later than this one, of this run only if
  `build` can no longer fail, and that it names the listener then.

Constants are assumed to be as the modules' ASSUMEs say: `ConstantsAssumption`
(DataPlane), `StartupAssumption`, `DatasetAssumption` and `OffersAssumption`
(ConfigGraph: there is a dataset, and what is seeded is a `FileOffer`) and
`PrimaryAssumption` (Connector). The hypotheses of single theorems are named above.
`~TckMode` and `DeadlineIsSafe` are settings of the system; `~StoreCanFail`, in
`LiveTokensHaveOffers`, is an assumption about the in-memory store.

Only model-checked: the three liveness properties (`DeadTokensDrain`,
`RegistrationNeverBlocksServing`, `EarlyCallsAnswered`), since liveness under fairness
is out of the prover's reach, and of course the four violations.

## 5. Not modelled

* The SDK, the engine, the adapter, axum and the file system beyond what the code
  asks of them. Ingestion and file reads may fail at any time.
* HTTP details: a GET without a bearer header is refused by axum before `get_file`.
* `on_prepare`, `on_suspend`, `on_started`: they change nothing. What the SDK does
  about a refused PREPARE or SUSPEND is not in the repository, nor is the rest of
  its state machine; the tests pin down only the status codes.
* The outcome of `build`'s own `get`: it is logged, and `build` goes on
  (`ProbeConnector`).
* SPARQL itself: parsing and evaluation are oxigraph's; a query has its answers by
  the semantics of its patterns, on one snapshot. A storage error of a query is
  left out: the store is in memory.
* The memory that tokens take: nothing bounds it, and nothing in the code could.
* Environment parsing, logging, error texts, RDF vocabulary, `declaration.ttl`.
* Lock poisoning: nothing panics under the token store's lock.
* A clock that is set back. With one, the deadline is what each evaluation says,
  but the lookup would no longer be an instant as `AccessControl` wants it.

## 6. Plan

1. *Done*: TokenStore, OfferGraph, AccessControl, DataPlane, Startup; their runs;
   proofs of type correctness, revocation, offers, deadlines and the refinement.
2. *Done*: ConfigGraph, its round trip and two seedings at once; OfferFacts and
   ConfigOffer, which tie it to OfferGraph.
3. *Done*: Connector over ConfigGraph, and AtomicConnector; the proof of the
   refinement.
4. *Done*: proofs of `GrantedTokensLive` and `EndedStartsRevoked`, and of all safety
   properties of `Startup`.
5. *Done*: proofs about the quad-level graph (`GraphTyped`, `ReadsTruncated`,
   `SeededIsReadBack`, `ConfigOfferIsFacts`) and of `WholeOffersGot`, on top of
   first-order induction.
6. *Left*: the safety half of the liveness properties, for any constants: which
   measure each step of a request, of `build` and of a control plane reduces. The
   refinement of AccessControl in TCK mode with a deadline, for the configured
   dataset alone. A model of the SDK's state machine, once its source is at hand.
