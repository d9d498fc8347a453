# Verification of prompt-engine-m8

TLA+ models of the prompt engine service (`src/promt_engine_service`), TLC
configurations that check them on small instances, and TLAPS proofs of the main
results for every value of the constants.

## 1. The system

The service is a FastAPI application over SQLModel/SQLAlchemy and PostgreSQL.
Handlers are plain functions: FastAPI runs each request in a worker thread with
a session of its own, and the sessions meet only in the database, at isolation
level READ COMMITTED. (One is not: the category list, `read_root` in `category.py:47`, is `async def` and
runs on the event loop. It awaits nothing, so its SELECTs interleave
with the statements of other requests like those of one more thread.) There is no in-process shared state apart from the
engine's pool and the external authentication client. All concurrency is thus
between statements of different transactions, and all failures between a
request's statements: a constraint that fires, a row that is gone, a lost
connection, a crash of the process.

| Component | State | Operations | What makes it correct | What is hard |
|---|---|---|---|---|
| Template membership and order (`controllers/prompts.py:316-424`, routes `prompt_templates.py`, `prompt_blocks.py:274`) | rows of `template_blocks` (template, block, position) | add-block, set-block-position, delete-block, delete of a template or of a block, reads | a block at most once per template, positions unique and 1..n, order as asked, no dangling link | decisions on rows read earlier; several flushes per request; a unique index checked statement by statement |
| Prompt blocks and templates (`controllers/prompts.py:251-313`) | rows with owner, slug, public flag | create, edit, read by id or slug, delete | slugs unique, owners never change, private rows hidden | two edits of one row; slug derived from the name |
| Categories (`app/routes/category.py`) | rows with owner, unique name and slug | create, edit, read, delete, list | as above, owner-only | two edits of one row; names and slugs that are both unique |
| List queries and exports (`controllers/prompts.py:437-656`, list and export routes) | none | search, facets, sort, page, count, cap | count describes the filtered set, filters never widen visibility, `truncated` means rows are missing | rows and count come from two snapshots; no total order; the cap; one row that does not convert |
| Composition (`controllers/prompts.py:44-53, 229-248`) | none | compose | the order of the blocks, every dynamic block supplied | torn reads, contents sent twice or for other blocks, a placeholder in what a client sends |
| Read tiers and ownership (`controllers/prompts.py:59-115`, `core/deps.py`) | none | guards, `visibility_filter` | monotone in privilege | the same rule written three ways |
| Dashboard (`controllers/dashboard.py`) | none | activity ranges and counts | windows tile the calendar, counts are those of the window and of the caller's scope | calendar edges; one SELECT per table while others write and the month ends |
| Auth event stream (`core/events.py`) | the external client's cache | start, gap, stop | eviction is only an accelerator | external |
| UTC sessions (`core/utc_session.py`) | the time zone of a connection | pin | stored instants do not shift | old and new columns, two engines, a SET that a ROLLBACK undoes |
| Start-up (`scripts/docker_start.sh`, `pre_start.sh`, `fastapi_pre_start.py`, `alembic/env.py`) | revision files on a volume, the revision the database is stamped with | copy of legacy revisions, autogenerate, probe, upgrade, serve, health | serves only a migrated database; a crash is repaired by a restart | crashes between steps, files that outlive the database and the reverse |
| Initialisation (`docker_compose/shared/scripts`, `db_init`) | key files and variables, databases, roles | create, re-bind, rotate | a token that is alive verifies | a run stopped between two files; a service that starts meanwhile |
| LLM provider table (counted by the dashboard only), application assembly, release tooling | - | - | - | not part of the service's behaviour |

`PROJECT.json` lists every component with its status, and the hazards of the
code, each at its line.

## 2. Modules

    TemplateBlocks          the routes that change a template's blocks, step by step
      Membership            abstract: which blocks a template has, atomically
      TemplateOrder         + the order of the blocks
        OrderedTemplates    abstract: a template is a sequence of blocks
          MCTemplateBlocks  small instances for TLC
        Compose             + the prompt that a template says
          MCCompose         a small instance for TLC
    TemplateBlocksProofs    theorems about TemplateBlocks for TLAPS
      FreshWritesProofs     writes on rows that are still current
        TemplateOrderProofs what they do to the order, and editors one at a time
          ComposeProofs     the prompt

    Catalog                 one table of records: create, edit, delete, read
      MCCatalog             small instances for TLC
      Listing               + list and export requests next to the writes
        MCListing           small instances for TLC
    CatalogProofs           theorems about Catalog for TLAPS
      ListingProofs         theorems about Listing, on top of CatalogProofs

    Startup, InitKeys, UtcSession, Dashboard
                            the parts around the service, each on its own
      Operations            small instances of the four for TLC
    OperationsProofs        theorems about Startup, InitKeys and UtcSession for TLAPS
    DashboardProofs         theorems about Dashboard

### TemplateBlocks

The database is `templates`, `blocks` (live ids), `links` (rows of
`template_blocks`: id, template, block, position) and `nextId` (the sequence of
`template_blocks.id`). A request is a worker `r` with its place `pc[r]`, the call
it serves, what its session holds (`seen[r]`: link rows, `held[r]`: block rows) and
the answer it gave last.

Each SELECT of a handler is an action, because at READ COMMITTED each sees what is
committed when it starts: `SelectTemplate`, `SelectLinks` and `SelectBlocks` are
the three SELECTs of `_load_template`, `GetBlock` is `session.get` in
`get_block_for_user` (answered from the identity map when the row is already
held), `SelectUsage` the lazy load in `delete_prompt_block`. What a handler
decides between two SELECTs depends on its session alone and belongs to the action
of the SELECT before it (`Verdict`, `BlockVerdict`: the 403, 404, 400 and 409
answers in the order in which the code makes them).

The write phase of a handler, from its first flush to its commit, is one action.
Its statements lock the rows they write, wait for concurrent writers of the same
unique key and lock the rows their foreign keys point to, all until the commit: two
write phases that touch the same rows are serialized by these locks, and one
that fails is rolled back whole. What a write phase writes is still computed from
the rows read earlier. Inside the phase the model keeps what decides its fate:
the UPDATEs of each flush in the order in which SQLAlchemy emits them
(`AddOrder`: one flush per row; `PrimaryKeyOrder` otherwise), each checked at
once against `uq_template_position` (`FlushFails`), an UPDATE of a row that is
gone (StaleDataError), a DELETE of one (only a warning: `Without`), the
constraints of the INSERT (`InsertFails`) and the foreign keys of the DELETEs.

`Fault` ends a request anywhere: a deadlock victim, a lost connection or a crash.
What is not committed is gone; what is committed stays although the client sees
an error. `Finish` is the `session.refresh` after the commit, which fails when the
row has been removed since. `handle_exception` is external (fastapi_m8): its
answer is `"error"`.

Abstracted: the text of rows, HTTP, authentication (a user of the model has passed
the writer guard), the statement-level interleaving inside a write phase (section 6). Creation and edits of templates and blocks do
not touch links and are the subject of Catalog; here every row of the instance
exists at the start.

### Catalog

Prompt blocks, prompt templates and categories have the same life: an owner, a name, a
slug derived from the name, and (but for categories) a public flag. One module models the three
tables; `Kind` says which one, and the few differences between the routers are where
it is mentioned (`Admits`, `PayloadRejected`, `NotFound`, `Denied`, `Taken`). `rows`
is the table, `nextId` its sequence, `tier[u]` the role the authentication service
gives a user, which may change at any time (`Demote`). A request goes from "idle" through
"load" (`session.get` and the checks on the row) or "find" (the SELECT of
get_by_slug) to "write" and "committed"; `seen[r]` is the row its session holds and
`caller[r]` the tier its guard found when it began.

`Load` and `Find` are the SELECTs, `CommitCreate`, `CommitEdit` and `CommitDelete`
the write phases, `WriteRejected` what `handle_exception` answers when one fails,
`Finish` the refresh after the commit and `Fault` a lost connection or a crash. As in
TemplateBlocks a write phase is one action: it writes one row, and waits at the unique
index for whoever is writing the same key.

What an edit does to a row that changed since it was loaded is where the interesting
behaviour is. SQLAlchemy sends only the columns whose value differs from the loaded
one: `Dirty` compares with the row in the session, and `Edited` puts those columns on
top of the row as it is stored now. An UPDATE that finds no row is an error
(StaleDataError), one without dirty columns is not sent at all, a DELETE that finds
no row is only a warning.

Abstracted: descriptions, contents, types and timestamps (no check looks at them),
and slugify itself (`SlugOf` is any function from names to slugs; the instances give
two names one slug and one name the empty slug). The links that a deletion would
violate are in TemplateBlocks.

### Listing

The list and export routes of the three tables extend Catalog: next to its writers
there are `Listers`, whose requests make two SELECTs. `BeginList` is the guard and
`parse_facets`; `SelectRows` picks any order of the rows in `Filtered` that agrees with the
ORDER BY (`Orders`; without a sort, any order) and keeps the `Slice` the client
asked for, if every row it will show converts to the public model (`Keep`); a row that does not ends the
request there with what `handle_exception` answers (`Reject`, status "invalid"). Of a block
or category the model asks for a slug (`Presentable`), a template is dumped unchecked; an
export converts the rows up to its cap only (`Shown`). `SelectCount` counts the same predicates on the
table as it is then, decides `truncated` and answers. `table[l]` is a history variable: what the first
SELECT saw. Which search term matches which text is a parameter (`Found`), so the
case folding and escaping of `q` are abstracted; the columns searched, the OR of the facets and the AND with the
visibility predicate are modelled. A sort by `id` stands for the unique columns, one
by `public` for those that are not, such as `block_count`. The links and blocks
that a template list loads after its rows are the `read` operation of TemplateBlocks.

### Compose

`ComposePrompt` is compose_prompt_content as an operator on the rows of a template: the
contents sent, the last of each id (`ById`), the rows by position (`Sorted`), the rendering of
a dynamic block (`Rendered`: every placeholder is replaced, what replaces it is not
searched again) and the 400 for the first block without a content. It is evaluated on every set of
rows that TemplateBlocks reaches and on every list of contents of the instance. A content is a
sequence of pieces of which some are the placeholder, a prompt the sequence of contents that
the code joins with a blank line. `PromptFollowsPositions` states what the prompt must be without
sorting or folding: position by position.

### Startup

`files` and `legacy` are the revision files in the two directories of the volume, `stamp` the
revision in the database, `place` where docker_start.sh is. `Scan`, `Copy`, `EndCopy`, `Generate`,
`Probe` and `Upgrade` are its steps in order, each with the exit that set -e gives it;
one cp and the writing of one revision are atomic, so that a truncated revision file is
not modelled; `Restart` is the restart policy, `CheckHealth` the health route. `Crash` and `ComposeDown` stop the
container anywhere, also in the middle of the copy; `DbStops` and `DbStarts` are outages; `RemoveData` is
init.sh --reset-db, which removes the database and not the revisions; `LoseVolume` removes the revisions
and not the database; `NewImage` deploys other models. Revisions are numbers: a legacy
chain, and one that autogenerate writes for an image into an empty directory. What Alembic makes of a
set of files (`Chained`, `HeadOf`, `Upgradable`) is external. `cut` and `lost` are history variables
that name two accidents after which no start can succeed: a crash between two copies, and a database
that is stamped while no revision is left for it. A third is in the first state: the grep of `docker_start.sh:12`
skips the legacy revisions that do not name the service, and the legacy stack may have stamped the
database with any revision, also a skipped one (`StartInit`).

### InitKeys

The files are numbers: a public key is that of the private key with its number, `None` is
no file and `Broken` one that openssl or cp was writing when the run stopped. Each command that changes a
file or a variable is an action (`Retain`, `SetOldFile`, `SetOldKid`, `GenPrivate`, `GenPublic`, `Bind`), `Stop` ends
the run before it or in its middle. `set_env_var` moves a finished file over `auth.env`: where mktemp is on
another file system, mv is a copy, and `CutEnv` stops that copy after any of the three variables (the rest
of `auth.env` is taken to arrive); `CheckBinding` is a run without --rotate on existing keys. The auth service is not in the
repository: `Boot` is what the script's comments say of it (it refuses a kid that is
not the public key's) and `Issue`, `Expire` give it clients. The operator does what the script prints:
rotates and closes the window only when tokens of the previous key have expired (`WindowOver`). `unsafe` is a
history variable for the four accidents after which tokens fail, named at `TokensVerify`.

### UtcSession

A connection has a time zone and the one a ROLLBACK restores. `SetSessionUtc` gives both the value UTC,
because the listener runs with autocommit; in a transaction the second would remain the server's (the
mutant). `PinUtcSession` applies it to the pool of the service and to Alembic's engine. `StoredAs` and
`AsInstant` are PostgreSQL's casts. The databases are those of the release without zones, with its
columns and rows, and those that the present release creates; `Deploy` is the change of
release and `Alter` the migration of the columns.

### Dashboard

An instant is year, month, day, hour and minute. `RangeActivity` is get_range_activity field by
field; `Ask` computes the window, `CountModel` counts the next table on the rows as they are then, `Answer` and
`Fail` end the request. `Add`, `Touch` and `Delete` are the commits of other requests, `Tick` the clock, which may pass
the end of the window between two tables. `kept` and `ever` are history variables: the
versions of rows that were there throughout and at some time. `WindowsTile` and
`CountsAreOfTheRequest` do not mention the window's computation: they compare fields of the calendar.

### Operations

The four parts share no state with each other nor with the tables, so `Operations` puts them into one run
without a product: `focus` chooses one, the others rest as they began.

### Abstract specifications

`Membership` says that which blocks a template has changes only by attaching a
block that is absent, detaching one that is present, deleting a template with its
attachments, and deleting a block no template has. `OrderedTemplates` says that a
template is a sequence and that add, move and remove are InsertAt, a move and
Remove. `TemplateBlocks` implements the first for any number of requests; it
implements the second only if no two requests edit one template at a time
(`RefinesOrdered`). With
concurrent requests the order is what one would expect only if the rows read were
still current at the commit; that is `FreshCommitsAreAtomic`.

## 3. Runs

| Run | Instance | Shows |
|---|---|---|
| `reorder` | 2 requests, 1 template, 3 blocks, 3 attachments | every interleaving of attach, move and remove: `UniquePositions`, `UniqueBlocks`, `PositionsInRange`, `LoadedRowsKeepIdentity`; and for writes on rows that are still current: they succeed (`FreshWritesSucceed`), leave 1..n (`FreshCommitsAreContiguous`) and do exactly what was asked (`FreshCommitsAreAtomic`) |
| `lifecycle` | 2 requests, 2 templates and 2 blocks of 2 owners, one of them superuser, 2 attachments | `ReferentialIntegrity`, `TornReadMeansUnlinked`, `CrossOwnerLinksBySuperuser`, `RefinesMembership`, and the inductive invariant `IndInv` |
| `alone` | 1 request, 1 template, 3 blocks (static, with a placeholder, without), 5 attachments, up to 2 contents sent | `PositionsContiguous`, `PromptFollowsPositions` and `RefinesOrdered` |
| `answered` | 2 requests, every operation, 1 attachment | `EveryRequestAnswered` |
| `gaps` (violation) | as `reorder` | `PositionsContiguous` fails with two requests |
| `removal` (violation) | 1 request, 3 blocks, 3 attachments | `FreshRemovalsSucceed` fails without any concurrency |
| `records` | Catalog of blocks: 2 requests, an owner and a superuser, 2 records, every operation | `SlugsUnique`, `SessionsHoldOwnRows`, `OnlyOwnersWrite`, `OnlyVisibleShown`, `NoResurrection`, and for an edit of a row that is still as loaded `FreshEditsAreExact` |
| `drift` (violation) | Catalog of categories: 2 requests, 1 record | `SlugFollowsName` fails when two edits overlap |
| `emptyslug` (violation) | Catalog of blocks: 1 request, 1 record | `SlugsNonEmpty` fails on edit |
| `listing` | Listing of blocks: 1 writer, 1 lister, 2 records, 2 users, cap 1 | `ListsShowVisible`, `UntruncatedIsComplete`, `QuietAnswersAgree`, and with a block whose slug an edit made empty `FailedListsHoldTheRow` |
| `categories` | Listing of categories: 1 writer, 1 lister, 3 records, 4 names, pages of 1 and of 2, an owner who may lose the role and a superuser | `SlugsNonEmpty`, `PagesPartition`, `ListsShowVisible` |
| `operations` | Startup: 3 legacy revisions, 2 images, 3 tries, 4 faults; InitKeys: 3 keys; UtcSession: 2 connections and Alembic's, 2 instants, a server at UTC+5; Dashboard: 2 tables, 2 owners, 2 rows, clocks before the end of a year, of 28 and of 29 February | `ServesMigrated`, `ServesWholeSchema`, `StuckOnlyByLoss`, `StartedEventuallyServes`; `TokensVerify`; `ComparedAsMeant`; `WindowsTile`, `CountsAreOfTheRequest` |

Bounds of TemplateBlocks. Two requests suffice for a stale read: the one that reads and the one
that commits in between, any number of times, since a worker serves one call
after the other. Three blocks are the least for which a move shifts a row that it
does not name and for which swapping differs from moving. `MaxLinkId` bounds how
many rows are ever inserted (the sequence is then exhausted and an INSERT fails,
which the handlers treat as any other error): three lets a stale request meet a
row that replaced the one it loaded, five lets a single client refill a template.
The calls are listed in `MCTemplateBlocks`: positions below, in and above the
range. `reorder` uses symmetry of requests and blocks, `lifecycle` of requests
(its rows have different owners); `alone` and `answered` use none: a single request and
blocks of different contents, and liveness on the full graph.
Deadlock checking is on in every run: an idle worker can always begin.

Bounds of Catalog and Listing. Two requests again suffice for a row that changes between
load and commit; `MaxId` bounds how many records are ever created, and two
let one record take the slug another wants. In `listing` a cap of one row and two
records are the least for which an export is truncated, exactly full or short; one
writer is enough to change the table between the two SELECTs any number of times.
`categories` asks for pages of one and of two out of up to three records, so that the
last page is full in some states and short in others; its names share a slug or have
none. `records` and `drift` are symmetric in the requests.

Bounds of Operations. Three legacy revisions have a first, a middle and a last one that
can be missing. Two images are the least for which the models of the image and of the schema differ.
Four faults are enough for a crash during the copy, one after the restart, an outage and a shutdown in one
behaviour; three tries let the probe fail, wait and give up. Three keys are two rotations: the second is where
the retained key of the first could be lost. Two connections, one reused after it was returned and one fresh,
and Alembic's; two instants in different halves of the day, so that a shift changes the date of one. One
tick of the clock crosses the end of the hour, day, month and year of each start; two rows are
the least for which one changes between two tables and one stays. The instants compared in
`WindowsTile` lie on both sides of every bound of the windows; its theorem covers all others.

### The violations

`removal`: attach three blocks (ids 1, 2, 3), the later ones inserted before others, so that positions do not
follow ids; remove one. A move brings the same about. The remaining rows are renumbered in one
flush, whose UPDATEs go in primary-key order, and the first lands on a position
that the next row has not left yet: `uq_template_position` fires and the removal is
rejected, and will be again each time it is tried.

`gaps`: a request reads a template with n links and decides to append at n+1;
another removes a link and commits; the first commits at n+1, which is now one too
many. Both are answered with success. `FreshCommitsAreContiguous` shows that the next
undisturbed move or removal repairs the gap.

`drift`: of two overlapping edits of one record, one changes name and slug, the other only the name
(its slug is the one both loaded, so the column is not dirty). When
that one commits last, the row has its name and the slug of the first, and later requests for
that name's slug miss it; in the other order the second edit overwrites both columns. `FreshEditsAreExact` shows that overlapping is what it takes:
an edit of a row that is still as it was loaded leaves name and slug of its payload.

`emptyslug`: a creation validates the row it builds, an edit of a loaded row does
not, and the payload of blocks and templates has no minimum length for the slug. A
block renamed to "!!!" has the empty slug, and no second one can be. From then on it fails every
list and every export it belongs to, for all who may see it, because the public model asks for the minimum
that the edit did not check (`routes/prompt_blocks.py:106, 171`). `FailedListsHoldTheRow` shows how far that goes: a page that
does not hold the block, and an export that has it only beyond the cap, are answered.

Some properties of `operations` except an accident that the code does have: `cut`, a skipped revision and
`lost` in `ServesWholeSchema` and `StuckOnlyByLoss`, `unsafe` in `TokensVerify`. They do not show that the accident
cannot happen; they show that it is the only one.

Further disagreements are modelled but are not runs:

* `prompt_block_export` decides `truncated` from the rows of one SELECT and takes `count` from a second
  one (`routes/prompt_blocks.py:168, 173`). When a matching record is deleted between the two, the answer says
  `truncated` with as many rows as `count`, while the docstring of PromptBlocksExport promises fewer
  (`db_models/prompts.py:87-90`). `QuietAnswersAgree` shows that they agree when nothing is
  written in between.
* Reads by id ask for ownership (`IsVisible`) and queries for the tier (`InQuery`), so a user
  who loses the reader role is no longer listed a private record of their own and still reads it by id.
* `init-keys.sh:146-147` calls the writing of the pair and its kid "the same step". They are three commands: a
  rotation stopped after `private.pem` leaves the old kid next to the old public key, the next run reports
  it "already bound", and the service signs with a key that its JWKS does not have (`unsafe`).
* The message for an unreadable `public.pem` (`init-keys.sh:74-77`) is never printed: the assignment
  above it fails first and set -e ends the run.
* Once any revision exists, `docker_start.sh` never generates another, so the tables of a newer image's models are
  not created (`ModelsAt(stamp) \in 1..image` in `ServesWholeSchema`, not `= image`).

## 4. Fairness

`Spec` assumes weak fairness of `Handle(r)` for each worker `r`: a request in
progress keeps making steps, because its thread is scheduled and no handler loops
or waits for anything but the database, which resolves lock waits (a deadlock
victim is a `Fault`). Nothing is assumed of `Begin` (clients need not call) or of
`Fault`. This is what `EveryRequestAnswered` needs: some step of `Handle` is
enabled at every place other than "idle". The specifications of Catalog and Listing
assume no fairness, as only safety is stated of them.

`StartFairness` assumes that an exited container is restarted (`restart: unless-stopped`), that the
script's process is scheduled, and that the database and the stack eventually come back. Crashes, outages and
shutdowns are finitely many (`MaxFaults`) but come at any time; nothing is assumed of resets, lost
volumes, new images and the health route. `EventuallyServes` needs the restarts: the
autogenerated revision is written before the probe waits for the database, so a start that meets a
database that is not ready fails, and only the next one can succeed. It excepts the states in
which no start can succeed (`Stuck`), and `StuckOnlyByLoss` says what leads there.

## 5. Proofs

`TemplateBlocksProofs` proves, for every number of requests, users, templates,
blocks and link rows:

* `Invariance`: `Spec => []IndInv`. The constraints of the table (`LinksInv`) are not
  inductive alone, since a write phase writes positions computed from rows loaded
  earlier. `IndInv` adds what stays true of those rows whatever is committed since:
  their ids keep their template and block (`LoadedRowsKeepIdentity`), their
  positions lie between 1 and the number of rows ever inserted, and a request has
  passed the checks its place requires (`PlaceOK`).
* from it `TypeCorrectness`, `PositionsStayUnique`, `BlocksStayUnique`,
  `LinksNeverDangle`, `PositionsStayInRange` and `TornReads`;
* `CrossOwnerLinks`, an action property;
* `MembershipIsAtomic`: every commit is a step of `Membership` or leaves it
  unchanged.

The argument rests on lemmas about a flush. `FlushKeepsPositionsDistinct`: if no
statement of a flush runs into the unique index, then no two rows of a template
share a position after it, for any order of the statements (of two rows with the
same position, the one written last would have found the other there).
`AddPositions`, `MovePositions` and `RemovePositions` bound what each handler
writes: a stale index is at most the number of rows loaded, which have different
ids below `nextId`, so it is less than `nextId` (`FewerThanIds`).

`CatalogProofs` proves, for every table, number of requests, users, names and records:

* `CatalogInvariance`: `Spec => []IndInv`. Uniqueness follows from the constraint at
  each write, but visibility and ownership need to know what a session holds when it
  writes: `SessionsHoldOwnRows` says that it is one row its caller may write, that
  the stored row with its id still has that owner, and that its id was drawn
  (`IdsDrawn`), so that no other record will ever have it.
* from it `CatalogTypes`, `SlugsStayUnique`, `SessionsKeepOwnRows`,
  `CategorySlugsNonEmpty` (for `Kind = "category"`: for the other tables it is false,
  see `emptyslug`);
* the action properties `OwnersWriteOnly`, `DeletedStaysDeleted`, `AnswersAreVisible` and
  `FreshEdits`;
* `EditsKeepSlugs`: `Spec /\ []OneEditPerRecord => []SlugFollowsName`. The code has neither SELECT FOR UPDATE nor a
  version column; if no two edits of one record overlap between load and write, then what an edit loaded
  is what is stored (`SlugInv`), and `drift` cannot happen. Creations, deletions, reads and faults may
  interleave.

`ListingProofs` proves, for every cap, page, search and number of listers:

* `ListsOnlyRead`: `ListSpec => Spec`, so that all of CatalogProofs holds next to
  lists;
* `ListInvariance`: after its first SELECT a request holds a slice of an order of
  what matched then (`PageOK`), and `ListTypes`;
* `ListedIsVisible`, `ExportsAreComplete`, `QuietAnswers` and `OnlyHeldRowsFail`. They rest on
  `OrderProperties` (an order of a finite set holds each element once, by the pigeonhole
  fact `FS_Injection`), `SliceProperties` (how many rows OFFSET and LIMIT leave, and
  which), `ShownPlaces` (at which place of the order a shown row is) and `TablesAreFinite` (unique ids
  below a bound).

`PagesArePartition` gives each row a rank, the number of rows that sort before or with it. For
a unique column `Rank` is a bijection onto 1..n (`RankStrict`, `FS_Injection`), so that there is an order
(`SomeOrder`), every order puts a row at its rank (`RankIsPlace`), and the page of a row is the
quotient of its rank by the limit (`OnePage`).

`FreshWritesProofs` proves `FreshWrites` for any number of blocks. An attachment shifts one row per flush
from the last: each row moves to a place that is free because the row above has left it or because
the positions end there; a move parks all rows at negative positions, which nothing uses, and then places them
at distinct ones (`IndexStrict`: of two rows, the one at the higher position has the higher index).
`NoClash` turns both into one condition on pairs of rows: a statement fails only if its
position is where another row of the template is by then, moved or not. `IdentityKept` in TemplateBlocksProofs is the conjunct of `IndInv`
on which every lemma about stale rows rests.
`FreshCommits` adds what such a write leaves: every row of the template at a position between 1 and
their number (an attachment shifts 1..n up to n+1 around the hole it fills, a move
takes positions up to n, a removal puts each row at its index). Rows at distinct positions up to
their number are at all of them (`Packed`, by `FS_Injection`), and `RowsAreIds` counts rows by the ids
that a flush does not touch.
`OrderedRemovals` says when a removal on current rows, which `removal` shows to fail, does not: if the ids of the rows that stay
follow their positions (with gaps or without). The flush goes by id, so that each row is set to its index when the rows below it
are at theirs, and those above are beyond (`IndexAtMost`).

`TemplateOrderProofs` carries the results about rows over to the list of blocks, for any number of
requests, templates, blocks and links. `Sorted` puts a row at its `Index`, the number of rows up to its
position, which is a bijection onto 1..n (`IndexOrder`, `IndexOnto`); the lemmas `RowsAdded`, `RowsMoved` and
`RowsRemoved` of FreshWritesProofs say where a write on current rows leaves each row, and `PackedList` that rows
at the positions 1..n are listed in that order. So `AddedOrder`, `MovedOrder` and `RemovedOrder`: the list
after the commit is the list before it with the block inserted, moved or removed. From these:

* `FreshCommitsKeepOrder`: `Spec => FreshCommitsAreAtomic`.
* `EditorsKeepPositions` and `EditorsRefineOrdered`: `Spec /\ []OneEditorPerTemplate` implies
  `[]PositionsContiguous` and `RefinesOrdered`. The code takes no lock on the template, and `gaps` shows what two
  editors of one template do; this says that nothing else is missing. Readers, deletions of blocks, editors of
  other templates and faults may interleave at will. The inductive invariant is
  `OrderInv`: between its first SELECT and its commit, what an editor read is what is stored
  (`Fresh`). It is kept because every commit on a template belongs to an editor of it, and a block that is deleted is
  attached nowhere (`EditorCommits`, `EditorReads`, `QuietStep`).
* `SoloPositions` and `SoloOrder`: the same for `Requests = {w}`, any calls, which is what the run `alone` checks.

`ComposeProofs` proves `EditorsKeepPrompts` and its corollary `SoloPrompts`: `PromptFollowsPositions` for contents and lists of
dynamic blocks of any length. Three facts about sequences are behind it: the first and the last place of an element exist
(`FirstPlace`, `LastPlace`), hence the 400 names the lowest position and the content last sent counts (`LastGiven`); and
the pieces of a concatenation are those of its parts (`FlattenPieces`). `FlattenSeq` is a recursive function,
so that it is one (`PrefixesExist`) and what its prefixes hold is shown with the least counterexample
(`LeastNat`), not by an induction theorem with an operator as parameter. `PackedRowsFollow` is the property for any
rows at the positions 1..n.

`OperationsProofs` holds the theorems about three modules. For Startup it proves, for legacy chains
of any length, any number of images, tries and faults,
`StartInvariance` (the invariant says that the directory holds legacy revisions or one that was
generated for an image, that outside a copy it holds all legacy revisions or `cut` says otherwise, that the
database is empty or at a revision which is there or will be copied unless something was lost or
the grep skipped a legacy revision,
and that a script past the generation has files), and from it
`StartTypeCorrect`, `MigratedWhenServing`, `WholeSchemaWhenServing` and `StuckByLossOnly`. That a chain has a
last revision is `LeastNat`, the least number principle, from the well-foundedness of < on Nat.

For InitKeys it proves, for any number of keys, `KeysInvariance` and from it `KeysTypeCorrect` and
`TokensAlwaysVerify`. `StepInv` says what the script has done when it is at a step, `RotationInv` which
kids can be in use: those of live tokens and of the running service are the bound one alone while a
rotation runs, and afterwards the one of the public key or the retained one. `ServerInv` is the property
itself with what a token carries. The last two hold unless `unsafe`.

For UtcSession it proves, for any server zone, connections and instants, that `UtcInv` is inductive, and from it
`InstantsAreKept` and `ComparisonsAreRight`: what matters is not the zone of a session alone but
also the one that a ROLLBACK would bring back.

`DashboardProofs` proves for every instant of the calendar that windows tile (`WindowsAlwaysTile`: the
comparison of two instants is unfolded field by field, with the end of the month and of the year as
cases), and for any tables, owners, rows and writes that counts are those of the
request (`CountsOfTheRequest`): when a table is counted its rows lie between `kept` and `ever`, and
during a request the first only shrinks and the second only grows.

The type invariants of `Startup`, `InitKeys` and `Dashboard`, and `InstantsKept` of `UtcSession`, are stated
by these theorems alone and by no run: what the run `operations` checks of the same modules
says more.

The proofs assume the ASSUMEs of the modules and, where a theorem says so, that one worker runs, that no two edit
one template at a time or that no two edits of one record overlap. Every invariant and action property of the passing runs is stated by a theorem. Only model-checked: liveness,
`EveryRequestAnswered` and `StartedEventuallyServes` (fairness and ENABLED are out of the prover's reach).

## 6. Not modelled

* The statement-level interleaving inside a write phase. Which statement waits for which lock, and who is
  chosen when two orders of locks cross (an insertion locks rows by descending position, a move
  or a removal by primary key), is decided by PostgreSQL's lock manager. The victim is a `Fault`, which
  ends a request at any place, and `EveryRequestAnswered` covers it.
* `init-db.sh` runs once, from the database's image, on an empty data directory before connections
  are accepted; nothing interleaves with it. `init-certs.sh` writes a certificate with the scheme of
  init-keys.sh, without a binding.
* The guards, the cache and the event client built by fastapi_m8, the media and auth services: not in this
  repository. `core/events.py` starts and stops the client.
* The LLM provider table (no route writes it), the wiring of routers, metrics and settings (evaluated
  once), the release and lock tooling (one process on files, outside the service).
