# agkit.io-topography in TLA+

A verification development kept beside the topography engine: TLA+ modules
that model its control, TLC instances that check them, and proofs that TLAPS
checks for every value of the constants. Paths such as `app/geoworker.py` are
relative to the repository (`src/` in `PROJECT.json`).

## The system

A Django backend asks for topography artifacts of a farm field (elevation,
slope, blended relief, contours, watershed maps, flow lines, scalars). One
container image serves two Lambdas:

* the **worker** drains an SQS queue of *bundles*, lists of jobs. For each job
  it computes an artifact with GDAL and GRASS, posts it to the signed
  `post_url`s the job carries, and reports a usage event to x402 if the job
  was stamped as metered;
* the **HTTP front door** gates a request against a cached x402 catalog, then
  either renders an elevation map synchronously or publishes the bundle to the
  same queue (`/elevation/async`).

### Components

| Component | Code | State it keeps | Operations | Correct when |
|---|---|---|---|---|
| Jobs queue, redrive, event source | `deploy/main.tf` | visible or hidden messages, receive counts, the DLQ | receive, reappear, throttle, retry, delete, park | every message is deleted or parked; two invocations run one message at once only for the reasons named |
| Worker entry point | `app/handler.py` | none between invocations | `_parse_body`, `handler` | the message is reported exactly when it must come back |
| Job runner | `app/geoworker.py` `process_payload` | results and failures of the bundle | one step per job | every job is attempted; a bundle succeeds only if each job landed |
| Record-on-completion | `_report_completion`, `app/metering.py` `report_usage` | usage at x402 | report | only landed, metered jobs are billed, once |
| Postback client | `app/poster.py`, posting loops of `geoworker.py` | none | `post_raster`, `post_scalar` | what Django refused is a failure |
| Raster cache of a bundle | `build_common_cache`, `watershed_common`, `app/ziphandler.py` | `self.cache`, files under `/tmp` | build, fetch tile, clip | the rasters belong to the job's field and cover it |
| Metering gate | `app/metering.py` | a catalog per warm instance | refresh, resolve, gate | enforced endpoints serve permitted consumers only; staleness is bounded while x402 answers |
| HTTP front door | `app/http_handler.py`, `app/publisher.py` | none | sync, async, prime, OPTIONS | 202 means enqueued; reject means no work was done |
| Synchronous render | `app/sync_elevation.py` | `/vsimem` files | `render_elevation`, `prime` | an answer shows its own boundary, whatever is left over |
| Tile arithmetic | `build_common_cache`, `get_dem_raster_set`, `tiles_for_bbox` | none | which 1-degree tiles cover an extent | every point of it is in a chosen tile, no tile is idle; both paths read the same files |
| Flow lines | `get_mfd_flowlines_raw` in `app/grass_handler.py` | none beyond a call | D8 walk, ridge and draw selection | paths end, each runs downhill; each unit shows its best, no draw is lost |
| Slope profiles | `_simplify_profile`, `_classify_profile_shape` | none beyond a call | simplify, merge, classify | length and drop are preserved, the cap holds, the label fits the curve |
| Contours, watershed maps | `grass_handler.py` | GRASS locations | run GRASS | not modelled |
| Rendering, reducers, downloads | `geocolorize.py`, `color_schemes.py`, `reducers.py`, `downloader.py` | none | pixel arithmetic | not modelled |

### How they interact

`http_handler` calls `metering.gate`, stamps the resolved consumer on each job
and calls `publisher.publish_jobs`; Django may also send to the queue itself.
The event source receives one message at a time (`batch_size = 1`), hides it
for the visibility timeout and invokes `handler.handler`, which calls
`geoworker.process_payload`. That runs the jobs in order over one shared
raster cache; each job function posts through `poster`, and after each job
`_report_completion` calls `metering.report_usage`. A job that fails makes
`process_payload` raise `JobFailed` at the end, the handler returns the message
in `batchItemFailures`, and SQS makes it visible again; after `maxReceiveCount`
receives it goes to the dead-letter queue.

### What is hard

Redelivery starts a bundle over, whatever part of it landed, posted or was
billed. An invocation may die at any point. A standard queue may deliver twice
and may lose a delete. Django may store an artifact and the answer get lost.
Receives, not failures, count towards the dead-letter queue, throttled ones
included. The visibility timeout runs from the receive and the worker's from
the start of the invocation, which may be later. The raster cache is filled key by key and outlives the job that
filled it. The catalog is cached by each warm instance for itself. Which tiles
a field needs turns on rounding at degree lines; the search for flow lines and
the simplification of profiles are loops whose caps, orders and resets decide
what a planner sees, and whose inputs are as irregular as the ground. The full
list, line by line, is under `hazards` in `PROJECT.json`.

## Modules

| Module | Models | Role |
|---|---|---|
| `JobResult` | the job families, postback answers, result strings, `_job_succeeded` | vocabulary, no state |
| `JobDelivery` | nothing of the code: what queue and worker promise together | abstract specification |
| `JobPipeline` | SQS queue and redrive, event source, `handler`, `process_payload`, posting, usage | the core component |
| `JobTiming` | the same with its two clocks: visibility timeout and worker timeout | extends `JobPipeline` |
| `MCJobPipeline`, `MCJobTiming` | | the instances TLC runs |
| `JobPipelineProofs`, `JobContractProofs` | | theorems about `JobPipeline`; the second holds those about the clocks and the refinement |
| `RasterCache` | `build_common_cache`, `watershed_common`, `get_dem`, the readers of the cache, `/tmp` on a warm container | the second component |
| `MCRasterCache`, `RasterCacheProofs` | | its instance for TLC, its theorems |
| `Metering` | `metering.py`: x402's catalog, the copy each warm instance caches, what the gate decides from it | state and operators; `HttpFront` extends it |
| `HttpFront` | `http_handler.py`, `publisher.py`, `sync_elevation.py` on warm instances behind API Gateway | the third component |
| `MCHttpFront`, `HttpFrontProofs` | | its instance for TLC, its theorems |
| `TileCover` | extents, rounding, tile loops, limit and file names of both paths | the fourth component |
| `MCTileCover`, `TileCoverProofs` | | its instance for TLC, its theorems |
| `D8` | drainage over a grid: steps, divides, channel heads, lengths | operators; `FlowLines` extends it |
| `FlowLines` | `get_mfd_flowlines_raw` once GRASS has routed the flow | the fifth component |
| `MCFlowLines`, `FlowLinesProofs`, `FlowWalkProofs` | | its instance for TLC, its theorems; the last holds those that compare with the recursive walk, and that a call comes to its end |
| `Profile` | `_dp_simplify`, `_simplify_profile`, `_classify_profile_shape` | the sixth component |
| `MCProfile`, `ProfileProofs` | | its instance for TLC, its theorems |

`JobPipeline` starts where `HttpFront` ends: each message `HttpFront` counts in
`queued` is one `Publish` there, and the consumer in `stamp` is what makes a
job `metered` there. `TileCover` is what `RasterCache` takes as `TilesOf` and
what `HttpFront` takes as a *large* body; `FlowLines` and `Profile` are what
the reader of the watershed raster computes before it posts.

### `JobPipeline` and the code

A *delivery* `<<m, a>>` is the a-th receive of message `m`, and also the
invocation that runs it, since batches hold one record. `inv[m][a]` is what
that invocation keeps: a control point, the position in `process_payload`'s
loop, the output slot being posted, the job's `result` and the `failures`.

| Action | Code |
|---|---|
| `Publish` | `publish_jobs`, or Django's own send |
| `Deliver`, `DeliverCopy`, `Throttle` | the event source's receive; a duplicate of a standard queue; a receive with no execution free |
| `Retry` | the event source tries a throttled invocation again, or never does |
| `Reappear`, `Park` | visibility timeout, redrive policy |
| `Begin` | `_parse_body` and the way into `process_payload`; a body that is no list becomes a batch item failure |
| `LeaveLoop` | `job["metadata"]["function_name"]` raises outside the `try` |
| `NoPostback` | the name is not callable, or the function raises before it posts |
| `NothingToPost` | no output slots, or a helper method found by `getattr` |
| `Compute`, `RefuseSlot`, `PostOutput` | the job function up to its posting loop, an extension it does not know, one postback |
| `Report` | `_report_completion`, then the entry in `failures`, then the next job |
| `Return` | the end of the loop: return, or `JobFailed` and a batch item failure |
| `Ack` | the event source deletes the message, or the delete is lost |
| `Die` | timeout, out of memory, lost host |

Kept: every branch, early exit and failure of `handler`, `process_payload` and
the posting loops, and their order. Abstracted: artifacts (a postback is a
job, an output position and an answer), names (a job is the *family* its
`function_name` resolves to), result strings (the few that
`_job_succeeded` tells apart). An answer has two sides, what Django stored and
what the caller saw, so that a lost answer and a redirect can be told from a
success. `answers` and `usage` are what Django and x402 saw; no action reads
them.

No time passes in this module: a message may reappear, and a throttled
invocation be retried, at any moment, whatever else is under way. All that is
checked and proved of `JobPipeline` holds without any help from the timeouts.

Left out of this module: SQS retention (4 and 14 days), failures of the
constructor of `LambdaGISProcessor` and of the wipe of `/tmp`, the
contents of rasters (see `RasterCache`), and batches of more than one record.

### `JobTiming` and the code

`JobTiming` adds time and nothing else: each of its steps is a step of
`JobPipeline` or `Tick`, with four timers. `age[m][a]` runs from the a-th
receive, `ran[m][a]` from the moment its invocation begins, `late[m][a]` is the
difference, and `copies[m]` names the deliveries SQS made of a message it was
hiding.

| Action | Code |
|---|---|
| `Received`, `ReceivedCopy` | a receive, served or throttled: `visibility_timeout_seconds` starts |
| `RetryWhileHidden` | a throttled invocation begins at last, no later than its own receive's visibility timeout |
| `ReappearInTime` | the timeout of the latest receive has run out, whoever still works on the message |
| `Tick` | time passes, but no invocation runs longer than `timeout` of `aws_lambda_function.topography`: it must end or be killed first |
| `Otherwise` | all else |

That the event source gives a throttled message up when its visibility timeout
ends is how the AWS service behaves and not in the repository. Of the two
timeouts only what `deploy/variables.tf:55` demands is assumed: the first is no
shorter than the second (`TimingAssumption`).

### `RasterCache` and the code

One warm container serves one bundle after another. Its state is what
outlives a job: `cached` and `raster` (the keys of `self.cache` and the
rasters under them), `shp` (the field in `field_boundary.shp`) and `tiles`
(the DEM tiles under `/tmp/dem`); `lost` and `posted` record what could not be
fetched and what was made, and no action reads them.

| Action | Code |
|---|---|
| `Invoke`, `Finish`, `Die` | `process_payload` up to its loop (new processor, wipe of `/tmp`); the handler's own wipe; a death that leaves `/tmp` as it is |
| `Build`, `SkipBuild` | `build_common_cache` up to `get_elev_raster`; `if self.cache: return` |
| `FetchTile` | `get_dem`: the tile on disk is taken, or it is fetched and clipped, or the failure is swallowed |
| `Merge` | `get_elev_raster`: no tile raises, one is used as it is, several are combined |
| `ClipField`, `ClipArea` | `clipped_raster`, then `watershed_raster` or its alias |
| `MakeMaps` | `watershed_common`'s r.watershed, once per bundle |
| `MissKey`, `Post` | a job function that reads its raster, clips it with the shapefile and posts |
| `Grid` | `rasterize_and_colorize`, which rewrites the shapefile |

The ground is a set of cells and each cell lies in one tile; a raster is the
set of the cells it holds data for, so nodata padding is absence. `get_dem`
clips a tile to the extent plus 0.003 degrees, here to the extent. Four
readers stand for the job functions, one for each raster they read. Tiles are
fetched in any order. Assumed of what lies outside: `rm -rf` wipes `/tmp`
(it is best-effort in the code), a failed `gdal.Translate` leaves no file
behind, and every tile of `TilesOf` holds a part of the extent (which tiles
the arithmetic chooses is `TileCover`'s subject). `JobPipeline` takes the
ending of a job as free; here it follows from the cache. `OwnGround` and
`LacksOnlyLost` are about uniform bundles, one field and one area; mixed
bundles run too, on the first job's ground.

### `Metering` and `HttpFront` and the code

`history` is what x402 has published; `cache[i]` is `_cache` of warm instance
`i`, a version and its `fetched_at`. `inst[i]` is what the instance does and
for which request, since when, and, while a fetch is under way, the version in
force when it began. `files[i]` says of which request's boundary each file
under `/vsimem` is made. `call`, `answer`, `decision`, `queued`, `stamp`,
`billed` and `shown` tell the story of each request: what was asked, what the
caller saw, what the gate decided and from which version, and what was done.

| Action | Code |
|---|---|
| `Send`, `Start`, `TurnAway`, `GiveUp`, `Die`, `Tick` | callers, API Gateway (its own timeout included), the Lambda service, the clock |
| `X402` | an edit of the catalog at x402 |
| `Aside` | OPTIONS, and `GET /prime` with its 502 |
| `GateAtOnce` | `gate` when metering is off, without a token, or while the cached copy is young |
| `Fetch`, `Fetched`, `FetchFails` | the refresh in `_get_config`: asked, answered with a version published since it was asked, not answered or not with a 200; then the decision |
| `Refuse` | 401, 403, 400, 422 |
| `Publish`, `Accept` | the stamp and `send_message`; the 202, or the 502 of an exception |
| `BuildVRT`, `Translate`, `DEMProcessing`, `Slurp` | the steps of `render_elevation`, each of which may raise into a 502 |
| `Report`, `ReplyRendered` | `report_usage`, recorded or not; the 200 |

A catalog is, for each gated route, its enforcement, and for each consumer
what x402 knows of it; `Permitted` is membership of the endpoint's slug.
`serve` and `serve_and_record` are one action with a consumer to record or
none. A credential is the consumer it stands for. A body is good, bad (the
400s) or large (the `ValueError`s of the sync route: too many tiles, no
coordinates). Time is counted in units of the instance's choice; nothing takes
an instance beyond `Budget` (`sync_lambda_timeout_seconds`, at most the 30 s of
API Gateway), and API Gateway may give a request up at any moment, since its
clock starts earlier. A kill by timeout takes the module globals and `/vsimem`
with it, as any death does. A send may leave no message, or several
(`boto3` retries), whatever it tells the handler. Left out: a base64 body that
cannot be decoded, paths other than the routes of `deploy/sync_http.tf`, jobs
that bring a `metering` block of their own (`LambdaEventBuilder` makes none),
and several credentials for one consumer.

### `TileCover` and the code

One behaviour is one request on one of the two paths. Coordinates are integers,
`Deg` to the degree, and a polygon is its envelope, which is all the code looks
at. `span` is the union the feature loops build, `box` the extent after the
buffer, `tile` the indices of the nested loops, `asked` the tiles in order.

| Action | Code |
|---|---|
| `Field` | `get_field_extent`: the first feature of the boundary, or an exception |
| `Feature` | one turn of `_watershed_extent`, or of `bbox_of_geojson` |
| `WorkerExtent`, `SyncExtent` | `build_common_cache`'s union of buffered field and analysis area; the padded bbox; then the ranges |
| `NoCoordinates` | the `ValueError` of a boundary without coordinates |
| `NextTile` | one turn of the inner loop |
| `Finish` | the loops are over; the sync path compares with `MAX_TILES` |

`RoundHigher` drops the sign before it rounds and `SyncLngs` negates before it
rounds, as the code does; that the two agree is part of what is proved.
`GroundAssumption` puts every box north of 9 degrees and west of 9 degrees
west, where all USGS tiles lie: south of the equator or on both sides of
Greenwich `_round_higher` would fold the two sides into one, and one-digit
latitudes are written differently by the two paths. Left out: coordinates with
fewer than two numbers, invalid JSON.

### `FlowLines` and the code

One behaviour is one call; each turn of a loop is a step. `terrain` holds the
arrays GRASS leaves and the field's mask, `pc` says which loop the call is in.

| Action | Code |
|---|---|
| `Rank` | the half-basins with cells in the field; with none, `return []` |
| `PickUnit` | the next by area, its divides, subsampled beyond the cap |
| `Start`, `Step` | `_trace_d8_path`: its start, one turn of its loop |
| `ScoreWalk` | the walk has ended: too short, or scored against the best so far |
| `Judge` | `min_line_length_m`; the record is appended, the best is reset |
| `EndUnits` | `max_lines` reached, or no unit left |
| `Heads`, `EndTrace`, `EndHeads` | channel heads and the trace from each |
| `Keep` | one turn of the choice of draws: new channel, corridor, `max_draws` |

Accumulations are whole numbers. Lengths are `Straight` and `Diagonal` units,
one per cell and about its root of two; the two options given in feet are a
score and a number of cells. Ties between areas are left to chance, as
`argsort` leaves them; ties between draws keep their order, as `sort` does.
Left out: the reprojection, GRASS, the vectorised zone (its failure is caught
and changes nothing else), the sampling of the profile, the geometry of the
records and `mfd_flowlines`' clip to the fence.

### `Profile` and the code

One behaviour is one profile on its way through `_simplify_profile` and
`_classify_profile_shape`. Points are named by their place; `spans` are the
stretches the recursion of `_dp_simplify` has still to look at, `kept` the
points it has returned, `round` and `eps` the loop that raises epsilon.

| Action | Code |
|---|---|
| `Begin` | fewer than two points: no segments |
| `Cut` | one call of `_dp_simplify`, leftmost first: split at the first farthest point, or keep the line |
| `Raise`, `Settle` | another round with 1.5 times epsilon; the cap holds, or 20 rounds are used up |
| `Merge` | the first short segment loses its end, or its start if it is the last |
| `Classify` | the segments' slopes and their shape |

Distances are compared as exact squares, so that no float is needed: `eps` is a
fraction, multiplied by 9/4 where the code multiplies its root by 3/2. Slopes
are rounded, ties to the even, to `Grain`. The branch for a degenerate line and
the skip of a segment without length cannot be taken, since lengths increase
along a profile (`ProfileAssumption`; `_trace_d8_path` visits no cell twice).

## Runs

All constants are in the `.cfg` files.

* **pipeline_bundle** - one message, any of nine bundles (every job family,
  before and after a sibling; a body that is no list; an empty list), two
  deliveries (the deployed `maxReceiveCount`), copies allowed, all five
  answers. `TypeOK`, `DeletedMeansAccepted`, `BilledOnlyLanded`,
  `BilledOncePerDelivery`, `SiblingsAttempted`, and the refinement
  `ImplementsContract` (`JobDelivery` without its fairness). Two jobs are
  enough to have a sibling on either side of a failure, two outputs enough for
  one accepted and one not; a third delivery would repeat the second.
* **pipeline_queue** - two messages and one execution, copies included:
  `Settles` and `KeepsContract` (`JobDelivery` with its fairness) under
  contention, where throttled receives use up deliveries, and
  `RejectedIsParked` over every reason a bundle has never to succeed: no list,
  an unknown function, a missing name behind a failed sibling. Outputs play no
  part, so the bundles have none.
* **pipeline_timed** - two messages, room for two executions, copies included,
  two deliveries; the worker may run for two units and a message is hidden for
  four: `AloneUnlessLate`, `HeldUnlessLate`. Two messages fill the executions,
  so that a receive of one is throttled and retried at any age; one unit late
  is harmless, two are the slack, three exceed it. TLC refutes
  both properties when the exception for a late start is taken out, the first
  also without the one for copies, and both exceptions begin exactly at
  the slack: with `>` in place of `>=` there is a counterexample. The bundle is
  empty, since an invocation may take any time over anything.
* **rasters** - two fields over two tiles, one field straddling them, one area
  reaching beyond its field, four uniform bundles that cover every reader,
  `grid` between two readers, with and without an area, and one mixed bundle;
  the container may be invoked for ever. `TypeOK`, `OwnGround`,
  `LacksOnlyLost`, `SharedRasters`. Two tiles are enough to lose one and keep
  one, two fields to find the ground of another. Deadlock is checked: the
  container can always go on or be invoked.
* **front** - one warm instance serves two requests of six kinds (both gated
  routes with and without a consumer, a large and a bad body, prime, OPTIONS)
  while x402 goes from one of three catalogs to another, over three points in
  time, with a TTL and a budget of one. The catalogs put each route under
  `monitor` and under `enforce`, permit and do not permit, know an inactive
  consumer, and leave a route unmetered. `TypeOK`, `EffectsAreDue`,
  `AnswerIsTrue`, `OwnRender`, `RecentCatalog`, `Answered`. Two requests are
  needed to find the cache or the files of the first, and one instance serves
  both in either order; two versions and three points in time are enough for a
  copy to be fetched, superseded and served at its age limit. Instances share
  nothing but x402, and the proofs are about any number of them. About 1.6
  million states.
* **tiles** - four units to the degree, every envelope over two degree lines
  each way with ends before, on and after each, as a field on both paths, four
  analysis areas (none, without geometry, one beyond the field, two with a
  feature without geometry between), no feature at all, two fields apart;
  buffers of one and two units and a limit of four tiles. `TypeOK`,
  `EveryPointCovered`, `NoIdleTile`, `NoTileTwice`, `LimitIsExact`,
  `SameFiles`, `Decided`. Two lines each way give one, two and three tiles in a
  row, the limit met and exceeded; the proofs are about any of them.
* **flow** - a grid of two rows and four columns, 192 flow fields with ways
  along, down, to and fro, off the map and into pits, the accumulation that
  each makes, one or two half-basins, a field unknown, partial or at the edge,
  options that stop early or never; five steps, a cap of two ridge cells, a
  corridor of one cell. `TypeOK`, `PathsSound`, `BestOfUnit`, `WidestFirst`,
  `DrawsDistinct`, `NoDrawLost`, `WalksBounded`, `Ends`. The caps are small
  enough to be met: walks are cut short, ridges of five cells are sampled,
  loops are closed, two draws are kept and others refused.
* **profile** - profiles of none, one, two, four and six points, along two
  spacings, with four falls between points; four options, from a cap of none
  to one never met; three rounds, epsilon squared 1/4. `TypeOK`,
  `WithinTolerance`, `MeetsBrief`, `ShapeOfCurve`. Every shape, an exhausted cap
  and a merge of the last segment occur.
* **claim_...** - four statements of the repository that the code does not
  keep; each run ends in the counterexample. See *Findings*.

`CHECK_DEADLOCK FALSE` in the runs of `JobPipeline` and `HttpFront`: once every
message is deleted or parked and every invocation has ended, once every request
is answered and the clock has reached its bound, nothing is left to do. In
the runs of `TileCover`, `FlowLines` and `Profile` a call that has returned
does nothing more.

**Fairness.** `WF(Serve(m))`: SQS and the event source keep polling
(`receive_wait_time_seconds`), so a message that stays visible is received or
parked, and a hidden one reappears. `WF(Execute \/ Ack \/ Die)`: an invocation
runs on until it ends, and the Lambda timeout ends it if nothing else does;
the event source acts on what it returns. Nothing makes the event source retry
what was throttled. Nothing is assumed of Django, x402,
copies, or of any particular outcome: an invocation that always dies is fair.
In `HttpFront`, `WF(Handle(i))`: a handler that runs takes its next step, and
each of its calls out has a timeout (`METERING_HTTP_TIMEOUT`, `boto3`'s and
GDAL's own); and `WF(TurnAway(r) \/ Start(i, r))`: a request that arrived is
given an instance or refused. Nothing is asked of the clock, of x402 or of API
Gateway's timeout. In `TileCover` and `FlowLines`, `WF(Next)`: a sequential
call runs on. `Profile` has no fairness and no liveness property.

## Proofs

`JobPipelineProofs` proves, for any set of messages and bodies, any limits and
any answers (assumptions `BodiesAssumption`, `QueueAssumption`,
`AnswersAssumption` of `JobPipeline`):

* `TypeCorrect`: `Spec => []TypeOK`
* `DeletionCorrect`: `Spec => []DeletedMeansAccepted`
* `BillingCorrect`: `Spec => []BilledOnlyLanded`
* `BillingOncePerDelivery`: `Spec => []BilledOncePerDelivery`
* `SiblingsCorrect`: `Spec => []SiblingsAttempted`

None of the last four is inductive. What a deletion stands for depends on what
the invocation knew when it returned, and that on what its loop had
established for each earlier job. The inductive invariant `IInv` has three
parts. `Typing` is `TypeOK` and the facts that tie an invocation's position to
its bundle. `AllSound` says, for each delivery, at each control point, what
the recorded answers and usage are: every job already passed and not in
`failures` had all its outputs accepted; the outputs before `out` are answered,
and the result carries an error marker if one of them was refused; usage is 0
from the current job on and at most 1 before it. `DeletedByAck` ties a deleted
message to a delivery that ended well. The proof has one lemma per group of actions:
`PostSound` (an answer moves the posting loop on), `ConcludeSound` (a job ends
without a postback), `ReportSound` (usage and the entry in `failures`),
`EndSound` (the invocation ends), and a frame lemma for the deliveries a step
does not touch.

`JobContractProofs` proves more theorems from the same assumptions, those about
the clocks from `TimingAssumption` as well:

* `AloneCorrect`: `TimedSpec => []AloneUnlessLate`, and `HeldCorrect`:
  `TimedSpec => []HeldUnlessLate`, for any timeouts. Nothing in the model
  forbids a message to reappear while it is worked on; that it does so only
  for the named reasons follows from the clocks, by the invariant `TInv`. `Clocked`:
  the age of an invocation's receive is `late` plus `ran`, until the age stops
  at the visibility timeout. `Spaced`: of two
  receives the earlier is a full visibility timeout old, unless the later one
  is of a copy. `Shown`: a message that is visible or parked has its latest
  receive that old. With `ran` at most the worker's timeout, an earlier
  invocation still at work began no earlier than the slack. `AtZero` and
  `TimersOK` say that a receive to come finds its timers at zero, and bound
  them.
* `TimedIsPipeline`: `TimedSpec => Spec`, so that every theorem about
  `JobPipeline` holds in time.
* `ContractCorrect`: `Spec => ImplementsContract`. Each step is described by
  what it does to the abstract state of the one message it is about (`About`,
  `MovedMaps`), and one lemma per action says which step of `JobDelivery` that
  is: `Publish` accepts, a receive, served or throttled, is a try, `Report`
  lands its job or stutters, `Ack` completes or stutters, `Park` parks, all
  else stutters. `ReportRefines` and `AckRefines` need `IInv`: that a job is not
  counted as landed and failed at once, and that an invocation that returned
  normally has left every job behind without a failure.

* `RejectedStays`: a message whose body is no job list, or that names a missing
  or unknown function, is never deleted. With `Settles` it can only be parked,
  which is `RejectedIsParked`.
* `StepsDescend`: every step takes exactly one message further in a
  well-founded order (`Advances`) and leaves all the others where they are
  (`Rests`). First come the receives left until `MaxReceive`; among equals, one
  delivery's invocation falls, by the stage it has reached (`Level`), its jobs
  and its outputs left; and with all invocations still, the message moves
  towards the end of the queue (`Place`). So each message takes finitely many
  steps, whatever fails.

What remains model-checked of `Settles`, and of what `KeepsContract` adds to
`ImplementsContract`, is the step from "every action brings it closer" to "it
gets there", which needs fairness and `ENABLED`. See *What is only
model-checked* below.

`RasterCacheProofs` proves, for any ground, any tiles and any bundles
(`GroundAssumption`, `NoneAssumption`, `BundlesAssumption` of `RasterCache`):

* `TypeCorrect`: `Spec => []TypeOK`
* `CacheIsShared`: `Spec => SharedRasters`
* `GroundCorrect`: `Spec => []OwnGround`
* `HolesCorrect`: `Spec => []LacksOnlyLost`

What is in the cache is decided two steps before it is posted, so the
invariant follows the ground from the disk to the artifact: a tile on disk is
all that the bundle needs of it (`TilesSound`, which the wipe in `Invoke`
establishes and which is why a leftover tile may be taken as it is), a tile no
longer to be fetched is there or lost (`FetchSound`), and each raster lacks
only lost ground (`RastersSound`). `Stage` ties the point reached in the build
to the keys in the cache: without it a build could overwrite a raster a
sibling has used, and `CacheIsShared` rests on it alone.

`HttpFrontProofs` proves, for any number of instances and requests, any
catalogs and edits, any TTL and budget (`MeteringAssumption`,
`CatalogsAssumption`, `CallsAssumption`, `FrontAssumption`):

* `TypeCorrect`: `Spec => []TypeOK`
* `DueCorrect`: `Spec => []EffectsAreDue`
* `AnswerCorrect`: `Spec => []AnswerIsTrue`
* `RenderCorrect`: `Spec => []OwnRender`
* `CatalogCorrect`: `Spec => RecentCatalog`

Its invariant has three parts besides the types. `Placed`: a request is on one
instance at most, which is why one handler's step leaves what was done for the
other requests alone. `Sound`: what has been done for a request follows from
its decision (`ReqSound`), and how far its instance has come says which of it
is done and which files are its own (`InstSound`); `OwnRender` rests on the
order of the steps alone, each making its file anew before the next reads it,
so leftovers do no harm. `Timed`: the version an instance holds was in force
within one request's time of its `fetched_at`, because a fetch installs nothing
older than what was in force when it was asked. Adding the TTL gives
`RecentCatalog`. One lemma per group of actions, over `GotoStep` and
`ReplyStep`, which say what a step to the next point and an answer need.

Two more theorems are `Answered` short of its fairness step. `CallsMoveOn`:
every step of a handler lowers `Ahead`, the steps it can still make, only a new
request sets an instance back, and no answer is ever taken back (`ToCome`).
`NoneStranded`: a running call is on an instance (`Held`), and an instance that
has a call finds a guard of `Handle` open (`Ready`). For the second the
invariant needs `Judged`: only calls of gated routes get past the gate, and
what is decided is decided one way or the other; a call that got to `decided`
by another route would be stuck there.

`TileCoverProofs` proves, for any resolution, buffers, limit and boxes
(`GroundAssumption`, `RequestsAssumption`): `TypeCorrect`, `CoverCorrect`
(`EveryPointCovered`), `NeedCorrect` (`NoIdleTile`), `NoTileTwiceCorrect`,
`LimitCorrect` (`LimitIsExact`), `FilesCorrect` (`SameFiles`). The invariant:
`SpanSound`, `span` is the hull of the features seen; `BoxSound`, `box` is the
hull of the windows, on the ground the tiles cover; `LoopSound`, the tiles
asked for are those of the grid before `tile`, row by row, and as many as its
place says; `EndSound`, at the end the whole grid. `StepsDescend` is `Decided`
short of its fairness step: features, then rows, then columns are used up. The grid is the same for
both paths by arithmetic (`Ranges`), and a point's tile is in it because
rounding up is monotone.

`FlowLinesProofs` proves, for any grid, terrains, options and caps
(`GridAssumption`, `TerrainsAssumption`): `TypeCorrect`, `PathsCorrect`
(`PathsSound`), `WidestCorrect` (`WidestFirst`), `DistinctCorrect`
(`DrawsDistinct`). The invariant follows a path from the walk under way
(`Onward` draws each next cell) to the best of its unit and to the record
(`PathInv`); keeps every unit not yet looked at no wider than those in the
records (`OrderInv`); and gives each draw its place in the order of length and
its own new cells (`DrawInv`). 
`FlowWalkProofs` builds on them:

* `BestCorrect`: `Spec => []BestOfUnit`, and `NoneLost`: `Spec => []NoDrawLost`.
  Both compare with `WalkFrom`, which follows the water as a recursive function
  of the cells visited. No theorem about what it computes by induction is
  needed: `Recursion` gives the function's own equation, and `WalkUnique` shows,
  by the least place at which they could differ, that a path that goes on as
  the code does, and stops where the code stops, is `WalkFrom` of its first
  cell. `BestInv` then says of each divide of the unit in hand that it is still
  to walk, is walked from, or did no better than the best so far. `HeadInv`
  does the same for the channel heads: still to trace, traced from, or known;
  then to be judged, kept, or adding too little, where a draw that adds too
  little to some draws adds no more to those kept after them (`NewShrinks`).
* `WalksAreBounded`: `Spec => WalksBounded`. The sample of every k-th divide is
  counted by the places of its members (`PlaceApart`, `PlaceOnto`,
  `SampleBounds`).
* `TurnsDescend` and `CallsGoOn` are `Ends` short of its fairness step: every
  turn of every loop lowers a well-founded measure, and until the call is over
  there is a half-basin, a cell or a trace to go on with (`WidestExists`,
  `EarliestExists`, `LeaderExists`).

`ProfileProofs` proves, for any profiles and options (`ProfileAssumption`):
`TypeCorrect`, `ToleranceCorrect` (`WithinTolerance`), `BriefCorrect`
(`MeetsBrief`), `ShapeCorrect` (`ShapeOfCurve`). `CutInv` says that stretches and kept points share their ends
and that each gap between neighbours is within epsilon, which is where the
first farthest point matters: a stretch that is replaced by its line has a
farthest point (`FarthestExists`, by the least counterexample), and with it all
others are within epsilon. `BriefInv` keeps both ends through the merges.

`ShapeOfCurve` relates a label read off rounded, neighbouring slopes to a chord
across the whole profile. `ShapeInv` says what the label's loops have found: no
bend of the wrong sign. So the slopes rise from segment to segment
(`SlopesRise`, `SlopesFall` for a concave profile), and the ground before a
point rises by no more, and that after it by no less, than the slope at the
point would have it (`ChordRise` and `ChordFall`). `Lever` puts the two
together at the point; rounding moves each slope by half a grain at most, which
is the slack the property allows. `StepsDescend` and `CallsGoOn` show that
the simplification ends: rounds, stretches and points are used up, and it
never stops for want of a next one.

### What is only model-checked

Every invariant and action property that the passing runs check has a theorem
above. Liveness has not: `Settles`, `RejectedIsParked`, `Answered`, `Decided`,
`Ends` and what `KeepsContract` promises beyond its safety part rest on
fairness and `ENABLED`, which the prover does not handle. What it does handle
is proved of all of them: `Settles` and `Decided` descend in a well-founded
order; so do `Answered` and `Ends`, for which it is also proved that a next
step is always possible. The guards written out for that (`Ready`) were
compared with TLC's `ENABLED` on the instances the runs use.

## Findings

Each is a run that TLC refutes; `PROJECT.json` quotes the statement.

1. `claim_billed_scalar`: a scalar (or `rasterize_and_colorize`) postback's
   status is never judged, so a rejected one is billed and deleted.
2. `claim_billed_once`: a job is billed once per delivery, not once.
3. `claim_sibling_denied`: a build that failed half way is never repeated, and
   the siblings fail with a `KeyError`.
4. `claim_inverted_shape`: slopes are negative downhill, so a hillslope that
   flattens is labelled convex and one that steepens concave, the opposite of
   `docs/flowlines-feature.md:88-89`. `ShapeOfCurve` says what the labels do mean:
   whether the profile, as a function, is convex.

The deployed timeouts leave 60 s (960 less 900, `deploy/variables.tf`): an
invocation that was throttled, and begins 60 s or more after its receive, may
still run when its message is delivered again or parked. `AloneUnlessLate` and
`HeldUnlessLate` hold with this excepted; the advice quoted in
`deploy/variables.tf:55`, six times the function timeout, would leave room for
a late start.

Known limits, which the models contain and no run asks about: `resp.ok` holds
for a 3xx and redirects are not followed, so that a message may be deleted with
nothing stored; timeouts, throttled receives and lost deletes park a message
the handler never reported (`deploy/main.tf:35-36` says otherwise); a 502 does
not mean that the jobs were not enqueued; a render that raises leaves its
in-memory files behind; `max_draws` 0 still gives one draw, and a field without
half-basin cells gets none (`DrawsDistinct` and `NoDrawLost` except them);
`rank` orders hillslopes by their unit's in-field area, where
`docs/flowlines-feature.md:81` speaks of the largest contributing area.

Two more disagreements show in the passing runs, whose properties are stated
around them: a job without `function_name` abandons the siblings after it
(`SiblingsAttempted` excepts it; `app/geoworker.py:1329-1330` says all are
attempted), and a DEM that lacks a tile is posted as the whole
(`LacksOnlyLost` allows what was lost; `app/geoworker.py:286` says it covers
the extent).

## Plan

1. `JobResult`, `JobDelivery`, `JobPipeline`, `JobTiming` and the theorems above
   (done).
2. `RasterCache` and its theorems (done).
3. `Metering`, `HttpFront` and their theorems (done).
4. `TileCover` and its theorems (done).
5. `D8`, `FlowLines`, `Profile` and their theorems, those about the recursive
   walk and the shape included (done).
6. Composition of `HttpFront` with `JobPipeline`: a caller's retry after a 502,
   from the request to the usage event, against an *admission ledger* as the
   abstract specification.
7. The proof that the pipeline implements `JobDelivery` (done).
8. Termination, short of the fairness step: `StepsDescend`, `CallsMoveOn`,
   `TurnsDescend` (done).

## Not modelled

Pixel arithmetic (`geocolorize`, `color_schemes`, `reducers`),
what GDAL and GRASS compute, deployment scripts, examples.
