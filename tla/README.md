# A model of bahnfrei

bahnfrei runs athletics meets: one Go server over one SQLite file, officials'
tablets that capture results at the pits with or without a connection, a
competition office that seeds, announces and corrects, and a public page. This
directory holds TLA+ modules of the parts whose correctness depends on the order
in which several people and machines act, TLC configurations that check them on
small instances, and proofs for every instance.

## The system, part by part

State in *italics*; "hard" names what a test hardly reaches.

| Part (source) | State and operations | Hard |
|---|---|---|
| Offline checkout (`app/sync.go` 25-167, `store/checkout.go`, `web/sync.go`) | *one row of unit_checkouts per unit*: holder, token, generation, start-list version, active. Ensure, take, re-take, override, revise the start list, release | reads and guarded writes are separate statements; the stamp a device gets is read after the write |
| Replay and reconciliation (`app/sync.go` 169-590, `store/checkout.go`, `store/attempt.go`) | *attempts* (versioned trials), *capture_ops* (the ledger), *reconciliation_items*. Replay a batch, resolve an item, capture online, announce | each capture is five statements with anything in between; batches are redelivered, delivered twice at once, cut off |
| Offline capture island (`islands/src/capture-offline.ts`) | *IndexedDB queue and stamp*, per page: the flush lock and its note, retry timer. Capture, flush, check out, start up | one thread but every await yields; tabs share the store, not the lock |
| Field and track results (`app/capture.go`, `store/result.go`) | *results*, *attempts*. Save a trial or a time, mark the rest DNS | checks read before the transaction; a trial resettles the result |
| Announcement, correction, wind (`app/protest.go`) | *announcements*, *unit wind*, *results* | a correction reads what it replaces outside its transaction |
| Vertical jumps (`app/verticaljump.go`, `store/verticaljump.go`, `domain/vertical.go`) | *vertical_unit_config* (heights, version), *vertical_trials*. Set heights up, extend, record, rank | results hold a height found by an index into a list read earlier |
| Timing exchange (`app/exchange.go`, `store/timingexchange.go`, `cmd/bahnfrei/timingagent.go`) | *batches*, *rows*, *conflicts*. Import, resolve | re-imports, conflicts with manual results, half-applied files |
| Public page cache (`web/publiccache.go`, `web/public.go`) | *entries with an expiry, one shared build per page*. Get or build, invalidate | a build that started before an invalidation ends after it; a build's failure is everybody's |
| Live updates (`web/sse.go`, `web/server.go`, `web/static/public-live.js`) | *subscriber channels*, what a page shows. Subscribe, publish, cancel, fetch | full buffers; answers out of order |
| Accounts and sessions (`app/auth.go`, `app/session.go`) | *accounts, sessions*. Bootstrap, invite, disable, demote | the last admin |
| Check-in and entries (`app/checkin.go`, `app/entry.go`) | *entries with a status*. Confirm, reinstate, close | closing is one transaction per entry |
| Seeding (`app/seeding.go`, `domain/heatseeding.go`, `store/seeding.go`) | *unit_entries*: unit, lane, override, version. Seed, reseed, move | pool and overrides are read before the transaction; lanes are unique per statement |
| Progression (`app/progression.go`, `domain/progression.go`) | *unit_entries*: the qualification code. Advance, decide by hand | ties; results and rows that change meanwhile |
| Scoring, records, categories, eligibility, combined events (`domain/`) | none: functions | rounding and boundaries |
| Imports, OMX, series upload, privacy, templates, backup, migration, PDF, pages | files, forms, single transactions | - |

The parts meet in the database. The store opens SQLite with one writer
connection, so a transaction is atomic and transactions are serial; everything
else, a read followed by a transaction above all, interleaves. A capture's way
through the system is: island (queue) -> `POST .../sync` -> replay -> `SaveFieldAttempt`
-> ledger -> answer -> the island deletes it.

What makes the parts correct: a lock has one holder and its stamps tell who; a
captured trial is stored once or put before the office, and never lost; the
queue empties in order without help; an announced result changes only by an
audited correction; an import never silently overwrites; a cached page comes to
rest on the latest state; a heat sheet seats its pool and leaves overrides alone;
those who go on are those the rule names, and a decision about them stands.

## Modules

| Module | Models | Proofs |
|---|---|---|
| `CheckoutLock` | the checkout row and the requests on it | `CaptureSync_proofs` |
| `CaptureSync` (extends `CheckoutLock`) | replay, ledger, reconciliation, online capture, announcement | `CaptureSync_proofs` |
| `CaptureQueue` | the island's queue, on any number of pages of one browser | `CaptureQueue_proofs` |
| `UnitResults` | captures, bulk DNS, timing imports, announcement, corrections and wind on one track unit | `UnitResults_proofs` |
| `FieldUnit` | trials, bar heights, results, standings and the cut of one horizontal or vertical unit | `FieldUnit_proofs` |
| `LivePage` | the public results page: writes and their hook, cache, bus, browsers | `LivePage_proofs` |
| `HeatSheet` | check-in and one round's heat sheet: generations and overrides | `HeatSheet_proofs` |
| `RoundProgress` | who goes on from a round: AdvanceRound, decisions by hand | `RoundProgress_proofs` |
| `CaptureDelivery` | the promise both ends keep, as an abstract specification | in `CaptureQueue_proofs` and `CaptureSync_proofs` |
| `RankingFacts` | nothing of the code: sorted lists, counts and ties, for the proofs | itself |

The `MC` modules hold what an instance needs beyond its cfg. An operator called `Name_Bug` next to a definition `Name` is that definition
with a plausible bug; it is what a property was tried against, and is used by
nothing.

**CheckoutLock.** `checkout` is the row (`version = 0`: no row), `calls` the
requests in flight, `granted` the stamps handed out (history). `CheckoutRead`
is the `GetCheckout` that begins `CheckoutUnit` with its three outcomes (refuse,
hand back what is held, go on); `Create` and `Reassign` are the guarded writes
(`GuardFails` when the row version moved); `Reread` is the `GetCheckout` that ends
both store functions. `OverrideCheckout` and `ReviseStartList` are transactions
and single steps. `ReleaseCheckout` exists in the code, with tests, but no route
calls it: the constant `ReleaseRouted` puts it in use.

**CaptureSync.** A request walks through `lookup`, `checkout`, `check`, `save`,
`record` or `route` for each capture of its batch, one step per statement or
transaction of `replayOne`, `applyReplayOp` and `routeReconciliation`; `Abort`
ends it anywhere, keeping what was committed. A value is a *raw* spelling and
`Canon` the spelling validation stores. `OnlineCapture` and `ResolveRead` start
the other writers of a trial. `acked`, `stored` and `replayed` are history.
Left out: parsing and size limits of a batch, the result and points quoted in an
answer, wind (part of the value compared), and the resettling of the result,
which no property of this module reads.

**CaptureQueue.** `stamp` and `queue` are IndexedDB; `pages` says, per page,
where the start-up function and `flush()` stand, what `flushAgain`, the retry
timer and a pending `online` event hold. The code between two awaits is one step.
The server is reduced to the verdicts a device can see and goes on working off a
batch whose page has gone. Abstractions: op ids are numbers in capture order (they
are ULIDs); the back-off's length is nothing but "later"; `navigator.onLine` is
the link layer and is independent of whether the server answers; a checkout
refused with 409 is the server state "refusing"; the two reads that open
`ensureCheckout` are one step; IndexedDB completes one page's
transactions in the order they were issued.

**CaptureDelivery.** A capture is held by the device until it has been decided,
once. `CaptureSync` implements it with `held` = captured and not yet answered,
`CaptureQueue` with `held` = the IndexedDB queue.

**UnitResults.** `results` holds a row per athlete (mark or status, wind, source),
`wind` the unit's reading, `announced` and `official` the announcements and
the protest window of the latest, `conflicts` the queue of rows an import could not place.
Every request (`calls`) is a sequence of steps, one per statement that reads what
decides it and one per transaction:

| Request | Steps |
|---|---|
| `SaveTrackResult` | `requireNotAnnounced`, `ReadWind`, `Write` |
| `BulkMarkRemainingDNS` | `requireNotAnnounced`, `UnresultedEntries`, `BulkDNSOne` per athlete |
| `ImportTimingFile` | per row `ImportRow`, `ReadExisting`, then `QueueManual` or `ReadWind` and `Write` |
| `ResolveTimingConflict` | `Merge`, `ReadState`, then a correction or `ReadWind` and `Write`, then `Settle` |
| `CorrectResult` | `CheckWindow`, `ReadBefore`, `Amend` |

`AnnounceUnitResults` and `SetUnitWind` are single transactions; `WindowElapses` is
the clock of `ComputeProtestState`. `Abort` ends any request between two steps.
`written` is history: the conflicts whose row has reached the results. Abstractions: a mark
stands for a time with its timing method; "keep" and "discard" settle alike and
are one resolution; the conflict a request reads is immutable but for its status,
so reading it is no step. Left out: points, record flags, lanes, the audit log, and the
row version of `SaveTrackResult`, which no route passes.

**FieldUnit.** `trials` holds per athlete a row per place of the series (trial number, or
3 * height index + trial number), `heights` the `vertical_unit_config` row, `results` who wrote an
athlete's row last (nobody, a settled series, the office) and what, `announced` whether
capture is closed. A capture is `SaveTrial` (the checks), for heights
`ReadHeights` (the `GetVerticalUnitConfig` before the transaction) and `Save` (versioned
trial, and result settled from the series). A heights form is a request too: it holds what
its page showed from `OpenHeightsForm` until `FirstHeights` or `AddHeight` sends it, and `SetHeights` is the
transaction. `Ranks` is the code's ranking (sort, then compare with the
neighbour), `Beats` in the properties the rule (who reached a distance more often; the
countback). `Reconciled` is what `fieldStandings` makes of a series and a
corrected result. Abstractions: a mark is its number of centimetres; DNS stands for the
statuses only the office gives (DNS, DNF, DQ); ties in the listing are broken
arbitrarily, the code does it by athlete id. Left out: points, record flags, wind per
trial, lanes, and `Eliminated`, which is shown and never enforced. `OneFirstForm` is a
convention of the office and not of the code: no two set-up forms are open while a
unit has no heights. Without it a stale set-up form replaces the progression (below).

**LivePage.** A page's content is how many committed writes it shows (`db` counts them).
`Commit` is any service's transaction; its hook is `Invalidate` and `PublishResults`, two
steps because the cache and the bus have a mutex each; `CommitUnhooked` is a write without a
hook (a meet's data, erasure). `entries` is the cache, `flights` the singleflight
call of each locale, `calls` the requests: `Lookup`, `Join`, then the flight's `Recheck`, `Build` (the
read of the standings), `Store`, `Finish`. `subs` are the channels of the bus, `shows` the
browsers. `overtaken`, `announced`, `published` and `heard` are history. `BuildFails` is a failed
read, which a cancelled first request causes; `Restart` empties all memory. Abstractions: the read of a build is one
step; five seconds are "some time", so `Expire` may come at any moment; a request taken
by a browser and its answer are lost in one step. Left out: the `?q=` pages, which bypass the
cache, and the capture page, which uses the same bus.

**HeatSheet.** `status` and `closing` are check-in (first round), `coded` the previous
round's qualifiers (later rounds), `rows[u][e]` the `unit_entries` rows. A generation is `ReadPool`,
`ReadRows` and `GenCommit`, the transaction, which deletes, clears and saves by the
sheet it read and by whatever the rows have become. `Collides` is the unique index
on unit and lane, checked as each row is saved. `SeedHeats` is the serpentine with
the club exchanges of `separateClubs`, pair by pair. An override is a form (`OpenForm`: entry
and version of the page) and one transaction, with the swap of lanes. Abstractions:
a fixed ranking without ties in place of marks; lanes by lot for the grouped tables too, a
superset of their draws for a field no larger than the lanes; units in the order of their ids. Left out:
`ReleaseManualOverride`, which nothing calls.

**RoundProgress.** `rows` has each entry's code and row version, `results` the settled
results, which `Correct` changes at any time. `Begin` reads the rows, `ReadHeat` a track
heat's results, `ReadResult` a field entry's, `AdvanceCommit` is the transaction; `Decide` and
`DecideCommit` are ManualAdvance. `Regenerate` is what a generation does to the codes. The rules are
`Outright` (Q: the first of each heat, or the standard) and `ByMark` (q: by cutoff, with the tie that does not
fit). A mark is a number; the place of equal times is by athlete id, as in `trackStandings`. Left out: the
audit entry and the hook, which is `LivePage`'s.

## Runs

| Run | Question | Instance | Result |
|---|---|---|---|
| `checkout_lock` | can the stamps and the lock disagree, can anybody but the office take a held lock? | 2 accounts (one the office), 2 devices, 2 requests at once, 4 writes of the row, release in use | holds, 2.4 M states |
| `sync_race` | two deliveries of a capture against an online capture, an override, a revision | 1 capture, 2 values, 2 requests, 1 online writer, 2 writes of the row, 2 versions of the trial | holds, 3.5 M states |
| `sync_batch` | batches of 2 cut off anywhere and redelivered, two resolutions at once | 2 captures, 2 cells (one of an unregistered athlete), 4 spellings (two of one mark, one invalid), 2 resolvers | holds, 1.2 M states |
| `queue_one_page` | can the island lose or reorder a capture, or fall asleep on a full queue? | 1 page, 2 captures, 2 generations, all three server moods | holds, 2.1 M states |
| `queue_drains` | does the queue empty? | 1 page, 2 captures, 1 generation | holds, 0.23 M states, liveness |
| `unit_results` | does an announced list change behind the office's back, do imports and bulk DNS lose a result? | 1 athlete, 2 requests, 1 mark and DNS, 1 row per file, 1 queued row, 2 announcements | holds, 4.4 M states |
| `unit_wind` | how can a mark disagree with the unit's wind? | 1 athlete, 2 requests, 2 readings, 1 row per file | holds, 0.16 M states |
| `field_unit` | do results follow the trials and the heights, whatever was in flight? | 1 athlete, 2 requests, 3 marks, 4 progressions of up to 3 heights, 2 captures, 3 writes of the heights, 1 correction | holds, 0.65 M states |
| `field_series` | do rankings, standings and the cut say what the rules say? | 2 athletes, 3 captures, 2 marks, 2 heights, cut after 1 trial to 1 athlete, 1 correction | holds, 0.79 M states |
| `live_page` | what can a page show after an event, and does the cache come to rest? | 1 viewer, 1 locale, 3 requests, 2 writers, 2 writes, 1 timetable event, buffers of 2 | holds, 0.18 M states, liveness |
| `heat_sheet` | who is seated where when generations, overrides and check-in overlap? | 4 entries, 2 maps of clubs, 2 requests of the office at once, heats of 2 with lanes or of 4 without, 2 generations, 1 override, 1 change of the pool | holds, 0.5 M states |
| `round_progress` | do the right athletes go on, and do decisions stand? | 2 heats of 2, 2 marks, 2 rules each for track and field, 2 calls, 1 decision, 1 correction, 1 generation | holds, 2.3 M states |

The bounds are the smallest at which every race of the code occurs: two requests
are a race, a third repeats one of them; one override separates an old from a new
holder; a trial needs two versions to have a conflict; two captures have an order.
Requests on different athletes of a unit meet in the announcement, the wind and
the queue only, so two requests on one athlete race in every way two requests can.
On a field unit a re-capture takes two captures and a race with an extension two requests; three
heights tell an appended one from a replaced one; ranks of two athletes are decided by up to
two marks each or tied, which separates a missing from a worse second mark.
A fetch can be overtaken by one write and its page made older by a second; three requests are one
that builds, one that joins and one that comes later; a buffer of two drops with three events. Four entries are the
fewest in which a serpentine of two heats turns and club mates can be exchanged; two generations make a
first sheet and a reshuffle, and race. Two heats of two with two marks have every tie
at the last place, within a heat and across heats.
Two announcements separate a window that elapsed from one reopened. Versions, generations and tokens only grow and are only compared, so more of them
add no case. The proofs below do away with the bounds.

**Deadlock** is checked everywhere but in `heat_sheet` and `round_progress`: captures, requests and
pages can always be aborted or reopened. Those two end when the bounded number of generations,
overrides, calls and corrections is used up, which is the office's work done.

**Fairness** of `live_page`: weak fairness of the steps of a build and of a request (goroutines and
HTTP requests run), and of expiry (time passes). Nothing is assumed of viewers, writers, deliveries
or connections, and builds may fail for ever.

**Fairness** of `queue_drains`: weak fairness of every handler of a
page that is ready to run, of the retry timer, of the answer to a request when
the link is up and the server serves, and of the server working off the batch a
page waits for. This is the browser's event loop and an HTTP request that ends.
Nothing is assumed of the network, the user or the office: `Drains` supposes
that link and server are good from some time on, which is the statement's premise. `Drains`
excludes, by name, the two ways the code has of giving up: a batch refused with 4xx
(`stopped`) and the forgotten wake-up below (`again`).

## What is proved

Each theorem is for all values of the constants, under the ASSUMEs of the module
(`Canon` maps valid values to valid ones and is idempotent, `"none"` is no item,
DNS is a status, an unknown bib is no athlete, bounds are naturals; entries and athletes are finitely many,
the ranking a pool is seeded by numbers its entries apart, athlete ids are in a total order, and a mark that counts is a positive number).
Some theorems about `FieldUnit` name a further hypothesis, a convention of the office: `OneFirstForm`, and for one theorem `BarNeverGoesDown`; each is named with the theorems it serves.

- `CaptureSync_proofs`, on the lock: `LockTypeOK`; `StampsAgree`; `OnlyOfficeTakesOver`;
  `GenerationCountsHandovers`. The inductive invariant `LockInv` adds that token
  and generation of the row and of every stamp both count the hand-overs
  (`HandoversCounted`), and that while the version a request saw is the row's, the
  lock it is about to take was free or its own (`ReadersAreRight`).
- `CaptureSync_proofs`, on the replay: `SyncTypeOK`, `AnswersAreBacked`, `LedgerIsTrue`,
  `ReplayWritesOnce`, `AppliedItemsWereStored`, `DecisionsAreFinal`, `ResolvedOnce`,
  `StaleBatchNeverWrites`, and that the server implements `CaptureDelivery`.
  The inductive invariant `SyncInv` adds what no property says and every one
  needs: a capture was made against a version its trial has had
  (`CapturesAreSeen`), so a conflict means the trial holds something; a replay that wrote moved the
  trial past that version (`ReplaysMoveOn`), so no redelivery writes again; what
  a request is about to record is already true (`RequestsAreSound`); a stamp that
  was ahead of nobody when the batch arrived stays behind (`StampsInOrder`).
  `SyncGrows` (trials, ledger, items and stored values only grow) carries every
  such fact over the steps of the others, so each action is examined once.
- `CaptureQueue_proofs`: `QueueTypeOK`, `DecidedInOrder`, that the queue with any
  number of pages implements `CaptureDelivery`, and `QuietMeansDrained` for one
  page. `KeptInv` says that what a page is about to delete, and every capture a
  sent batch left out before it, is decided; `Awake` that a page with captures
  queued has something that will call `flush()`.
- `UnitResults_proofs`: `ResultsTypeOK`, `AnnouncementClosesTheList`, `OfficialNeedsEscalation`,
  `DNSOnlyFillsGaps`, `ImportLosesNothing`, `ConflictsSettleOnce`, `WindDisagreesOnlyLate`,
  for any number of athletes and requests and files of any length. `ResultsInv` adds which
  requests get to a step, that an import past its checks holds the first row of its
  file, and that a resolution settles a replacement only after its row was stored. The
  action properties then rest on a few lemmas: which steps store a value (`WhoWrites`) or
  touch the queue (`WhoQueues`), and from where a request can become cleared to write (`WhereNext`).
- `FieldUnit_proofs`: `FieldTypeOK`, `RanksCountTheBetter` and `CutIsFair`; assuming `OneFirstForm`, `HeightsOnlyGrow`
  and `ResultsFollowTrials`; and with a bar that never goes down `StandingsShowResults`. `FormsInv` says that what
  a heights form has shown is a beginning of the progression, the whole of it while the row has
  version 1, and that from version 2 on the version is the length: so a form is
  accepted only if it showed everything. `ReadersInv` says the same of captures, and
  `SettledInv` that every height a result rests on is in the progression.
  The ranking is proved in four steps. The i-th best distance is at least m just if i trials were (`OrderStatistic`),
  so the first place at which two sorted series differ and the best distance they did not reach equally
  often tell the same (`BeatsIsAhead`). Either comparison is a strict weak order (`SeriesOrder`), so a sorted listing exists, and
  the rank copied from the neighbour or taken from the position is one more than the number of those ahead
  (`RanksCount`). The cut follows by counting who is not behind the last who fits (`CutCounts`).
  `BarNeverGoesDown` is a hypothesis of `StandingsShowResults` only, for heights: the code does not enforce it (22 below).
- `LivePage_proofs`: `LiveTypeOK`, `StaleOnlyOvertaken`, `NewestIsPending`. `LiveInv` says for writers, cache,
  builds, requests and channels what each knows of the writes announced so far: an entry or a build
  not overtaken shows at least what the cache was last emptied for (`EntriesInv`, `FlightsInv`), a request's
  event is no newer than that (`CallsInv`), and the events a viewer has pending are in order, with only
  timetable events behind the newest (`SubsInv`), so a full buffer drops the newest only after as many
  timetable events as it holds.
- `RoundProgress_proofs`: `ProgressTypeOK`, `DecisionsStand` and `QualifiersAreFair`. `ProgressInv` adds `ReadingsTell`: while a row has
  the version a call has read, it is the row the call has read. Rows only move on (`RowsMoveOn`), so a decision
  between reading and writing makes the transaction fail. Who is q is compared with the rule by counting those
  with a better mark, ties at the last place included.
- `HeatSheet_proofs`: `HeatTypeOK`, `ReshuffleNeverCollides`, `HeatsAreFair`, `OverridesStand`, `SeatsThePool`. `HeatInv` adds
  that a seat nobody has is empty (`Filled`), and that a generation under way has somebody to seed, in heats the round
  can get, and goes by a sheet whose units the round still has (`GenerationOK`). `HeatsAreFair` says of the serpentine, and of each round of the
  club exchanges, that the heats stay even and no clubmates are brought together; the exchanges are a recursive
  function, so what holds of all its rounds is shown by the least round at which it fails.
- `CaptureDelivery`: the abstract promise `NothingLost`, which `QueueLosesNothing` and `ServerLosesNothing` carry over
  to the two ends through their refinements.

Three things serve several of these. *Induction*: over numbers it is the least element of a set of
counterexamples (`LeastNatural`), from the well-foundedness of the naturals; a recursively defined function exists
because its values up to each argument do (`RecursionExists`). *Sorting*: a finite set in a weak order has a listing
(`ListingExists`), because its ties can be parted into a total order in which the position of each element counts
those ahead. *Counting*: who is ahead has fewer ahead (`FewerAhead`), and among any k of a set one has fewer
than k ahead and at least k not behind (`TheLastWhoFits`), which is all that a quota or a cut with ties needs. They are in
`RankingFacts`.

The theorems about `GenerationCountsHandovers`, `DecisionsAreFinal`, `ResolvedOnce`, `DNSOnlyFillsGaps` and
`ConflictsSettleOnce` are proofs of properties no run repeats.

Only model-checked: liveness (`Drains`, `ReopeningDrains`, `CacheSettles`, `FetchesEnd`), since TLAPS has no
reasoning about ENABLED here. Every other property of every run is proved. Two pages on one queue are covered by the theorems,
not by a run. `QuietMeansDrained` is a one-page property: with two, a page can be quiet
while the other's flush is on its way.

## What the code does not keep

Sentences of the repository that some behaviour of the code contradicts. Four have a
configuration of their own that ends in the counterexample:

    tlc -config QueueForgets.cfg MCCaptureQueue
    tlc -config FieldForm.cfg MCFieldUnit
    tlc -config UnitMerge.cfg MCUnitResults
    tlc -config HeatDouble.cfg MCHeatSheet

1. `DrainsUnaided` (`capture-offline.ts:502`; UC-034 #2: "automatically and in order with
   no operator action"). A flush that finds the link down awaits the indicator with
   its lock taken; the `online` event sets `flushAgain`, which only the normal end reads.
   The queue waits for the next capture or reload.
2. `FreshFormIsCurrent` (`web/verticaljump.templ:58`; `web/verticaljump.go:309`: "configures (first time)
   or extends (jump-off)"). The form that adds a height sends the number of heights as the
   version of the row, which is 1 after the set-up of any number: a jump-off height is refused as a conflict on
   every unit that was set up with more than one height.
3. `MergeErasesNothing` (`app/exchange.go:824`; "existing's non-blank fields are never
   overwritten"). On an announced list a merged row with a mark and a status goes
   through `CorrectResult`, which keeps the status only. No second request is needed.

4. `ExtraUnitsAreEmpty` (`app/seeding.go:396`; `store/seeding.go:161`: "extra units simply receive no
   assignments on the next regeneration"). A seat is saved per unit and entry and deleted only when the entry left the
   pool. An athlete whose heat changes keeps the old seat, so a heat the new sheet does not need keeps its
   athletes. `SeatedOnce` fails with it: two lanes, and later an override that moves one of them.

More are stated in the modules and fail likewise; put the name in a cfg of the module to see the
trace.

5. `RedeliveryIsNoConflict` (`app/sync.go:373`; "the marker that a version conflict is a
   harmless re-delivery"). "6.1" is stored as "6.10"; a crash before the ledger entry;
   the redelivery compares "6.10" with "6.1" and goes to reconciliation.
6. `NeverRestampsQueued` (`capture-offline.ts:669-694`; "Never re-stamp while captures are
   queued"). Start-up finds a stamp and an empty queue, asks for a checkout, a capture is queued meanwhile,
   the new stamp is stored.
7. `DiscardedMeansUnwritten` (`app/exchange.go:829`; "drop the row, nothing was or will
   be written", "the store layer refuses a second resolution"). The store refuses it
   after the row was written: `ResolveTimingConflict` does not look at the conflict's status.
8. `OnlyHolderWrites` (`app/sync.go:285`; the comment at 296-301 says of a superseded
   device "route it to reconciliation, never apply"). `replayOne` reads the checkout,
   the office overrides it, `SaveFieldAttempt` commits. What does hold is
   `StaleBatchNeverWrites`.
9. `OneHolder` (`store/checkout.go:71` and 91; SYS-086: "at most one device/account at a
   time"). The write of a checkout and the `GetCheckout` that returns it are two
   statements: after an override in between the old device is handed the new token.
10. `CaptureResumesElsewhere` (`app/sync.go:99`; UC-034 #5: "then capture resumes on another device").
   The override makes the office's account the holder, so an official's
   replacement device gets 409.
11. `RefusedMeansNotApplied` (`app/sync.go:322`; `sync/doc.go:143`: "absent for
    reconciliation/rejected, where nothing was applied"). Stored, crash before the
    ledger entry, override, redelivery: reconciliation.
12. `OneItemPerOperation` (`app/sync.go:259`; `capture-offline.ts:496` calls "a duplicate
    reconciliation item for one captured trial" a bug that its lock closes). Two
    deliveries at once, from two tabs or a reload during a flush, both find no ledger entry and both insert an item.
13. `HeightsOnlyGrow` with `OneFirstForm = FALSE` (`app/verticaljump.go:60-65`: heights "may only be
    appended, never reordered or removed - enforced below"). The check is skipped for version 0, and the
    store then replaces the row: a set-up form opened before another one was saved
    overwrites it, and trials recorded meanwhile point at other heights, or at none
    (the next capture then indexes past the end, line 198).
14. `VerticalStandingsShowCorrections` (`app/verticaljump.go:354`; UC-015 #2: "placings ... reflect the
    change"). Vertical standings rank what was captured; only horizontal ones
    are reconciled with a correction.
15. `TheCutStands` (`app/capture.go:593`). The cut is taken anew from all trials so far, so of two athletes
    who made it with a tie one can fall out when the other improves afterwards.
16. `LiveFetchIsFresh` (`web/publiccache.go:127`; `web/public.go:525`: the cache "is invalidated by that same event
    (server.go) before any client's live-refresh fetch can land, so this never serves a stale render for the
    update it is proving"). A build that has read the database before the write is stored after the invalidation, or
    is joined by the fetch. It is served for up to five seconds, to everybody; what holds is `StaleOnlyOvertaken`.
17. `PageNeverGoesBack` (`web/static/public-live.js:24`). Of two fetches under way the answer that comes last stays
    on the page, until the next event.
18. `OverridesAreKept` (`app/seeding.go:252`; line 521: "a later regeneration leaves it in place"). An override
    committed after a generation has read the sheet is seeded over, and unmarked when the athlete stays in the heat.
19. `NobodyIsStillRunning` (`app/progression.go:256`; line 45: "advancing before the round has finished would silently
    award qualification on incomplete data"). One result makes a heat complete.
20. `OpenSlotsAreReported` (`app/progression.go:118`). The first code given to one of several tied athletes hides the tie,
    also when it was about more than one slot.
21. `QuotaIsKept` (`app/progression.go:137`). A second call after a correction gives its own codes next to the first's:
    more athletes have q than the rule has slots.
22. `StandingsShowResults` with a progression that falls (`domain/vertical.go:102`: BestHeightIdx is "the index of the highest
    height the athlete cleared"; `app/verticaljump.go:273`: heights "ascending"). Any height is appended, a jump-off's
    lower one too; whoever clears it has the higher index and the lower mark, and ranks ahead with it.

Also seen, with no statement against it: an item can be discarded while another
official's apply of it has stored the value (`app/sync.go:527-552`); a manual result stored
between an import's look and its write is overwritten (`app/exchange.go:504-519`);
`SetUnitWind` changes the wind of announced results without a correction
(`app/protest.go:131`); a blank .lif row of a known athlete overwrites an earlier
import's result with a blank one, which the bulk DNS then takes for a result; trials after retirement or elimination are accepted;
the cut waits for athletes who never show up. On the heat sheet: a scratched athlete's override still keeps its
lane from the draw that removes it; overridden athletes count towards the number of heats but not the size of the one
they are in, so a generation can run out of lanes; a track with fewer lanes than the grouped table's field is given lanes it
does not have; a row deleted and made anew has version 1 again, so an old form can match it;
an athlete with two seats, overridden in both, makes a reshuffle fail on a lane. `web/checkin.go:155` ignores the error of a
close that stopped half way; no code sets an entry's status "scratched" (`EntryScratched`); a new generation of a round clears
its codes; `topN` cuts equal times by athlete id.

## Not modelled, and the plan

`PROJECT.json` lists every component with its status. What remains, in this order:

1. `Accounts`: bootstrap, invitations, sessions, and the last admin: the check that another enabled
   admin remains is made outside the transaction that disables one (`app/auth.go:279`), so two at once can
   leave none.
2. `Entries`: registering, changing and deleting entries under a row version, relay teams.
3. `StagedImport` and OMX: what a repeated or half-applied import leaves.
4. Elimination at the vertical jumps and combined-event points as functions against a reference.
5. Retention and erasure against concurrent captures.

Close to half of the implementation's lines are pages generated from templates (`*_templ.go`) and
have no behaviour to model beyond what their forms send, which the modules that use a form include
(`FieldUnit`, `HeatSheet`).

Out of scope: file formats, rendering, PDF, TLS, backup files and migrations (input
and output, no interleaving of their own); scoring tables and decimal arithmetic
(single functions, well covered by unit tests).
