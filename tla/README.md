# TLA+ models of the KubeStellar API-resource catalog

This directory holds TLA+ models of `src/pkg/apiwatch/resources.go`, the
in-process catalog that presents a cluster's API resources (including those
defined by CRD-like "definer" objects) as an informer-compatible list-watch
source. The rest of `src/` is generated fake clientsets, shell documentation
and two one-line helpers. None of it has state worth a model; see "Not
modelled".

## 1. Inventory

### Components and their state

| Component | Code | State it keeps | Operations |
|---|---|---|---|
| Versioned catalog | `resourcesListWatcher` (resources.go:155-170) | `resourceVersionI`, `needRelist`, `relistAfter`, `cancels`, all under `mutex` + `cond` | `List` (277), `Watch` (254), `Invalidate` (205), `InvalidateWithDefiner` (199) |
| Relist ("debounce") goroutine | `NewAPIResourceInformer` (99-130) | program counter: at loop head, in `cond.Wait`, in `time.Sleep` | check `needRelist`/deadline, sleep, cancel all watches, wait, exit on `ctx.Done()` |
| Notification handlers | `NewAPIResourceInformer` (131-150) | none | `AddFunc`, `UpdateFunc`, `DeleteFunc` → `InvalidateWithDefiner` |
| Definer index | `rscToDefiners`, `definerToRscs`; `setDefinerLocked` (called at 235, source not in `src/`) | two mirror maps GVR↔definer | `setDefinerLocked(oid, enumerator)` |
| Watch session | `resourceWatch` (240-275) | a context (live/done), a result channel (open/closed), a handle in `rlw.cancels` | created by `Watch`; ended by its deadline, by `List`, by the relist cycle, by the owning context |
| Subresource tree builder | `arMap.insert`, `arMap.toList` (304-339), used by `listWithSubresources` (341-375) | a per-List tree of name segments | `insert(path, spec)`, `toList` |
| Resource lister | `resourceLister` (445-470) | none of its own; reads the informer's store | `List(selector)`, `Get(name)` |
| External: discovery memcache | `cachediscovery.NewMemCacheClient` (93) | cached groups/resources, a valid flag | `ServerGroupsAndResources`, `ServerPreferredResources`, `Invalidate` |
| External: shared informer | `NewSharedInformer(rlw, …)` (151) | its reflector's last resource version and its store | calls `List`, then `Watch` at the list's version; on a closed watch it watches again or relists; on an expired error it relists |

### How they interact

* Notifiers call the handlers concurrently. Each handler takes `rlw.mutex`
  and then, in one critical section, bumps the version, sets the deadline to
  now+20 s, sets `needRelist`, invalidates the memcache, broadcasts on
  `cond`, and updates the definer index.
* The relist goroutine sleeps until the deadline. If the deadline was
  pushed out in the meantime, it sleeps again. Once the deadline has passed
  it cancels every handle in `rlw.cancels` and clears `needRelist`.
* A cancelled watch context makes the watch goroutine close the result
  channel. The reflector sees end-of-stream and calls `Watch` again at its
  last version. If that version is no longer current, `Watch` returns
  `ResourceExpired` and the reflector calls `List`. `List` bumps the version
  and cancels all handles under the lock. It then fetches from the memcache
  without the lock, and takes the lock again to attach definers.
* No watch event is ever delivered. The stream only ends. The consumer
  re-synchronises by relisting.

### What is hard

* Concurrency: many handler goroutines, the relist goroutine, the
  reflector's List/Watch calls and the watch-closing goroutines all share
  one mutex and condition variable. List has an unlocked gap between its two
  critical sections.
* Timing: the 20 s Nagling window. The deadline moves while the goroutine
  is asleep. Watch deadlines race against relist cycles.
* Ordering against the outside world: a definer event arrives before the
  server actually serves (or stops serving) the resources it defines. The
  delay exists to wait for that.
* Shutdown: the owning context ends while goroutines are blocked.
* Output shape: a flat list of `a/b` names becomes a tree, and gaps are
  dropped. Go map iteration order leaks into the output.

### What makes each component correct

* Catalog: versions never repeat. A watch is accepted only at the current
  version, so any invalidation that races a List makes the next Watch
  expire. Once everything has settled, the reflector's store matches what the
  server serves.
* Relist goroutine: it never cycles before the latest deadline. Every
  invalidation is eventually followed by exactly one cycle per burst. It
  exits once its context is done.
* Definer index: the two maps mirror each other and agree with the set of
  definer objects that exist, under any interleaving of handlers.
* Watch sessions: every session ends. `rlw.cancels` holds the handles of
  open sessions only.
* Tree builder: every reported resource with its parent present appears
  once, nested under its parent. Gaps are dropped.

## 2. Plan

Modules, in order of importance:

1. **`ResourcesListWatcher`** (done): the catalog, the relist goroutine, the
   handlers, the definer index and watch sessions, composed with their
   environment (the reflector, the memcache, the server, the clock, the
   owning context). This is where all the concurrency is.
2. **`SubresourceTree`** (done): `insert`/`toList` as RECURSIVE
   operators over bounded sets of `/`-paths. It is checked against a
   reference definition ("each spec whose every proper prefix has a spec
   appears once, nested under its parent"). The output order is modelled as
   any permutation, to state the nondeterminism of Go map iteration.
3. **`ListWatchCatalog`** (done, abstract specification): a catalog that hands out
   strictly increasing versions and snapshots, and accepts a watch only at
   the latest version. `ResourcesListWatcher` is to be shown to implement it
   through `INSTANCE … WITH` a refinement mapping, checked as a PROPERTY.
4. Discovery failures inside `ResourcesListWatcher` (done): `ListFetch`
   returning a partial answer, and the memcache retrying the failed group
   versions.
5. `ResourceLister` operators over the reflector's store (done): `Get` with
   not-found and `List` by selector. They are read-only, so they are
   operators, not actions.
6. **`ResourceListing`** (done): the group-version filter, `specComplete`
   keys and `listSansSubresources`, over a discovery answer with several
   groups and versions. The `arMap` operators moved into the
   variable-free `ArMap` module, which `SubresourceTree` and
   `ResourceListing` both extend.
7. A whole-discovery failure (`ServerGroups` failing) is done: it is a
   disjunct of `ListFetch`.
8. Closed: the nil `TimeoutSeconds` of Watch. The informer, the only
   caller, always sets it, so it is listed under "Not modelled" and is not
   a hazard.

## 3. The model `ResourcesListWatcher`

### State ↔ code

| Variable | Code |
|---|---|
| `resourceVersionI`, `needRelist`, `cancels`, `rscToDefiners`, `definerToRscs` | the fields of the same name. The maps are total functions in which `{}` stands for an absent entry, matching the design's "empty sets are pruned". |
| `relistAfter` | `rlw.relistAfter`, as the number of ticks left until it passes |
| `relister` | the relist goroutine: `pc` ∈ top / wait / sleep / exited, and the `wait` it sleeps |
| `watches[w]` | watch `w`'s context and channel: live, done (context done, channel not yet closed), closed. `cancels` holds watch ids. |
| `ctxDone` | `rlw.ctx` done |
| `cache` | the memcache client: valid flag and the cached resource set |
| `reflector`, `store` | the shared informer's reflector (environment) and its store |
| `defined`, `established` | definer objects that exist; definers whose resources the server serves |
| `events`, `timeouts` | bounds on the environment's notifications and watch deadlines |
| `invals`, `fetchInvals` | history: invalidations so far; their number when the last List fetched |
| `sinceInval` | history: ticks since the latest invalidation, capped at `RelistDelay`; a clock of its own, independent of `relistAfter` |

Each action is one critical section or one goroutine step:
`Invalidate`, `NotifyAdd/Update/Delete` (→ `InvalidateLocked` +
`SetDefinerLocked`); `RelisterExit/Sleep/Cycle/Wait/Wake`;
`ListBegin` (first locked section), `ListFetch` (unlocked discovery call),
`ListEnd` (second locked section, `EnumAPIResourcesLocked`);
`WatchAccepted`, `WatchExpired`, `WatchClose` (the closing goroutine);
environment: `WatchEnded` (the reflector's reaction), `WatchTimeout`,
`Settle`, `Tick`, `Shutdown`.

### Abstractions

* A resource is a model value (its GVR). Its spec is reduced to its set of
  definers. Names, verbs, kinds and the `group:version:name` key are left
  out: no property here distinguishes them. The name rewriting and the tree
  shape belong to `SubresourceTree`.
* Time is relative. `relistAfter` counts the ticks left. `RelistDelay = 2`
  ticks is enough for an invalidation to land inside the relister's sleep
  and push the deadline out.
* The server's lag: an event for definer `d` puts `d` in `Settling` until
  `Settle(d)`. `Tick` may not let a deadline pass while something is
  settling. This is the Nagling assumption the code's comment states ("events
  that merely trigger some process of changing the set of API resources").
  It is the most favourable assumption for the code.
* The reflector is modelled from the informer's contract. After a closed
  watch it may watch again or relist. client-go relists after a watch it
  judges too short. It stops when the owning context ends.
* Discovery may fail per group version, up to `MaxFailures` requests in
  all. A resource stands for its own group version. `ListFetch` models the
  memcache client of client-go:
  * after an `Invalidate` it refetches every group version;
  * otherwise it answers from its cache and refetches only the group
    versions whose last request failed (transient errors);
  * a failed group version is left out of the answer, and List lists the
    rest (the error is only logged, resources.go:343).
  * when the refresh's `ServerGroups` request fails, the memcache stays
    invalid and the answer is empty, so List lists nothing.
* `resourceLister.Get`/`List` are the operators `ListerGet` and
  `ListerList` over the store. The store is keyed by resource, not by the
  composite `group:version:name` string.

### Refinement

`ListWatchCatalog` is what the catalog promises its consumer. Its state:

* `version`;
* `listed`: the version of the consumer's list;
* `sessions`: open or ended;
* `stale`;
* `stopped`.

Its actions:

* `Invalidate` and `List` each hand out the next version. `List` also ends
  every session.
* `Watch` opens a session only when `listed = version`.
* `Cycle` ends every session and clears `stale`. `Spec` makes it weakly
  fair.
* `SessionEnd` ends one session at its deadline.
* `Stop` ends everything.

`ResourcesListWatcher` instantiates it as `Catalog`, with this mapping:

* `version ← resourceVersionI`;
* `listed ←` the reflector's `listRV` while a List is in flight, else its
  `rv`;
* `sessions ←` live watches are open; done and closed ones have ended;
* `stale ← needRelist`;
* `stopped ← ctxDone`.

The two checked properties:

* `CatalogSafety` is `Catalog!SafetySpec`, in the safety run.
* `CatalogImplemented` is `Catalog!Spec`, fairness included, in the
  liveness run. It replaces the earlier `needRelist ~> ~needRelist`.

### Fairness

There is weak fairness on the relist goroutine, the reflector, the
watch-closing goroutines, `Settle` and `Tick`. These are goroutines the Go
runtime keeps scheduling, time that passes, and a server that finishes
applying a change. Notifications, `Invalidate` calls, watch deadlines and
shutdown are the environment's choice and have no fairness.

### Runs

| Run | cfg | Expect | What it shows |
|---|---|---|---|
| catalog_safety | `MCSafety.cfg` | pass | Checks `DefinerIndexFaithful` and `AcceptedWatchSawLastInvalidation`: a Watch is accepted only if its List fetched after every invalidation so far. Also checks `CycleAwaitsQuietWindow`: a relist cycle comes only when a full `RelistDelay` has passed since the latest invalidation, on the `sinceInval` clock rather than on `relistAfter`. It is violated by a goroutine that cycles on waking without re-checking a deadline an invalidation pushed out during its sleep, and by a deadline set only by the first invalidation of a burst. `CatalogSafety`: every step refines `ListWatchCatalog`. Covers every interleaving of 3 events, 1 watch deadline, 1 discovery failure and shutdown. |
| catalog_liveness | `MCLiveness.cfg` | pass | `CatalogImplemented`: the detailed spec implements `ListWatchCatalog` with its fairness, so no wakeup is lost. `ReflectorEventuallyResyncs`: the relist cycle forces a List after every invalidation. One discovery failure is allowed. |
| quiet_store_current | `MCQuietStore.cfg` | violation | `QuietStoreIsCurrent` fails. See findings. |
| cancels_leak | `MCCancelsLeak.cfg` | violation | `CancelsOnlyUnclosedWatches` fails: after a watch's goroutine has closed its result channel, its handle is still in `rlw.cancels`. The property is stated over closed watches, not over done ones. A context becomes done outside `rlw.mutex` (deadline, shutdown), so even a fixed implementation holds the handle of a done watch for a moment. It need not do so once the goroutine has finished. |
| discovery_heal | `MCDiscoveryHeal.cfg` | violation | `PartialListHeals` fails: a resource a failed discovery request left out never reaches the store. |
| relister_shutdown | `MCShutdown.cfg` | violation | `RelisterExitsAfterShutdown` fails: a goroutine in `cond.Wait` never sees `ctx.Done()`. |

Bounds: two definers (one defining `rWidgets`, one defining `rWidgets` and
`rGadgets`, so a resource can have two definers; a definer's set is a
constant, so an Update that changes it is not exercised and the diff of
`SetDefinerLocked` is reached only through Add and Delete), one builtin
resource,
`MaxEvents` 3 for safety and 2 for liveness, one watch deadline, one
failed discovery request (`MaxFailures`; 0 in the runs about other
findings, so that their traces stay about one cause). These reach every
action, including:

* an invalidation during a sleep,
* a relist cycle while a List is in flight,
* a delete while its add is still settling,
* shutdown while the goroutine waits,
* a failed group version retried by the next List's fetch and coming
  back.

`CHECK_DEADLOCK FALSE` is set in these cases:

* runs with shutdown, where the informer really stops;
* the liveness run, where the environment's bounded events run out and the
  system rests in its idle state (relister in `cond.Wait`, reflector blocked
  on an open watch), which is the program's own idle state.

### Findings

1. **A List inside the Nagling window defeats the delay**
   (`quiet_store_current`, resources.go:117).
   * The relist cycle only cancels watches. It does not bump
     `resourceVersionI` and does not invalidate the memcache.
   * Trace:
     1. A definer is added.
     2. The reflector's first List fetches before the server serves the new
        resource.
     3. The relist cycle fires while that List is still in flight, so it
        cancels nothing.
     4. The Watch at the List's version is accepted.
     5. The server serves the resource.
     6. Nothing changes any more: the store lacks the resource until some
        unrelated invalidation.
   * The same happens with any relist inside the window: after an expired
     watch, or after a watch deadline.
2. **`rlw.cancels` only grows** (`cancels_leak`, resources.go:268): one
   handle per Watch for the informer's lifetime. Neither the watch
   goroutine (269-273), List (282) nor the relist cycle (117) drops one.
   The trace is a Watch, its deadline, and the goroutine closing its
   channel with the handle still registered.
3. **A discovery failure does not heal** (`discovery_heal`,
   resources.go:343).
   * The design says discovery errors mean "no data this round" and
     self-heal on the next list. But no next List comes.
   * Trace:
     1. The first List's request for `pods` fails. List lists the rest at
        version 3.
     2. The Watch at 3 is accepted.
     3. The watch deadline passes. A relist cycle also runs, but it bumps
        nothing.
     4. The reflector re-watches at 3 and is accepted again.
     5. The memcache would retry `pods` on a List, but nothing makes one
        happen.
4. **The relist goroutine leaks on shutdown** (`relister_shutdown`,
   resources.go:124): `ctx.Done()` is only checked at the loop head.

## 4. The model `SubresourceTree`

`SubresourceTree` models the per-group-version part of
`listWithSubresources` (resources.go:341-375) and the `arMap` it uses
(304-339).
The `arMap` operators (`Insert`, `ToLists`) and the reference
`RefForest` are in `ArMap.tla`. `SubresourceTree` extends that module.

* A resource name is a sequence of segments (`strings.Split(ar.Name, "/")`).
  A spec is identified by the name it was discovered under.
* `arMap` is a function from segments to `[spec, sub]` records. `NoSpec`
  stands for a nil `spec`.
* `Insert` is `arMap.insert`. It creates the missing node, walks down, and
  attaches the spec at the last segment.
* `ToLists(m)` is the set of outputs `arMap.toList` can produce. Go map
  iteration order is unspecified, so every level is visited in every order
  (`SetToSeqs`). A node without a spec is skipped with its whole subtree.
* Actions:
  * `Init` picks the discovery answer: a sequence of distinct names.
  * `InsertNext` is one call of the consumer given to
    `enumAPIResourcesLocked`.
  * `ToList` is the `am.toList` call. It runs twice, standing for two Lists
    of an unchanged server.
* `RefForest` is the reference. It builds the nested listing straight from
  the set of discovered names: a name appears, under its parent, when every
  proper prefix of it was discovered.

| Run | cfg | Expect | What it shows |
|---|---|---|---|
| tree_reference | `MCSubresourceTree.cfg` | pass | `ListMatchesReference`: whatever the discovery order and the iteration order, with the order forgotten, the listing equals the reference. Gaps are dropped with their subtree. |
| tree_order | `MCTreeOrder.cfg` | violation | `ListIsDeterministic` fails: two Lists yield different objects. |

Bounds: three segments (`pods`, `status`, `scale`), at most three names
per group version. `tree_reference` allows names of depth 3 (170368
states). `tree_order` allows depth 2, which is enough for its violation.
The runs cover:

* a resource with two subresources, which is where the order differs;
* a subresource without its parent (a gap) at the top level;
* a gap below the top level (`pods` and `pods/status/scale` without
  `pods/status`). Here the recursive `toList` skips a child gap and its
  subtree inside a listed resource.
* a later duplicate segment.

Four names are out of reach: enumerating the discovery orders of four
names of depth 3 exceeds what TLC can build as a set.

### Finding

5. **The nested output is not deterministic** (`tree_order`,
   resources.go:327). `pods` with `pods/status` and `pods/scale` is listed
   with `SubResources` in either order. The design document calls the
   output deterministic. Every List already stamps its items with a fresh
   `ResourceVersion` (resources.go:386), so the order alone does not cause
   store updates. What differs is the content of two Lists of an unchanged
   server, which a consumer comparing specs would see.

## 5. The model `ResourceListing`

`ResourceListing` models the items that List returns for one discovery
answer, in both modes. It covers resources.go:296-299, 341-389 and 423-443.

* The discovery answer is the initial state. It has:
  * `serves[g]`: the versions the server serves for each group;
  * `preferred[g]`: the group's preferred version;
  * `resourceList`: the resources of every group version whose request
    succeeded. A group version whose request failed is absent.
* `ListWithSubresources` keeps only the group versions that are their
  group's preferred one (`ListedGVs`). It builds the `arMap` of each
  (`BuildArMap`, a `FoldLeft` of `Insert`) and completes toList's specs
  with `SpecComplete`.
* `SpecComplete` produces the object's name `group:version:name` as the
  triple it is joined from. Groups and versions hold no `:`, so the join
  is assumed injective. This is an assumption of the model, not a checked
  result. The object also carries the spec's group and version.
* `ListSansSubresources` lists client-go's `ServerPreferredResources`
  answer flat. `PreferredResources` and `ChosenVersion` model that
  answer from its contract:
  * names with a `/` are skipped;
  * each group resource is answered in the preferred version if that one
    serves it;
  * otherwise it is answered in the first version listed.
* The order of items is forgotten. `tree_reference` shows that every
  toList order gives the same set.

| Run | cfg | Expect | What it shows |
|---|---|---|---|
| listing_modes | `MCResourceListing.cfg` | pass | `TypeOK`: for every discovery answer, both modes produce items keyed by group, version and a discovered name. Gaps are dropped. The run fires both List modes over every answer. |
| listing_modes_differ | `MCListingModes.cfg` | violation | `ModesListSameResources` fails: the two modes disagree about which resources a group has. See finding 6. |

### Finding

6. **The two List modes list different resources** (`listing_modes_differ`,
   resources.go:359).
   * `listWithSubresources` keeps only a group's preferred version.
   * `listSansSubresources` goes through `ServerPreferredResources`, which
     falls back to another version.
   * Trace: group `g2` prefers `v1`. Its `v1` request failed and `v2`
     answered `pods`. The subresource-aware List has nothing for `g2`. The
     plain List has `g2:v2:pods`.
   * The same happens without any failure, for a resource that only a
     non-preferred version serves.
   * The design calls the plain mode the simpler "preferred resources only"
     feed. It does not say that the two modes list different resources.
     Whether an informer configured one way or the other sees a resource
     thus depends on the mode and on discovery errors.

Bounds: groups `g1`, `g2`; versions `v1`, `v2`, listed in that order.
Each group version serves a subset of `pods`, `pods/status`,
`scale/status`. That gives 33124 discovery answers. The two groups are
interchangeable, since neither the answer nor the code tells them apart, so
the cfg declares a symmetry over them. With it, TLC explores 16653 answers up
to renaming and 66612 states in all. They include:

* the same resource name in two groups at the same version;
* a preferred version whose request failed while another version
  succeeded, which is the case where the modes differ outside the
  preferred versions;
* a subresource whose parent is missing.

## 6. Not modelled

* Generated fake clientsets (`fake_edge_client.go`,
  `edgeplacementdecision.go`): pass-throughs to `testing.Fake`, no state.
* `src/unnamed/part_000` and `part_001`: shell documentation (provider
  setup walkthroughs), no code.
* The remaining fields of an `APIResourceSpec` (singular name, kind,
  verbs, namespaced) and `rsc.Version`: copied through unchanged; no
  property tells them apart.
* JSON marshalling of `GoMap`/`GoSet`: log formatting.
* The nil dereference of `opts.TimeoutSeconds` in Watch (resources.go:261).
  The only caller is the shared informer's reflector. It always sets a
  timeout of one to two times its minimum watch timeout, so no state of the
  program reaches the nil or zero case.
* The panics at resources.go:225-229: a supplier violating its contract.
