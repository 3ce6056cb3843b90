------------------------- MODULE ResourcesListWatcher -------------------------
(***************************************************************************)
(* The API-resource catalog of src/pkg/apiwatch/resources.go: the         *)
(* resourcesListWatcher behind NewAPIResourceInformer, composed with the   *)
(* things it talks to.                                                     *)
(*                                                                         *)
(*  - the catalog's state under rlw.mutex: resourceVersionI, needRelist,   *)
(*    relistAfter, cancels, rscToDefiners and definerToRscs;               *)
(*  - the relist goroutine started in NewAPIResourceInformer;              *)
(*  - the notification handlers (AddFunc/UpdateFunc/DeleteFunc) calling    *)
(*    InvalidateWithDefiner, and the returned Invalidatable;               *)
(*  - List (a locked step, an unlocked discovery fetch, a locked           *)
(*    enumeration) and Watch, with the goroutine that closes a watch's     *)
(*    result channel when its context is done;                             *)
(*  - the environment: the shared informer's reflector that calls List and *)
(*    Watch, the memcache discovery client, the remote API server whose    *)
(*    served resources change some time after a definer event, the clock, *)
(*    and the owning context.                                              *)
(*                                                                         *)
(* Every critical section of the code is one atomic action here, because  *)
(* the code holds rlw.mutex throughout it.  Times are relative: a timer   *)
(* holds the ticks left until it expires; one tick stands for the         *)
(* granularity at which the 20 s delay matters.                           *)
(***************************************************************************)
EXTENDS Naturals, Sequences, FiniteSets, Functions

CONSTANTS
    Definers,      \* objects that define resources (e.g. CRDs)
    Resources,     \* GroupVersionResources the server may serve
    Builtin,       \* resources served whatever is defined
    Defines,       \* Defines[d]: the GVRs that definer d enumerates
    RelistDelay,   \* the Nagling delay (time.Second * 20) in ticks
    MaxEvents,     \* bound on notifications and Invalidate calls
    MaxTimeouts,   \* bound on watch contexts reaching their deadline
    MaxFailures,   \* bound on discovery requests that fail
    WithShutdown   \* whether the owning context may be cancelled

ASSUME /\ Builtin \subseteq Resources
       /\ Defines \in [Definers -> SUBSET Resources]
       /\ RelistDelay \in Nat \ {0}
       /\ MaxEvents \in Nat /\ MaxTimeouts \in Nat /\ MaxFailures \in Nat
       /\ WithShutdown \in BOOLEAN

VARIABLES
    resourceVersionI,  \* rlw.resourceVersionI
    needRelist,        \* rlw.needRelist
    relistAfter,       \* ticks left until rlw.relistAfter
    cancels,           \* rlw.cancels, as the ids of the watches registered
    rscToDefiners,     \* rlw.rscToDefiners, total: absent = {}
    definerToRscs,     \* rlw.definerToRscs, total: absent = {}
    relister,          \* the relist goroutine: [pc, wait]
    watches,           \* watches[w]: the state of watch w's context/channel
    ctxDone,           \* rlw.ctx is done
    cache,             \* the memcache discovery client
    reflector,         \* the informer's reflector calling List and Watch
    store,             \* the reflector's store: resource -> its definers
    defined,           \* definer objects that exist
    established,       \* definers whose resources the server serves
    events,            \* notifications delivered so far (bounded)
    timeouts,          \* watch deadlines that fired so far (bounded)
    failures,          \* discovery requests that failed so far (bounded)
    invals,            \* history: number of invalidations so far
    fetchInvals,       \* history: invals when the last List fetched
    sinceInval         \* history: ticks since the latest invalidation
                       \* (capped at RelistDelay)

catalogVars == <<resourceVersionI, needRelist, relistAfter, cancels,
                 rscToDefiners, definerToRscs>>
envVars == <<ctxDone, cache, defined, established, events, timeouts,
            failures>>
vars == <<catalogVars, relister, watches, reflector, store, envVars,
          invals, fetchInvals, sinceInval>>

(* A watch's context is live, done (cancelled or expired) but the         *)
(* goroutine has not yet closed rw.results, or closed.                    *)
WatchStates == {"live", "done", "closed"}

(* What the remote API server currently serves.                           *)
Served == Builtin \cup UNION {Defines[d] : d \in established}

(* Definer events whose effect on the server has not happened yet: the   *)
(* "process of changing the set of API resources" the delay waits for.   *)
Settling == (defined \ established) \cup (established \ defined)

-----------------------------------------------------------------------------
(* Definer index (setDefinerLocked; its source is not among the files    *)
(* given, so it follows the design's description of it).                 *)

(* Mutant: the reverse entries of resources no longer defined are kept.  *)
SetDefinerLockedNoPrune(oid, newRscs) ==
    /\ rscToDefiners' =
         [r \in Resources |->
            IF r \in newRscs THEN rscToDefiners[r] \cup {oid}
            ELSE rscToDefiners[r]]
    /\ definerToRscs' = [definerToRscs EXCEPT ![oid] = newRscs]

SetDefinerLocked(oid, newRscs) ==
    LET old == definerToRscs[oid] IN
    /\ rscToDefiners' =
         [r \in Resources |->
            IF r \in old \ newRscs THEN rscToDefiners[r] \ {oid}
            ELSE IF r \in newRscs \ old THEN rscToDefiners[r] \cup {oid}
            ELSE rscToDefiners[r]]
    /\ definerToRscs' = [definerToRscs EXCEPT ![oid] = newRscs]

(* cancel() of every handle in rlw.cancels: each live context becomes    *)
(* done; cancelling a done context does nothing.                         *)
CancelAll ==
    watches' = [w \in DOMAIN watches |->
                  IF w \in Range(cancels) /\ watches[w] = "live"
                  THEN "done" ELSE watches[w]]

(* Mutant: an invalidation that does not bump resourceVersionI.          *)
InvalidateLockedNoBump ==
    /\ resourceVersionI' = resourceVersionI
    /\ relistAfter' = RelistDelay
    /\ needRelist' = TRUE
    /\ cache' = [cache EXCEPT !.valid = FALSE]
    /\ relister' = IF relister.pc = "wait"
                   THEN [relister EXCEPT !.pc = "top"] ELSE relister
    /\ invals' = invals + 1
    /\ sinceInval' = 0
    /\ events' = events + 1

(* Mutant: the deadline is pushed out from the old deadline, not from    *)
(* time.Now().                                                           *)
InvalidateLockedFromDeadline ==
    /\ resourceVersionI' = resourceVersionI + 1
    /\ relistAfter' = relistAfter + RelistDelay
    /\ needRelist' = TRUE
    /\ cache' = [cache EXCEPT !.valid = FALSE]
    /\ relister' = IF relister.pc = "wait"
                   THEN [relister EXCEPT !.pc = "top"] ELSE relister
    /\ invals' = invals + 1
    /\ sinceInval' = 0
    /\ events' = events + 1

(* Mutant: an invalidation that forgets rlw.cond.Broadcast().            *)
InvalidateLockedNoBroadcast ==
    /\ resourceVersionI' = resourceVersionI + 1
    /\ relistAfter' = RelistDelay
    /\ needRelist' = TRUE
    /\ cache' = [cache EXCEPT !.valid = FALSE]
    /\ relister' = relister
    /\ invals' = invals + 1
    /\ sinceInval' = 0
    /\ events' = events + 1

(* The common part of invalidateWithDefinerLocked: bump the version,     *)
(* push the deadline out, flag staleness, invalidate the discovery cache *)
(* and cond.Broadcast, which wakes the relister if it is in cond.Wait.   *)
InvalidateLocked ==
    /\ resourceVersionI' = resourceVersionI + 1
    /\ relistAfter' = RelistDelay
    /\ needRelist' = TRUE
    /\ cache' = [cache EXCEPT !.valid = FALSE]
    /\ relister' = IF relister.pc = "wait"
                   THEN [relister EXCEPT !.pc = "top"] ELSE relister
    /\ invals' = invals + 1
    /\ sinceInval' = 0
    /\ events' = events + 1

(* Invalidate(): the Invalidatable returned by NewAPIResourceInformer,   *)
(* and the handlers of a notifier that is not a ResourceDefinitionSupplier.*)
Invalidate ==
    /\ events < MaxEvents
    /\ InvalidateLocked
    /\ UNCHANGED <<rscToDefiners, definerToRscs, cancels, watches, ctxDone,
                   reflector, store, defined, established, timeouts, failures,
                   fetchInvals>>

(* InvalidateWithDefiner(obj, supplier, set) for definer d: with set,    *)
(* the definer's set is what EnumerateDefinedResources enumerates; on    *)
(* deletion it is enumerateNothing.                                      *)
InvalidateWithDefiner(d, set) ==
    /\ InvalidateLocked
    /\ SetDefinerLocked(d, IF set THEN Defines[d] ELSE {})

(* AddFunc: definer d is created and its notifier reports it.            *)
NotifyAdd(d) ==
    /\ events < MaxEvents
    /\ d \notin defined
    /\ defined' = defined \cup {d}
    /\ InvalidateWithDefiner(d, TRUE)
    /\ UNCHANGED <<cancels, watches, ctxDone, reflector, store, established,
                   timeouts, failures, fetchInvals>>

(* UpdateFunc: an existing definer d changes (e.g. its status).           *)
NotifyUpdate(d) ==
    /\ events < MaxEvents
    /\ d \in defined
    /\ InvalidateWithDefiner(d, TRUE)
    /\ UNCHANGED <<cancels, watches, ctxDone, reflector, store, defined,
                   established, timeouts, failures, fetchInvals>>

(* DeleteFunc: definer d is deleted (DeletedFinalStateUnknown unwrapped). *)
NotifyDelete(d) ==
    /\ events < MaxEvents
    /\ d \in defined
    /\ defined' = defined \ {d}
    /\ InvalidateWithDefiner(d, FALSE)
    /\ UNCHANGED <<cancels, watches, ctxDone, reflector, store, established,
                   timeouts, failures, fetchInvals>>

-----------------------------------------------------------------------------
(* The relist goroutine of NewAPIResourceInformer.  pc "top" is the head  *)
(* of the for loop, "wait" is inside cond.Wait, "sleep" is inside         *)
(* time.Sleep(wait), "exited" is after the return on doneCh.             *)

RelisterExit ==
    /\ relister.pc = "top"
    /\ ctxDone
    /\ relister' = [relister EXCEPT !.pc = "exited"]
    /\ UNCHANGED <<catalogVars, watches, reflector, store, envVars, invals,
                   fetchInvals, sinceInval>>

(* needRelist and the deadline not reached: compute the wait, unlock,    *)
(* sleep.                                                                *)
RelisterSleep ==
    /\ relister.pc = "top"
    /\ ~ctxDone
    /\ needRelist
    /\ relistAfter > 0
    /\ relister' = [pc |-> "sleep", wait |-> relistAfter]
    /\ UNCHANGED <<catalogVars, watches, reflector, store, envVars, invals,
                   fetchInvals, sinceInval>>

(* Mutant: the cycle clears needRelist without cancelling the watches.   *)
RelisterCycleNoCancel ==
    /\ relister.pc = "top"
    /\ ~ctxDone
    /\ needRelist
    /\ relistAfter = 0
    /\ needRelist' = FALSE
    /\ relister' = [pc |-> "top", wait |-> 0]
    /\ UNCHANGED <<resourceVersionI, relistAfter, cancels, rscToDefiners,
                   definerToRscs, watches, reflector, store, envVars, invals,
                   fetchInvals, sinceInval>>

(* needRelist and the deadline passed: cancel every handle in rlw.cancels *)
(* and clear needRelist ("Cycled APIResourceInformer").                  *)
RelisterCycle ==
    /\ relister.pc = "top"
    /\ ~ctxDone
    /\ needRelist
    /\ relistAfter = 0
    /\ CancelAll
    /\ needRelist' = FALSE
    /\ relister' = [pc |-> "top", wait |-> 0]
    /\ UNCHANGED <<resourceVersionI, relistAfter, cancels, rscToDefiners,
                   definerToRscs, reflector, store, envVars, invals,
                   fetchInvals, sinceInval>>

(* Nothing to do: cond.Wait releases the lock until a Broadcast.         *)
RelisterWait ==
    /\ relister.pc = "top"
    /\ ~ctxDone
    /\ ~needRelist
    /\ relister' = [relister EXCEPT !.pc = "wait"]
    /\ UNCHANGED <<catalogVars, watches, reflector, store, envVars, invals,
                   fetchInvals, sinceInval>>

(* Mutant: after the sleep the goroutine cycles without re-checking the  *)
(* deadline, which an invalidation may have pushed out meanwhile.        *)
RelisterWakeAndCycle ==
    /\ relister.pc = "sleep"
    /\ relister.wait = 0
    /\ CancelAll
    /\ needRelist' = FALSE
    /\ relister' = [pc |-> "top", wait |-> 0]
    /\ UNCHANGED <<resourceVersionI, relistAfter, cancels, rscToDefiners,
                   definerToRscs, reflector, store, envVars, invals,
                   fetchInvals, sinceInval>>

(* time.Sleep(wait) returns and the loop goes round again.               *)
RelisterWake ==
    /\ relister.pc = "sleep"
    /\ relister.wait = 0
    /\ relister' = [pc |-> "top", wait |-> 0]
    /\ UNCHANGED <<catalogVars, watches, reflector, store, envVars, invals,
                   fetchInvals, sinceInval>>


-----------------------------------------------------------------------------
(* List and Watch, as called by the shared informer's reflector.  The    *)
(* reflector is single-threaded: one List or Watch call at a time.  Its  *)
(* steps are taken only while the informer runs (rlw.ctx not done).      *)

(* List, first locked section: bump the version and cancel every handle  *)
(* in rlw.cancels; the returned version stamps the list.                 *)
ListBegin ==
    /\ reflector.pc = "list"
    /\ ~ctxDone
    /\ resourceVersionI' = resourceVersionI + 1
    /\ CancelAll
    /\ reflector' = [reflector EXCEPT !.pc = "fetch",
                                      !.listRV = resourceVersionI + 1]
    /\ UNCHANGED <<needRelist, relistAfter, cancels, rscToDefiners,
                   definerToRscs, relister, store, envVars, invals,
                   fetchInvals, sinceInval>>

(* The unlocked discovery call (ServerGroupsAndResources or              *)
(* ServerPreferredResources), whose error is only logged: whatever was   *)
(* returned is listed.  The memcache client refetches every group        *)
(* version after an Invalidate, else answers from its cache and refetches *)
(* only the group versions whose last request failed with a transient    *)
(* error.  Each request in "asked" may fail (bounded by MaxFailures); a   *)
(* failed group version is left out of the answer and remembered in      *)
(* cache.failed.  A resource stands for its own group version.  When    *)
(* the refresh's list of groups fails, nothing is answered at all.        *)
ListFetch ==
    /\ reflector.pc = "fetch"
    /\ \/ LET asked == IF cache.valid THEN cache.failed ELSE Resources
              kept  == IF cache.valid THEN cache.rsc ELSE {}
          IN \E failed \in SUBSET (asked \cap Served) :
             /\ failures + Cardinality(failed) <= MaxFailures
             /\ failures' = failures + Cardinality(failed)
             /\ cache' = [valid |-> TRUE, failed |-> failed,
                          rsc |-> kept \cup ((asked \cap Served) \ failed)]
             /\ reflector' = [reflector EXCEPT !.pc = "enum",
                                               !.fetched = cache'.rsc]
       \* The refresh's ServerGroups request fails: the memcache stays
       \* invalid and the answer is empty.
       \/ /\ ~cache.valid
          /\ failures < MaxFailures
          /\ failures' = failures + 1
          /\ reflector' = [reflector EXCEPT !.pc = "enum", !.fetched = {}]
          /\ UNCHANGED cache
    /\ fetchInvals' = invals
    /\ UNCHANGED <<catalogVars, relister, watches, store, ctxDone, defined,
                   established, events, timeouts, invals, sinceInval>>

(* enumAPIResourcesLocked: each discovered resource becomes a spec whose  *)
(* Definers are the current rscToDefiners entry of its GVR (the rest of  *)
(* the spec and specComplete's composite name are left out).             *)
EnumAPIResourcesLocked(rscs) == [r \in rscs |-> rscToDefiners[r]]

(* List, second locked section: every fetched resource gets the definers *)
(* rscToDefiners holds now; the reflector replaces its store with the    *)
(* list and remembers its version.                                       *)
ListEnd ==
    /\ reflector.pc = "enum"
    /\ store' = EnumAPIResourcesLocked(reflector.fetched)
    /\ reflector' = [reflector EXCEPT !.pc = "watch", !.rv = reflector.listRV]
    /\ UNCHANGED <<catalogVars, relister, watches, envVars, invals,
                   fetchInvals, sinceInval>>

(* Mutant: Watch forgets to compare the requested version with          *)
(* resourceVersionI.                                                      *)
WatchAcceptedAnyVersion ==
    /\ reflector.pc = "watch"
    /\ ~ctxDone
    /\ watches' = Append(watches, "live")
    /\ cancels' = Append(cancels, Len(watches) + 1)
    /\ reflector' = [reflector EXCEPT !.pc = "watching",
                                      !.watch = Len(watches) + 1]
    /\ UNCHANGED <<resourceVersionI, needRelist, relistAfter, rscToDefiners,
                   definerToRscs, relister, store, envVars, invals,
                   fetchInvals, sinceInval>>

(* Watch at the current version: a new context is registered in          *)
(* rlw.cancels and its goroutine waits for the context to be done.        *)
WatchAccepted ==
    /\ reflector.pc = "watch"
    /\ ~ctxDone
    /\ reflector.rv = resourceVersionI
    /\ watches' = Append(watches, "live")
    /\ cancels' = Append(cancels, Len(watches) + 1)
    /\ reflector' = [reflector EXCEPT !.pc = "watching",
                                      !.watch = Len(watches) + 1]
    /\ UNCHANGED <<resourceVersionI, needRelist, relistAfter, rscToDefiners,
                   definerToRscs, relister, store, envVars, invals,
                   fetchInvals, sinceInval>>

(* Watch at any other version fails with NewResourceExpired (the string  *)
(* comparison of FormatInt is the integer comparison); the reflector     *)
(* then lists again.                                                     *)
WatchExpired ==
    /\ reflector.pc = "watch"
    /\ ~ctxDone
    /\ reflector.rv # resourceVersionI
    /\ reflector' = [reflector EXCEPT !.pc = "list"]
    /\ UNCHANGED <<catalogVars, relister, watches, store, envVars, invals,
                   fetchInvals, sinceInval>>

(* The watch goroutine: <-ctx.Done(), then close(rw.results).            *)
WatchClose(w) ==
    /\ watches[w] = "done"
    /\ watches' = [watches EXCEPT ![w] = "closed"]
    /\ UNCHANGED <<catalogVars, relister, reflector, store, envVars, invals,
                   fetchInvals, sinceInval>>

(* The reflector sees its result channel closed with no event.  It       *)
(* either watches again from its last version or, after a watch it       *)
(* judges too short, lists again.                                        *)
WatchEnded ==
    /\ reflector.pc = "watching"
    /\ ~ctxDone
    /\ watches[reflector.watch] = "closed"
    /\ \E next \in {"watch", "list"} :
          reflector' = [reflector EXCEPT !.pc = next]
    /\ UNCHANGED <<catalogVars, relister, watches, store, envVars, invals,
                   fetchInvals, sinceInval>>

-----------------------------------------------------------------------------
(* The environment.                                                      *)

(* The deadline of context.WithTimeout(rlw.ctx, timeout) passes.          *)
WatchTimeout(w) ==
    /\ timeouts < MaxTimeouts
    /\ watches[w] = "live"
    /\ watches' = [watches EXCEPT ![w] = "done"]
    /\ timeouts' = timeouts + 1
    /\ UNCHANGED <<catalogVars, relister, reflector, store, ctxDone, cache,
                   defined, established, events, failures, invals, fetchInvals,
                   sinceInval>>

(* The server starts or stops serving the resources of definer d.  The   *)
(* Nagling delay exists for this lag; Tick assumes it is shorter.        *)
Settle(d) ==
    /\ d \in Settling
    /\ established' = IF d \in defined THEN established \cup {d}
                      ELSE established \ {d}
    /\ UNCHANGED <<catalogVars, relister, watches, reflector, store, ctxDone,
                   cache, defined, events, timeouts, failures, invals,
                   fetchInvals, sinceInval>>

(* One tick passes: rlw.relistAfter and a relister's sleep come closer.   *)
(* A definer event settles before the relist deadline it set.            *)
Tick ==
    /\ relistAfter > 0
    /\ Settling = {} \/ relistAfter > 1
    /\ relistAfter' = relistAfter - 1
    /\ relister' = IF relister.pc = "sleep" /\ relister.wait > 0
                   THEN [relister EXCEPT !.wait = @ - 1] ELSE relister
    /\ sinceInval' = IF sinceInval < RelistDelay THEN sinceInval + 1
                     ELSE sinceInval
    /\ UNCHANGED <<resourceVersionI, needRelist, cancels, rscToDefiners,
                   definerToRscs, watches, reflector, store, envVars, invals,
                   fetchInvals>>

(* The context given to NewAPIResourceInformer ends: rlw.ctx and every   *)
(* watch context derived from it are done; the informer stops.           *)
Shutdown ==
    /\ WithShutdown
    /\ ~ctxDone
    /\ ctxDone' = TRUE
    /\ watches' = [w \in DOMAIN watches |->
                     IF watches[w] = "live" THEN "done" ELSE watches[w]]
    /\ UNCHANGED <<catalogVars, relister, reflector, store, cache, defined,
                   established, events, timeouts, failures, invals,
                   fetchInvals, sinceInval>>

-----------------------------------------------------------------------------
(* resourceLister, the read-only face of the informer's store.  Get(name) *)
(* answers the object under the key, or a NotFound error; List(selector)  *)
(* answers the objects whose labels match.  specComplete sets no labels,  *)
(* so a selector matches either every object (labels.Everything) or none. *)
NotFound == [found |-> FALSE, definers |-> {}]

ListerGet(r) ==
    IF r \in DOMAIN store THEN [found |-> TRUE, definers |-> store[r]]
    ELSE NotFound

ListerList(matchesUnlabelled) ==
    IF matchesUnlabelled THEN DOMAIN store ELSE {}

-----------------------------------------------------------------------------
Init ==
    /\ resourceVersionI = 1
    /\ needRelist = FALSE
    /\ relistAfter = 0
    /\ cancels = <<>>
    /\ rscToDefiners = [r \in Resources |-> {}]
    /\ definerToRscs = [d \in Definers |-> {}]
    /\ relister = [pc |-> "top", wait |-> 0]
    /\ watches = <<>>
    /\ ctxDone = FALSE
    /\ cache = [valid |-> FALSE, rsc |-> {}, failed |-> {}]
    /\ reflector = [pc |-> "list", rv |-> 0, listRV |-> 0, fetched |-> {},
                    watch |-> 0]
    /\ store = [r \in {} |-> {}]
    /\ defined = {}
    /\ established = {}
    /\ events = 0
    /\ timeouts = 0
    /\ failures = 0
    /\ invals = 0
    /\ fetchInvals = 0
    /\ sinceInval = 0

RelisterStep ==
    RelisterExit \/ RelisterSleep \/ RelisterCycle \/ RelisterWait
    \/ RelisterWake

ReflectorStep ==
    ListBegin \/ ListFetch \/ ListEnd \/ WatchAccepted \/ WatchExpired
    \/ WatchEnded

Next ==
    \/ Invalidate
    \/ \E d \in Definers : NotifyAdd(d) \/ NotifyUpdate(d) \/ NotifyDelete(d)
    \/ RelisterStep
    \/ ReflectorStep
    \/ \E w \in DOMAIN watches : WatchClose(w) \/ WatchTimeout(w)
    \/ \E d \in Definers : Settle(d)
    \/ Tick
    \/ Shutdown

(* The goroutines (relister, watch closers, reflector) are scheduled by  *)
(* the Go runtime and never stop while runnable; time passes; the server *)
(* eventually applies a definer's change.  Notifications, Invalidate     *)
(* calls, watch deadlines and shutdown are the environment's choice.     *)
Fairness ==
    /\ WF_vars(RelisterStep)
    /\ WF_vars(ReflectorStep)
    /\ WF_vars(\E w \in DOMAIN watches : WatchClose(w))
    /\ WF_vars(\E d \in Definers : Settle(d))
    /\ WF_vars(Tick)

Spec == Init /\ [][Next]_vars /\ Fairness

-----------------------------------------------------------------------------
TypeOK ==
    /\ resourceVersionI \in Nat \ {0}
    /\ needRelist \in BOOLEAN
    /\ relistAfter \in 0..RelistDelay
    /\ cancels \in Seq(Nat \ {0})
    /\ rscToDefiners \in [Resources -> SUBSET Definers]
    /\ definerToRscs \in [Definers -> SUBSET Resources]
    /\ relister \in [pc : {"top", "wait", "sleep", "exited"},
                     wait : 0..RelistDelay]
    /\ watches \in Seq(WatchStates)
    /\ ctxDone \in BOOLEAN
    /\ cache \in [valid : BOOLEAN, rsc : SUBSET Resources,
                 failed : SUBSET Resources]
    /\ reflector \in [pc : {"list", "fetch", "enum", "watch", "watching"},
                      rv : Nat, listRV : Nat, fetched : SUBSET Resources,
                      watch : Nat]
    /\ DOMAIN store \subseteq Resources
    /\ \A r \in DOMAIN store : store[r] \subseteq Definers
    /\ defined \subseteq Definers /\ established \subseteq Definers
    /\ events \in 0..MaxEvents /\ timeouts \in 0..MaxTimeouts
    /\ failures \in 0..MaxFailures
    /\ invals \in 0..MaxEvents /\ fetchInvals \in 0..invals
    /\ sinceInval \in 0..RelistDelay


-----------------------------------------------------------------------------
(* Definer index: the two mirror maps of rlw always agree with each      *)
(* other and with the definer objects that exist, whatever order the     *)
(* Add/Update/Delete notifications of different definers arrive in       *)
(* (setDefinerLocked under rlw.mutex).                                   *)
DefinerIndexFaithful ==
    \A d \in Definers :
       /\ definerToRscs[d] = IF d \in defined THEN Defines[d] ELSE {}
       /\ \A r \in Resources :
             d \in rscToDefiners[r] <=> r \in definerToRscs[d]

(* Watch accepts a version only if the discovery fetch of the List that  *)
(* produced it came after every invalidation so far: List bumps          *)
(* resourceVersionI before its unlocked fetch and every invalidation     *)
(* bumps it too, so an invalidation racing the List makes Watch expire.  *)
AcceptedWatchSawLastInvalidation ==
    [][ (reflector.pc = "watch" /\ reflector'.pc = "watching")
           => fetchInvals = invals ]_vars

(* Nagling: the relist goroutine cancels the open watches only when a    *)
(* full RelistDelay has elapsed since the latest invalidation, measured  *)
(* on a clock of its own, not on rlw.relistAfter.  Several invalidations *)
(* in one window thus give one cycle after the last of them, also when   *)
(* one lands while the goroutine sleeps a wait computed from the older   *)
(* deadline (it must sleep again, not cycle on waking).                   *)
CycleAwaitsQuietWindow ==
    [][ (needRelist /\ ~needRelist') => sinceInval = RelistDelay ]_vars

(* The catalog as its consumer sees it (ListWatchCatalog): the version,  *)
(* the version of the list the reflector holds (the one List is about to *)
(* return while it is in flight), the watch sessions (a done context is   *)
(* an ended session even before its channel is closed), the staleness    *)
(* flag and the owning context.                                           *)
Catalog == INSTANCE ListWatchCatalog
    WITH version  <- resourceVersionI,
         listed   <- IF reflector.pc \in {"fetch", "enum"}
                     THEN reflector.listRV ELSE reflector.rv,
         sessions <- [w \in DOMAIN watches |->
                        IF watches[w] = "live" THEN "open" ELSE "ended"],
         stale    <- needRelist,
         stopped  <- ctxDone

(* Every step of List, Watch, the handlers, the relist goroutine and the *)
(* watch goroutines is a step of the abstract catalog or leaves its view *)
(* unchanged: versions come only from List and invalidations, one at a   *)
(* time; Watch opens a session only at the version of the reflector's    *)
(* list; only a deadline, a List, a cycle or shutdown ends a session.    *)
CatalogSafety == Catalog!SafetySpec

(* ... and with the fairness of the goroutines, every invalidation is    *)
(* eventually followed by a relist cycle ending every open session: the  *)
(* Broadcast is never lost and a sleep always ends.                      *)
CatalogImplemented == Catalog!Spec

(* Every invalidation is eventually followed by a List of the reflector  *)
(* whose discovery fetch comes after it: the relist goroutine ends the   *)
(* open watch and the reflector's next Watch expires.                    *)
ReflectorEventuallyResyncs ==
    \A n \in 1..MaxEvents : (invals >= n) ~> (fetchInvals >= n)

(* Once the server has applied every definer change, the relist deadline *)
(* has passed and the reflector holds an open watch, its store is what    *)
(* the server serves, with the definers of each resource.  This is what  *)
(* the delayed re-query of NewAPIResourceInformer's comment is for.      *)
QuietStoreIsCurrent ==
    (/\ Settling = {}
     /\ ~needRelist
     /\ reflector.pc = "watching"
     /\ watches[reflector.watch] = "live")
    => /\ ListerList(TRUE) = Served
       /\ \A r \in Served :
             ListerGet(r) = [found |-> TRUE, definers |-> rscToDefiners[r]]

(* rlw.cancels holds no handle of a watch whose goroutine has already   *)
(* closed its result channel: a finished session's cancel function is    *)
(* released (Watch appends one per accepted call).                       *)
CancelsOnlyUnclosedWatches ==
    \A i \in 1..Len(cancels) : watches[cancels[i]] # "closed"

(* A discovery error only costs "no data this round" and heals on the    *)
(* next list: a builtin resource that a failed discovery request left    *)
(* out of the reflector's store while it watches eventually appears in   *)
(* it (List logs the error of listWithSubresources and lists the rest).  *)
PartialListHeals ==
    \A r \in Builtin :
       (reflector.pc = "watching" /\ r \notin DOMAIN store) ~> (r \in DOMAIN store)

(* Once the context given to NewAPIResourceInformer is done, the relist  *)
(* goroutine eventually returns.                                         *)
RelisterExitsAfterShutdown ==
    ctxDone ~> (relister.pc = "exited")

=============================================================================
