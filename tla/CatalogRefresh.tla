--------------------------- MODULE CatalogRefresh ---------------------------
(***************************************************************************)
(* How a vendor's model listing reaches the host's registry: the workers   *)
(* that run catalog.Run (the scheduler's tick, the operator's button) drop *)
(* the plugin's cache, discover, fill it again and publish; publishing     *)
(* makes the host ask model.for_auth, which answers from the cache or, if  *)
(* that is empty or too old, discovers on its own and fills it as well.    *)
(* The workers exclude each other by refreshLock, model.for_auth takes no  *)
(* part in it. A listing is a number that grows when the vendor changes it.*)
(***************************************************************************)
EXTENDS Integers

CONSTANTS
    Workers,        \* goroutines that may be inside catalog.Run
    Ticking,        \* those that publish only on change: the scheduler's ticks
    MaxListing,     \* bound: the last listing the vendor has
    MaxFailures,    \* bound: how often a discovery of a worker fails
    PublishFails,   \* may a publish fail (as often as a discovery)?
    ForAuthFails,   \* may a discovery of model.for_auth fail?
    Overlaps        \* may model.for_auth be at work during a refresh?

ASSUME WorkersAssumption == Ticking \subseteq Workers
ASSUME BoundsAssumption == MaxListing \in Nat \ {0} /\ MaxFailures \in Nat
ASSUME FailuresAssumption ==
    PublishFails \in BOOLEAN /\ ForAuthFails \in BOOLEAN /\ Overlaps \in BOOLEAN

Nothing == -1                       \* an empty cache
Builtin == 0                        \* the table compiled into the plugin
Listings == 1..MaxListing
Free == [pc |-> "idle", previous |-> Nothing, found |-> Nothing]

VARIABLES
    vendor,     \* the vendor's current listing
    failures,   \* how often something failed
    cache,      \* modelCache.models
    fresh,      \* is the cache within its TTL?
    registry,   \* the listing GET /v1/models serves
    nudged,     \* has the host noticed a changed auth file?
    missed,     \* has the host, since then, missed what no tick tells it again?
    lock,       \* is refreshLock taken?
    worker,     \* where a worker is, what it replaces, what it found
    asked       \* the same for the host's model.for_auth call

vars == <<vendor, failures, cache, fresh, registry, nudged, missed, lock, worker, asked>>

Init ==
    /\ vendor = 1
    /\ failures = 0
    /\ cache = Nothing
    /\ fresh = FALSE
    /\ registry = Builtin
    /\ nudged = FALSE
    /\ missed = FALSE
    /\ lock = FALSE
    /\ worker = [w \in Workers |-> Free]
    /\ asked = Free

Reset == cache' = Nothing /\ fresh' = FALSE
Put(listing) == cache' = listing /\ fresh' = TRUE

Fail ==
    /\ failures < MaxFailures
    /\ failures' = failures + 1

----------------------------------------------------------------------------
(* The vendor changes its listing; the cache ages.                         *)

VendorMoves ==
    /\ vendor < MaxListing
    /\ vendor' = vendor + 1
    /\ UNCHANGED <<failures, cache, fresh, registry, nudged, missed, lock, worker, asked>>

Expire ==
    /\ fresh
    /\ fresh' = FALSE
    /\ UNCHANGED <<vendor, failures, cache, registry, nudged, missed, lock, worker, asked>>

----------------------------------------------------------------------------
(* catalog.Run with the plugin's catalogueRefresh.                         *)

Begin(w) ==
    /\ worker[w].pc = "idle"
    /\ ~lock
    /\ Overlaps \/ asked.pc = "idle"
    /\ lock' = TRUE
    /\ worker' = [worker EXCEPT ![w].pc = "peek"]
    /\ UNCHANGED <<vendor, failures, cache, fresh, registry, nudged, missed, asked>>

Peek(w) ==
    /\ worker[w].pc = "peek"
    /\ worker' = [worker EXCEPT ![w].pc = "reset", ![w].previous = cache]
    /\ UNCHANGED <<vendor, failures, cache, fresh, registry, nudged, missed, lock, asked>>

Drop(w) ==
    /\ worker[w].pc = "reset"
    /\ Reset
    /\ worker' = [worker EXCEPT ![w].pc = "discover"]
    /\ UNCHANGED <<vendor, failures, registry, nudged, missed, lock, asked>>

(* Slips: a failed refresh forgets the lock; a change is only noticed in   *)
(* an empty cache; a refresh is served from the cache.                     *)
ReleaseNever == UNCHANGED lock
ChangedIfNothing(w) == worker[w].previous = Nothing
ListedBefore(w) == IF worker[w].previous = Nothing THEN vendor ELSE worker[w].previous

(* A refresh asks the vendor, whatever was in the cache.                   *)
Listed(w) == vendor

(* Run's deferred unlock, on every way out.                                *)
Release == lock' = FALSE

Finish(w) == worker' = [worker EXCEPT ![w] = Free]

Discover(w) ==
    /\ worker[w].pc = "discover"
    /\ \/ /\ worker' = [worker EXCEPT ![w].pc = "put", ![w].found = Listed(w)]
          /\ UNCHANGED <<failures, lock>>
       \/ /\ Fail
          /\ Release
          /\ Finish(w)
    /\ UNCHANGED <<vendor, cache, fresh, registry, nudged, missed, asked>>

Store(w) ==
    /\ worker[w].pc = "put"
    /\ Put(worker[w].found)
    /\ worker' = [worker EXCEPT ![w].pc = "publish"]
    /\ UNCHANGED <<vendor, failures, registry, nudged, missed, lock, asked>>

Changed(w) == worker[w].found # worker[w].previous

(* publishTarget and Publish: the button always publishes, a tick when the *)
(* listing moved. The host notices the changed file later.                 *)
Publish(w) ==
    /\ worker[w].pc = "publish"
    /\ IF w \in Ticking /\ ~Changed(w)
       THEN UNCHANGED <<nudged, missed, failures>>
       ELSE \/ nudged' = TRUE /\ missed' = FALSE /\ UNCHANGED failures
            \/ PublishFails /\ Fail /\ missed' = TRUE /\ UNCHANGED nudged
    /\ lock' = FALSE
    /\ Finish(w)
    /\ UNCHANGED <<vendor, cache, fresh, registry, asked>>

----------------------------------------------------------------------------
(* handleModelForAuth, which the host calls for a changed file or for      *)
(* reasons of its own, one call at a time.                                 *)

Ask ==
    /\ asked.pc = "idle"
    /\ Overlaps \/ ~lock
    /\ asked' = [asked EXCEPT !.pc = "look"]
    /\ nudged' = FALSE
    /\ UNCHANGED <<vendor, failures, cache, fresh, registry, missed, lock, worker>>

Look ==
    /\ asked.pc = "look"
    /\ asked' = IF cache # Nothing /\ fresh
                THEN [asked EXCEPT !.pc = "answer", !.found = cache]
                ELSE [asked EXCEPT !.pc = "discover"]
    /\ UNCHANGED <<vendor, failures, cache, fresh, registry, nudged, missed, lock, worker>>

DiscoverForAuth ==
    /\ asked.pc = "discover"
    /\ \/ /\ asked' = [asked EXCEPT !.pc = "put", !.found = vendor]
          /\ UNCHANGED <<failures, missed>>
       \/ /\ ForAuthFails
          /\ Fail
          /\ asked' = [asked EXCEPT !.pc = "answer", !.found = Builtin]
          /\ missed' = (missed \/ lock \/ cache # Nothing)
    /\ UNCHANGED <<vendor, cache, fresh, registry, nudged, lock, worker>>

StoreForAuth ==
    /\ asked.pc = "put"
    /\ Put(asked.found)
    /\ asked' = [asked EXCEPT !.pc = "answer"]
    /\ missed' = (missed \/ lock)
    /\ UNCHANGED <<vendor, failures, registry, nudged, lock, worker>>

Register ==
    /\ asked.pc = "answer"
    /\ registry' = asked.found
    /\ asked' = Free
    /\ UNCHANGED <<vendor, failures, cache, fresh, nudged, missed, lock, worker>>

----------------------------------------------------------------------------

Run(w) == Peek(w) \/ Drop(w) \/ Discover(w) \/ Store(w) \/ Publish(w)
ForAuth == Look \/ DiscoverForAuth \/ StoreForAuth \/ Register

Next ==
    \/ VendorMoves \/ Expire
    \/ \E w \in Workers : Begin(w) \/ Run(w)
    \/ Ask \/ ForAuth

Spec == Init /\ [][Next]_vars

(* The ticker fires again and again and Go's mutex starves nobody; what    *)
(* has begun goes on; the host acts on a changed file between two ticks.   *)
(* Nobody need press the button, nor need the host ask for other reasons.  *)
FairSpec ==
    /\ Spec
    /\ \A w \in Ticking : SF_vars(Begin(w))
    /\ \A w \in Workers : WF_vars(Run(w))
    /\ WF_vars(ForAuth)
    /\ SF_vars(nudged /\ Ask)

----------------------------------------------------------------------------
(* Types, and the lock is taken exactly while one worker is at work.       *)
TypeOK ==
    /\ vendor \in Listings
    /\ failures \in Nat
    /\ cache \in Listings \union {Nothing}
    /\ fresh \in BOOLEAN
    /\ registry \in Listings \union {Builtin}
    /\ nudged \in BOOLEAN /\ missed \in BOOLEAN
    /\ worker \in [Workers -> [pc : {"idle", "peek", "reset", "discover", "put", "publish"},
                               previous : Listings \union {Nothing},
                               found : Listings \union {Nothing}]]
    /\ asked \in [pc : {"idle", "look", "discover", "put", "answer"}, previous : {Nothing},
                  found : Listings \union {Nothing, Builtin}]
    /\ \A v, w \in Workers : worker[v].pc # "idle" /\ worker[w].pc # "idle" => v = w
    /\ lock <=> \E w \in Workers : worker[w].pc # "idle"

(* Nothing discovered stays unpublished: when neither a worker nor the     *)
(* host is at work, the registry serves what the cache holds. A refresh    *)
(* judges by the cache whether its listing moved, not by what was last     *)
(* published, so the exceptions are what the cache does not show: a        *)
(* publish that failed, the builtin table registered while the plugin had  *)
(* a listing, and a listing model.for_auth stored into a refresh under     *)
(* way. They last until the host is next told to ask.                      *)
SettledMeansPublished ==
    ~lock /\ ~nudged /\ asked.pc = "idle" /\ cache # Nothing => registry = cache \/ missed

(* Once the vendor stops moving and discoveries stop failing, the registry *)
(* comes to serve the vendor's listing and goes on to, unless it has       *)
(* missed something of these kinds and nothing moves any more.             *)
RegistryCatchesUp == <>[](registry = vendor \/ missed)

(* "That is what keeps the host registry - and therefore GET /v1/models -  *)
(* current without a client request": the same without the exceptions.     *)
RegistryFollows == <>[](registry = vendor)
=============================================================================
