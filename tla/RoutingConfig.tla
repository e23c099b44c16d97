--------------------------- MODULE RoutingConfig ---------------------------
(***************************************************************************)
(* The routing configuration service (internal/routingconfig/service.go):  *)
(* which product routes are enabled, which the installed Codex reports     *)
(* (discovery), which a probe found to work (availability), and the catalog*)
(* computed from the three, kept by content hash in memory (the registry)  *)
(* and on disk.  The service's mutex is held from a change until its       *)
(* catalog is on disk; the registry has a lock of its own, so a launch may *)
(* resolve against a catalog that is not stored yet.  Probes run unlocked. *)
(* Requests of the host are serialised by the RPC server.                  *)
(***************************************************************************)
EXTENDS Routing

Unprofiled == "other"     \* a model Codex reports that the product does not qualify
Models     == Routes \cup {Unprofiled}

CONSTANTS
    MutationIDs,    \* names a host gives to configuration updates
    MaxReceipts,    \* maxMutationReceipts
    MaxRevision,    \* bound: updates of the configuration
    MaxEvents,      \* bound: requests, faults, expiries and changes upstream together
    Faults,         \* the files whose write may fail: "config", "availability", "discovery",
                    \* "catalog" and, of the Team routes, "drivers"
    MayCrash,       \* the engine may stop at any step
    Reports,        \* what the installed Codex may report as its models
    Upstream        \* the sets of routes that may work upstream

ASSUME RoutingAssumption == Reports \subseteq SUBSET Models /\ Upstream \subseteq SUBSET Routes

VARIABLES
    engine,         \* "up" or "down"
    config,         \* enabled routes, revision, receipts of the latest mutations
    discovered,     \* models the installed Codex reported; {}: never asked
    available,      \* per route the unexpired result of its last probe
    registry,       \* the active catalog and the catalogs known by hash
    disk,           \* the files: config, discovered, available, catalogs
    mu,             \* the service's mutex: "free", or who holds it and what is left to do
    host,           \* the host's request in progress
    accepted,       \* the routes enabled by the accepted updates alone
    refused,        \* routes whose last update was refused after it was tried
    works,          \* upstream: the routes that would execute now
    events          \* how many of MaxEvents have happened

configVars == <<engine, config, discovered, available, registry, disk, mu, host,
                accepted, refused, works, events>>

Statuses   == {"unknown", "available", "unavailable"}
Idle       == [op |-> "idle"]
Free       == [by |-> None, next |-> None]

Configurations ==
    [enabled : SUBSET Routes, revision : Nat,
     receipts : Seq([mutation : MutationIDs, route : Routes, enabled : BOOLEAN])]
Availability == [Routes -> Statuses]
Catalogs     == SUBSET Routes
Files ==
    [config : Configurations, discovered : SUBSET Models, available : Availability, catalogs : SUBSET Catalogs]

Events(n) == events + n <= MaxEvents /\ events' = events + n

(* A failing write is one more event.                                       *)
Fault(file, fails) == fails => file \in Faults
Cost(fails)        == IF fails THEN 1 ELSE 0

Discovered(r, models) == models = {} \/ r \in models

(* buildEffectiveCatalog: enabled, not missing from what was discovered, and *)
(* not found unavailable; {} is its error.                                  *)
buildEffectiveCatalog(enabled, models, status) ==
    {r \in enabled : Discovered(r, models) /\ status[r] # "unavailable"}

Effective == buildEffectiveCatalog(config.enabled, discovered, available)

SetActive(catalog) == registry' = [active |-> catalog, known |-> registry.known \cup {catalog}]

(* rebuildActiveCatalog up to its write: the catalog is active before it is *)
(* on disk; the mutex stays held for the write.  Without a route it fails    *)
(* and the active catalog stays what it was.                                *)
rebuildActiveCatalog(catalog, by, next) ==
    IF catalog = {} THEN UNCHANGED registry /\ mu' = Free
    ELSE SetActive(catalog) /\ mu' = [by |-> by, next |-> next]

(* setAvailability for every probed route.                                  *)
setAvailability(probe) ==
    [r \in Routes |-> IF r \notin probe.routes THEN available[r]
                      ELSE IF r \in probe.ok THEN "available" ELSE "unavailable"]

(* Probe, after the inspector answered: the results replace what was known, *)
(* even by a newer probe, the file is written and the catalog rebuilt; a     *)
(* failed write ends it before the catalog follows.                         *)
Probed(probe, by, fails) ==
    /\ mu = Free
    /\ Fault("availability", fails)
    /\ available' = setAvailability(probe)
    /\ IF fails THEN UNCHANGED <<disk, registry, mu>>
       ELSE /\ disk' = [disk EXCEPT !.available = available']
            /\ rebuildActiveCatalog(buildEffectiveCatalog(config.enabled, discovered, available'),
                                    by, "persist")

(* Probe, its start, for every enabled route or for a named one: a route     *)
(* that was not discovered is refused (selectedProfiles); otherwise the      *)
(* inspector asks upstream.                                                 *)
selectedProfiles(routes) == \A r \in routes : Discovered(r, discovered)

HostProbe(routes) ==
    /\ engine = "up" /\ host = Idle /\ mu = Free
    /\ routes # {} /\ selectedProfiles(routes)
    /\ Events(1)
    /\ host' = [op |-> "probe", routes |-> routes, ok |-> routes \cap works]
    /\ UNCHANGED <<engine, config, discovered, available, registry, disk, mu, accepted, refused, works>>

HostProbed(fails) ==
    /\ host.op = "probe"
    /\ Events(Cost(fails))
    /\ Probed(host, "host", fails)
    /\ host' = Idle
    /\ UNCHANGED <<engine, config, discovered, accepted, refused, works>>

(* Discover: what Codex reports replaces the cache, before the catalog.     *)
Discover(models, fails) ==
    /\ engine = "up" /\ host = Idle /\ mu = Free
    /\ Fault("discovery", fails)
    /\ Events(1 + Cost(fails))
    /\ discovered' = models
    /\ IF fails THEN UNCHANGED <<disk, registry, mu>>
       ELSE /\ disk' = [disk EXCEPT !.discovered = models]
            /\ rebuildActiveCatalog(buildEffectiveCatalog(config.enabled, models, available),
                                    "host", "persist")
    /\ UNCHANGED <<engine, config, available, host, accepted, refused, works>>

(* `previous` shares the slice of routes with the configuration, so putting *)
(* it back restores the revision and the receipts and leaves the changed    *)
(* route as the refused update made it.                                     *)
Restored(changed, previous) == [changed EXCEPT !.revision = previous.revision,
                                               !.receipts = previous.receipts]

Receipt(m, r, on) == [mutation |-> m, route |-> r, enabled |-> on]

LastReceipts(s) == IF Len(s) > MaxReceipts THEN Tail(s) ELSE s

(* ConfigUpdate under the mutex: a known mutation is replayed (no change), a *)
(* stale revision refused (no change); otherwise the route is changed, and  *)
(* the update refused if no route is left enabled or none is usable.        *)
ConfigUpdate(m, r, on) ==
    /\ engine = "up" /\ host = Idle /\ mu = Free
    /\ \A i \in DOMAIN config.receipts : config.receipts[i].mutation # m
    /\ config.revision < MaxRevision
    /\ Events(1)
    /\ LET enabled == IF on THEN config.enabled \cup {r} ELSE config.enabled \ {r}
           changed == [enabled  |-> enabled, revision |-> config.revision + 1,
                       receipts |-> LastReceipts(Append(config.receipts, Receipt(m, r, on)))]
           catalog == buildEffectiveCatalog(enabled, discovered, available)
       IN /\ rebuildActiveCatalog(catalog, "host", "write")
          /\ IF catalog = {}
             THEN /\ config' = Restored(changed, config)
                  /\ refused' = IF enabled = config.enabled THEN refused ELSE refused \cup {r}
                  /\ UNCHANGED host
             ELSE /\ config' = changed
                  /\ host' = [op |-> "update", route |-> r, enabled |-> on, previous |-> config]
                  /\ UNCHANGED refused
    /\ UNCHANGED <<engine, discovered, available, disk, accepted, works>>

(* A failed update puts the configuration back and rebuilds the catalog,    *)
(* whose own failure is ignored.                                            *)
UndoUpdate ==
    LET back == Restored(config, host.previous) IN
    /\ config' = back
    /\ refused' = IF back.enabled = host.previous.enabled THEN refused ELSE refused \cup {host.route}
    /\ UNCHANGED accepted

(* persistActiveCatalog: the write that makes a decision's catalog durable. *)
(* An update still has its configuration to write.                          *)
persistActiveCatalog(fails) ==
    /\ mu.next \in {"persist", "write", "undo"}
    /\ Fault("catalog", fails)
    /\ Events(Cost(fails))
    /\ IF fails THEN UNCHANGED disk
       ELSE disk' = [disk EXCEPT !.catalogs = @ \cup {registry.active}]
    /\ CASE mu.next = "persist"             -> mu' = Free /\ UNCHANGED <<config, host, accepted, refused>>
         [] mu.next = "write" /\ ~fails     -> /\ mu' = [by |-> "host", next |-> "config"]
                                               /\ UNCHANGED <<config, host, accepted, refused>>
         [] mu.next = "write" /\ fails      -> mu' = Free /\ UndoUpdate /\ host' = Idle
         [] mu.next = "undo"                -> mu' = Free /\ host' = Idle /\ UNCHANGED <<config, accepted, refused>>
    /\ UNCHANGED <<engine, discovered, available, registry, works>>

(* Mutant of writeConfig: the update is answered although the file was not  *)
(* written.                                                                 *)
writeConfigAnyway(fails) ==
    /\ mu.next = "config"
    /\ Fault("config", fails)
    /\ Events(Cost(fails))
    /\ accepted' = IF host.enabled THEN accepted \cup {host.route} ELSE accepted \ {host.route}
    /\ refused' = refused \ {host.route}
    /\ disk' = IF fails THEN disk ELSE [disk EXCEPT !.config = config]
    /\ mu' = Free /\ host' = Idle
    /\ UNCHANGED <<engine, discovered, available, works, config, registry>>

(* The write of the configuration ends an update: it is answered, or put    *)
(* back and the catalog rebuilt.                                            *)
writeConfig(fails) ==
    /\ mu.next = "config"
    /\ Fault("config", fails)
    /\ Events(Cost(fails))
    /\ IF ~fails
       THEN /\ disk' = [disk EXCEPT !.config = config]
            /\ accepted' = IF host.enabled THEN accepted \cup {host.route} ELSE accepted \ {host.route}
            /\ refused' = refused \ {host.route}
            /\ mu' = Free /\ host' = Idle
            /\ UNCHANGED <<config, registry>>
       ELSE /\ UndoUpdate
            /\ rebuildActiveCatalog(buildEffectiveCatalog(config.enabled, discovered, available), "host", "undo")
            /\ host' = IF mu' = Free THEN Idle ELSE host
            /\ UNCHANGED disk
    /\ UNCHANGED <<engine, discovered, available, works>>

(* A probe result lasts availabilityTTL, in memory and in the file; the      *)
(* catalog is not rebuilt when one expires.                                 *)
Expire(r) ==
    /\ available[r] # "unknown" \/ disk.available[r] # "unknown"
    /\ Events(1)
    /\ available' = [available EXCEPT ![r] = "unknown"]
    /\ disk' = [disk EXCEPT !.available[r] = "unknown"]
    /\ UNCHANGED <<engine, config, discovered, registry, mu, host, accepted, refused, works>>

(* Upstream changes which models it executes.                               *)
UpstreamChanges(routes) ==
    /\ routes # works
    /\ Events(1)
    /\ works' = routes
    /\ UNCHANGED <<engine, config, discovered, available, registry, disk, mu, host, accepted, refused>>

(* The engine stops; the files stay.                                        *)
StopConfig ==
    /\ engine = "up" /\ MayCrash
    /\ Events(1)
    /\ engine' = "down" /\ mu' = Free /\ host' = Idle
    /\ UNCHANGED <<config, discovered, available, registry, disk, accepted, refused, works>>

(* NewService: load, loadCatalogSnapshots, buildEffectiveCatalog (the engine *)
(* exits when no route is usable), then the active catalog is registered and *)
(* written.                                                                 *)
NewService ==
    LET catalog == buildEffectiveCatalog(disk.config.enabled, disk.discovered, disk.available) IN
    /\ engine = "down" /\ catalog # {}
    /\ engine' = "up"
    /\ config' = disk.config /\ discovered' = disk.discovered /\ available' = disk.available
    /\ registry' = [active |-> catalog, known |-> disk.catalogs \cup {catalog}]
    /\ disk' = [disk EXCEPT !.catalogs = @ \cup {catalog}]
    /\ UNCHANGED <<mu, host, accepted, refused, works, events>>

InitConfig ==
    LET first == [enabled |-> Routes, revision |-> 1, receipts |-> << >>]
        none  == [r \in Routes |-> "unknown"]
    IN /\ engine = "up" /\ config = first /\ discovered = {} /\ available = none
       /\ registry = [active |-> Routes, known |-> {Routes}]
       /\ disk = [config |-> first, discovered |-> {}, available |-> none, catalogs |-> {Routes}]
       /\ mu = Free /\ host = Idle /\ accepted = Routes /\ refused = {}
       /\ works \in Upstream /\ events = 0

HostStep ==
    \/ HostProbe(config.enabled)
    \/ \E r \in Routes : HostProbe({r})
    \/ \E fails \in BOOLEAN : HostProbed(fails)
    \/ \E models \in Reports, fails \in BOOLEAN : Discover(models, fails)
    \/ \E m \in MutationIDs, r \in Routes, on \in BOOLEAN : ConfigUpdate(m, r, on)
    \/ \E fails \in BOOLEAN : writeConfig(fails)

ServiceStep == \E fails \in BOOLEAN : persistActiveCatalog(fails)

WorldStep ==
    \/ \E r \in Routes : Expire(r)
    \/ \E routes \in Upstream : UpstreamChanges(routes)

-----------------------------------------------------------------------------
ConfigTypeOK ==
    /\ engine \in {"up", "down"} /\ config \in Configurations /\ disk \in Files
    /\ discovered \subseteq Models /\ available \in Availability
    /\ registry \in [active : Catalogs, known : SUBSET Catalogs]
    /\ mu.next \in {None, "persist", "write", "config", "undo"}
    /\ accepted \subseteq Routes /\ refused \subseteq Routes /\ works \subseteq Routes

(* An update that was answered is kept: the file says of every route what   *)
(* the accepted updates said, through crashes, failed writes and later       *)
(* updates, except of a route whose latest update was refused while it was   *)
(* applied (ConfigUpdate, service.go).                                      *)
AcceptedIsKept == \A r \in Routes \ refused : r \in disk.config.enabled <=> r \in accepted

(* A refused update changes nothing: what the file says comes from accepted *)
(* updates alone ("must fail closed before the persisted config changes",   *)
(* service_test.go).                                                        *)
RefusedIsNotApplied == disk.config.enabled = accepted
=============================================================================
