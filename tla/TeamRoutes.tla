---------------------------- MODULE TeamRoutes -----------------------------
(***************************************************************************)
(* The Team half of the routing service (routingconfig/team_routes.go) and *)
(* what the engine does with it (cmd/wf-engine/main.go): durable Team      *)
(* routes, the Agent CLIs found on the machine, the catalog of enabled     *)
(* routes with an installed CLI, and its application to the Team service,  *)
(* which happens after the mutex is released.  Below two routes there is no*)
(* catalog and the Team service keeps the one it has.                      *)
(***************************************************************************)
EXTENDS RoutingConfig

CONSTANTS
    TeamRouteIDs,   \* the route identifiers in use
    BuiltinRoutes,  \* those of defaultTeamRoutes: disabled at most, never removed
    DriverOf,       \* the Agent CLI of a route
    Installations   \* the sets of CLIs the machine may have

VARIABLES
    team,           \* teamConfig: per route "on", "off" or "absent", and the revision
    drivers,        \* the CLIs found by the last discovery
    unwritten,      \* the last discovery could not be written, and was not applied
    live,           \* the Team service: the catalog of new Teams, and the ones known by hash
    teamDisk,       \* the files: team-routing.json and the catalogs
    installed,      \* the CLIs on the machine
    teams           \* the catalogs recorded in the snapshots of the Teams

teamVars == <<team, drivers, unwritten, live, teamDisk, installed, teams>>

MinParticipants == 2

(* effectiveTeamCatalogLocked, {} below two routes.                          *)
effectiveTeamCatalog(routes, found) ==
    LET models == {t \in TeamRouteIDs : routes[t] = "on" /\ DriverOf[t] \in found}
    IN IF Cardinality(models) < MinParticipants THEN {} ELSE models

(* persistTeamCatalogLocked.                                                *)
Persisted(files, catalog) ==
    IF catalog = {} THEN files ELSE [files EXCEPT !.catalogs = @ \cup {catalog}]

(* Mutant of ToApply: a catalog the Team service knows is taken for applied. *)
ToApplyUnknown(catalog) ==
    IF catalog = {} \/ catalog \in live.known THEN Idle ELSE [op |-> "apply", catalog |-> catalog]

(* What is left to do once the mutex is released.                           *)
ToApply(catalog) == IF catalog = {} THEN Idle ELSE [op |-> "apply", catalog |-> catalog]

(* mutateTeamRoutes: the change is written, then its catalog; a built-in     *)
(* route cannot be removed, at least one route stays.  A replay, a stale     *)
(* revision and a failed write of the configuration change nothing.         *)
mutateTeamRoutes(t, setting) ==
    /\ engine = "up" /\ host = Idle /\ mu = Free
    /\ setting = "absent" => t \notin BuiltinRoutes
    /\ team.revision < MaxRevision
    /\ Events(1)
    /\ LET changed == [routes |-> [team.routes EXCEPT ![t] = setting], revision |-> team.revision + 1]
           catalog == effectiveTeamCatalog(changed.routes, drivers)
       IN /\ \E u \in TeamRouteIDs : changed.routes[u] # "absent"
          /\ team' = changed
          /\ teamDisk' = Persisted([teamDisk EXCEPT !.team = changed], catalog)
          /\ host' = ToApply(catalog)
    /\ unwritten' = FALSE
    /\ UNCHANGED <<drivers, live, installed, teams, engine, config, discovered, available,
                   registry, disk, mu, accepted, refused, works>>

(* TeamRoutesRefresh: the CLIs are looked up again.  If they cannot be       *)
(* written the request fails, and what was found stays in memory.           *)
TeamRoutesRefresh ==
    /\ engine = "up" /\ host = Idle /\ mu = Free
    /\ Events(1)
    /\ drivers' = installed
    /\ \/ /\ LET catalog == effectiveTeamCatalog(team.routes, installed)
             IN /\ teamDisk' = Persisted(teamDisk, catalog)
                /\ host' = ToApply(catalog)
          /\ unwritten' = FALSE
       \/ /\ "drivers" \in Faults
          /\ unwritten' = TRUE
          /\ UNCHANGED <<teamDisk, host>>
    /\ UNCHANGED <<team, live, installed, teams, engine, config, discovered, available,
                   registry, disk, mu, accepted, refused, works>>

(* SetCatalog of the Team service: new Teams use the catalog, the earlier    *)
(* ones stay known.                                                         *)
SetCatalog(catalog) == [current |-> catalog, known |-> live.known \cup {live.current, catalog}]

(* ApplyTeamRoutes, outside the mutex.                                      *)
ApplyTeamRoutes ==
    /\ host.op = "apply"
    /\ live' = SetCatalog(host.catalog)
    /\ host' = Idle
    /\ UNCHANGED <<team, drivers, unwritten, teamDisk, installed, teams, engine, config, discovered,
                   available, registry, disk, mu, accepted, refused, works, events>>

(* Team.Start records the hash of the live catalog.  Until a catalog was     *)
(* applied no Driver is registered, and no Team starts.                     *)
StartTeam ==
    /\ engine = "up" /\ host = Idle
    /\ live.current # {} /\ live.current \notin teams
    /\ Events(1)
    /\ teams' = teams \cup {live.current}
    /\ UNCHANGED <<team, drivers, unwritten, live, teamDisk, installed, engine, config, discovered,
                   available, registry, disk, mu, host, accepted, refused, works>>

(* A CLI is installed or removed.                                           *)
InstalledChanges(found) ==
    /\ found # installed
    /\ Events(1)
    /\ installed' = found
    /\ UNCHANGED <<team, drivers, unwritten, live, teamDisk, teams, engine, config, discovered, available,
                   registry, disk, mu, host, accepted, refused, works>>

(* loadTeamRoutes, TeamCatalogHistory and SetTeamRouteApplier at the start of *)
(* the engine: the CLIs are looked up, the catalog is written and applied;  *)
(* with too few routes the built-in catalog stands in ({} here).            *)
StartTeamRoutes ==
    LET catalog == effectiveTeamCatalog(teamDisk.team.routes, installed) IN
    /\ team' = teamDisk.team
    /\ drivers' = installed
    /\ unwritten' = FALSE
    /\ teamDisk' = Persisted(teamDisk, catalog)
    /\ live' = [current |-> catalog, known |-> teamDisk'.catalogs]
    /\ UNCHANGED <<installed, teams>>

InitTeamRoutes ==
    LET first == [routes   |-> [t \in TeamRouteIDs |-> IF t \in BuiltinRoutes THEN "on" ELSE "absent"],
                  revision |-> 1]
    IN /\ installed \in Installations
       /\ team = first /\ drivers = installed /\ unwritten = FALSE
       /\ LET catalog == effectiveTeamCatalog(first.routes, installed) IN
          /\ live = [current |-> catalog, known |-> {catalog} \ {{}}]
          /\ teamDisk = [team |-> first, catalogs |-> {catalog} \ {{}}]
       /\ teams = {}

TeamStep ==
    \/ \E t \in TeamRouteIDs, setting \in {"on", "off", "absent"} : mutateTeamRoutes(t, setting)
    \/ TeamRoutesRefresh
    \/ ApplyTeamRoutes
    \/ StartTeam
    \/ \E found \in Installations : InstalledChanges(found)

-----------------------------------------------------------------------------
TeamTypeOK ==
    LET routes == [TeamRouteIDs -> {"on", "off", "absent"}] IN
    /\ team \in [routes : routes, revision : Nat]
    /\ teamDisk \in [team : [routes : routes, revision : Nat], catalogs : SUBSET SUBSET TeamRouteIDs]
    /\ live \in [current : SUBSET TeamRouteIDs, known : SUBSET SUBSET TeamRouteIDs]
    /\ teams \subseteq SUBSET TeamRouteIDs
    /\ unwritten \in BOOLEAN

(* The catalog of new Teams is the one the configuration and the discovered  *)
(* CLIs make, whenever they make one and no request is in progress: nothing *)
(* is applied late or left out (mutateTeamRoutes, TeamRoutesRefresh,         *)
(* SetTeamRouteApplier).  After a discovery that could not be written it is *)
(* behind until the next refresh, change of a route or restart.             *)
TeamCatalogInStep ==
    engine = "up" /\ host = Idle /\ ~unwritten =>
        LET catalog == effectiveTeamCatalog(team.routes, drivers)
        IN catalog # {} => live.current = catalog
=============================================================================
