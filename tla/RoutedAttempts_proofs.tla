----------------------- MODULE RoutedAttempts_proofs ------------------------
(***************************************************************************)
(* Proofs about routing, for any number of Nodes, Attempts, updates, probes *)
(* and crashes: the catalog of every Attempt and Team can be resolved, an   *)
(* accepted update of the routes is kept, a Node changes its route only     *)
(* along its persisted chain, and its Attempts together keep the budget.    *)
(***************************************************************************)
EXTENDS RoutedAttempts, NaturalsInduction, WellFoundedInduction, TLAPS

-----------------------------------------------------------------------------
(***************************************************************************)
(* The inductive invariant: of the configuration, of the Team routes and   *)
(* of the Nodes.                                                           *)
(***************************************************************************)

\* An update is being applied: the configuration has it, the file has not.
Updating == mu.next \in {"write", "config"}

\* The files and the accepted updates say the same of these routes.
Agree(enabled) == \A r \in Routes \ refused : r \in enabled <=> r \in accepted

With(enabled, r, on) == IF on THEN enabled \cup {r} ELSE enabled \ {r}

UpdatesOK ==
  /\ mu.next \in {"write", "config", "undo"} => host.op = "update"
  /\ Updating => /\ host.route \in Routes /\ host.previous \in Configurations /\ Agree(host.previous.enabled)
                 /\ config.enabled = With(host.previous.enabled, host.route, host.enabled)
  /\ engine = "up" /\ ~Updating => Agree(config.enabled)
  /\ AcceptedIsKept

\* The catalog that is active and perhaps not on disk yet.
Unsaved == IF mu.next \in {"persist", "write", "undo"} THEN {registry.active} ELSE {}

Durable == "catalog" \notin Faults

CatalogsOK ==
  engine = "up" =>
    /\ disk.catalogs \subseteq registry.known /\ registry.active \in registry.known
    /\ Durable => registry.known \subseteq disk.catalogs \cup Unsaved

ConfigInv ==
  /\ ConfigTypeOK /\ UpdatesOK /\ CatalogsOK
  /\ engine = "down" => host = Idle /\ mu = Free

\* The catalog the Team routes make, and the one that is left to be applied.
TeamCatalog == effectiveTeamCatalog(team.routes, drivers)

TeamInv ==
  /\ TeamTypeOK
  /\ teams \subseteq teamDisk.catalogs
  /\ engine = "up" =>
       /\ teams \subseteq live.known
       /\ live.current # {} => live.current \in live.known \cap teamDisk.catalogs
       /\ host.op = "apply" => host.catalog = TeamCatalog /\ host.catalog \in teamDisk.catalogs
       /\ host.op # "apply" /\ ~unwritten /\ TeamCatalog # {} => live.current = TeamCatalog

Decided(c) == c.step \in {"gate", "ask", "asked", "reread", "pin", "reserve"}

\* The gate was passed while no catalog was unsaved.
Passed(c) == Decided(c) /\ (c.step = "gate" => c.pinned)

DecisionOK(n, d) == d.selected \in Routes /\ d.maxCost = requirement[n].maxCost

\* The decision of the latest Attempt, or the next one of its chain.
Follows(n, d) ==
  \/ d = Latest(n).decision
  \/ Latest(n).outcome = "unavailable" /\ d = AdvanceFallbackV1(Latest(n).decision)

\* A route to which the Node may be bound.
Bound(n, r) == r = Latest(n).decision.selected \/ Latest(n).outcome = "unavailable"

PhaseOK(n) ==
  /\ phase[n] # "ready" => attempts[n] # << >> /\ pending[n] = None
  /\ phase[n] = "ready" => (pending[n] = None <=> attempts[n] = << >>)
  /\ pending[n] # None => Bound(n, pending[n])

CallOK(n) ==
  LET c == call[n]
  IN Calling(n) =>
       /\ engine = "up"
       /\ IF c.kind = "launch" THEN phase[n] = "ready" ELSE phase[n] = "ended" /\ host.op = "action" /\ host.node = n
       /\ c.target = None <=> attempts[n] = << >>
       /\ c.target # None => Bound(n, c.target)
       /\ c.step \in {"resolve", "pin"} => ~c.pinned
       /\ c.step = "reserve" => c.pinned
       /\ Decided(c) => DecisionOK(n, c.decision)
       /\ Decided(c) /\ c.pinned /\ attempts[n] # << >> => Follows(n, c.decision)

\* Every catalog in use is on disk, or known and about to be.
HistoryOK(n) ==
  Durable =>
    /\ \A i \in DOMAIN attempts[n] : attempts[n][i].decision.catalog \in disk.catalogs
    /\ Passed(call[n]) => call[n].decision.catalog \in disk.catalogs
    /\ call[n].step = "gate" => call[n].decision.catalog \in registry.known

ChainOK(n) ==
  /\ \A i \in DOMAIN attempts[n] : DecisionOK(n, attempts[n][i].decision)
  /\ \A i \in 2 .. Len(attempts[n]) :
       \/ attempts[n][i].decision = attempts[n][i - 1].decision
       \/ /\ attempts[n][i - 1].outcome = "unavailable"
          /\ attempts[n][i].decision = AdvanceFallbackV1(attempts[n][i - 1].decision)

NodeTypeOK ==
  /\ requirement \in [Nodes -> Requirements] /\ attempts \in [Nodes -> Seq(AttemptRecords)]
  /\ pending \in [Nodes -> Routes \cup {None}] /\ phase \in [Nodes -> {"ready", "running", "ended"}]
  /\ call \in [Nodes -> CallRecords]

NodesInv ==
  /\ NodeTypeOK
  /\ \A n \in Nodes : PhaseOK(n) /\ CallOK(n) /\ HistoryOK(n) /\ ChainOK(n)
  /\ BudgetKept

RoutingInv == ConfigInv /\ TeamInv /\ NodesInv

-----------------------------------------------------------------------------
(***************************************************************************)
(* What the Attempts of a Node cost together.                              *)
(***************************************************************************)

\* Induction over the naturals, as the least counterexample.
LEMMA LeastElement ==
  ASSUME NEW T, T \subseteq Nat, T # {}
  PROVE  \E m \in T : \A k \in T : m <= k
<1>1. IsWellFoundedOn(OpToRel(<, Nat), Nat)
  BY NatLessThanWellFounded
<1>2. PICK m \in T : \A k \in T : ~(<<k, m>> \in OpToRel(<, Nat))
  BY <1>1, WFMin
<1>3. \A k \in T : ~(k < m)
  BY <1>2 DEF OpToRel
<1> QED BY <1>3

Sums(h, k, f) == f = [i \in 0 .. k |-> IF i = 0 THEN 0 ELSE f[i - 1] + h[i].usage.cost]

LEMMA SumsExist ==
  ASSUME NEW h, NEW n \in Nat
  PROVE  \E f : Sums(h, n, f)
<1> DEFINE T == {k \in Nat : ~ \E f : Sums(h, k, f)}
<1>1. SUFFICES ASSUME T # {} PROVE FALSE
  OBVIOUS
<1>2. PICK m \in T : \A k \in T : m <= k
  BY <1>1, LeastElement
<1>3. m # 0
  <2>1. Sums(h, 0, [i \in 0 .. 0 |-> 0])
    BY DEF Sums
  <2> QED BY <2>1, <1>2
<1>4. m - 1 \in Nat /\ m - 1 \notin T
  BY <1>2, <1>3
<1>5. PICK f : Sums(h, m - 1, f)
  BY <1>4
<1> DEFINE g == [i \in 0 .. m |-> IF i = m THEN f[m - 1] + h[m].usage.cost ELSE f[i]]
<1>6. Sums(h, m, g)
  <2>1. ASSUME NEW i \in 0 .. m PROVE g[i] = IF i = 0 THEN 0 ELSE g[i - 1] + h[i].usage.cost
    <3>1. CASE i = m
      BY <3>1, <1>3, <1>4
    <3>2. CASE i # m
      BY <3>2, <1>3, <1>4, <1>5 DEF Sums
    <3> QED BY <3>1, <3>2
  <2> QED BY <2>1 DEF Sums
<1> QED BY <1>6, <1>2

\* The running total is what its definition says.
LEMMA CostStep ==
  ASSUME NEW h \in Seq(AttemptRecords)
  PROVE  /\ CostUpTo(h)[0] = 0
         /\ \A i \in 1 .. Len(h) : CostUpTo(h)[i] = CostUpTo(h)[i - 1] + h[i].usage.cost
<1>1. \E f : Sums(h, Len(h), f)
  BY SumsExist
<1>2. CostUpTo(h) = CHOOSE f : Sums(h, Len(h), f)
  BY DEF CostUpTo, Sums
<1>3. Sums(h, Len(h), CostUpTo(h))
  BY <1>1, <1>2
<1> QED BY <1>3 DEF Sums

LEMMA CostIsNat ==
  ASSUME NEW h \in Seq(AttemptRecords), NEW k \in 0 .. Len(h)
  PROVE  CostUpTo(h)[k] \in Nat
<1> DEFINE T == {i \in 0 .. Len(h) : CostUpTo(h)[i] \notin Nat}
<1>1. SUFFICES ASSUME T # {} PROVE FALSE
  OBVIOUS
<1>2. PICK m \in T : \A i \in T : m <= i
  <2>1. T \subseteq Nat
    OBVIOUS
  <2> HIDE DEF T
  <2> QED BY <1>1, <2>1, LeastElement
<1>3. m # 0 /\ m \in 1 .. Len(h)
  BY <1>2, CostStep
<1>4. m - 1 \in 0 .. Len(h) /\ m - 1 \notin T
  BY <1>2, <1>3
<1>5. h[m] \in AttemptRecords /\ h[m].usage.cost \in Nat
  <2>1. h[m] \in AttemptRecords
    BY <1>3
  <2> QED BY <2>1 DEF AttemptRecords, UsageRecords
<1> QED BY <1>2, <1>3, <1>4, <1>5, CostStep

\* Two histories with the same costs up to a point have the same total there.
LEMMA SameCost ==
  ASSUME NEW h \in Seq(AttemptRecords), NEW g \in Seq(AttemptRecords), NEW k \in Nat, k <= Len(h), k <= Len(g),
         \A i \in 1 .. k : h[i].usage.cost = g[i].usage.cost
  PROVE  CostUpTo(h)[k] = CostUpTo(g)[k]
<1> DEFINE T == {i \in 0 .. k : CostUpTo(h)[i] # CostUpTo(g)[i]}
<1>1. SUFFICES ASSUME T # {} PROVE FALSE
  OBVIOUS
<1>2. PICK m \in T : \A i \in T : m <= i
  <2>1. T \subseteq Nat
    OBVIOUS
  <2> HIDE DEF T
  <2> QED BY <1>1, <2>1, LeastElement
<1>3. m # 0 /\ m \in 1 .. k /\ m \in 1 .. Len(h) /\ m \in 1 .. Len(g)
  BY <1>2, CostStep
<1>4. m - 1 \in 0 .. k /\ m - 1 \notin T
  BY <1>2, <1>3
<1> QED BY <1>2, <1>3, <1>4, CostStep

LEMMA AppendedCost ==
  ASSUME NEW h \in Seq(AttemptRecords), NEW a \in AttemptRecords, NEW g, g = Append(h, a)
  PROVE  /\ g \in Seq(AttemptRecords) /\ Len(g) = Len(h) + 1
         /\ CostUpTo(g)[Len(g)] = CostUpTo(h)[Len(h)] + a.usage.cost
<1>1. g \in Seq(AttemptRecords) /\ Len(g) = Len(h) + 1 /\ g[Len(g)] = a /\ \A i \in 1 .. Len(h) : g[i] = h[i]
  OBVIOUS
<1>2. Len(h) \in Nat /\ Len(h) <= Len(h) /\ Len(h) <= Len(g) /\ Len(g) \in 1 .. Len(g) /\ Len(g) - 1 = Len(h)
  BY <1>1
<1>3. \A i \in 1 .. Len(h) : h[i].usage.cost = g[i].usage.cost
  BY <1>1
<1>4. CostUpTo(h)[Len(h)] = CostUpTo(g)[Len(h)]
  BY <1>1, <1>2, <1>3, SameCost
<1>5. CostUpTo(g)[Len(g)] = CostUpTo(g)[Len(g) - 1] + g[Len(g)].usage.cost
  BY <1>1, <1>2, CostStep
<1> QED BY <1>1, <1>2, <1>4, <1>5

-----------------------------------------------------------------------------
(***************************************************************************)
(* The configuration: updates and catalogs.                                *)
(***************************************************************************)

LEMMA FreeFields == Free.next = None /\ Idle.op = "idle"
  BY DEF Free, Idle

\* No update is being applied, before and after.
LEMMA UpdatesKept ==
  ASSUME UpdatesOK, mu.next \in {None, "persist"}, mu'.next \in {None, "persist"},
         UNCHANGED <<engine, config, accepted, refused>>, disk'.config = disk.config
  PROVE  UpdatesOK'
  BY DEF UpdatesOK, Updating, Agree, AcceptedIsKept, None

\* The catalog is rebuilt while every known one is on disk.
LEMMA Rebuilt ==
  ASSUME ConfigTypeOK, CatalogsOK, engine = "up", mu.next \in {None, "config"},
         NEW catalog \in Catalogs, NEW by, NEW next \in {"persist", "write", "undo"},
         rebuildActiveCatalog(catalog, by, next), disk'.catalogs = disk.catalogs
  PROVE  /\ CatalogsOK' /\ registry' \in [active : Catalogs, known : SUBSET Catalogs]
         /\ registry.known \subseteq registry'.known
         /\ IF catalog = {} THEN mu' = Free ELSE mu'.next = next
<1>1. Unsaved = {}
  BY DEF Unsaved, None
<1>2. registry \in [active : Catalogs, known : SUBSET Catalogs]
  BY DEF ConfigTypeOK
<1>3. CASE catalog = {}
  <2>1. registry' = registry /\ mu' = Free
    BY <1>3 DEF rebuildActiveCatalog
  <2> QED BY <1>1, <1>2, <1>3, <2>1 DEF CatalogsOK
<1>4. CASE catalog # {}
  <2>1. registry' = [active |-> catalog, known |-> registry.known \cup {catalog}] /\ mu' = [by |-> by, next |-> next]
    BY <1>4 DEF rebuildActiveCatalog, SetActive
  <2>2. registry'.active = catalog /\ registry'.known = registry.known \cup {catalog} /\ mu'.next = next
    BY <2>1
  <2>3. registry' \in [active : Catalogs, known : SUBSET Catalogs]
    BY <1>2, <2>1
  <2>4. CatalogsOK'
    <3>1. Unsaved' = {catalog}
      BY <2>2 DEF Unsaved
    <3> QED BY <1>1, <2>2, <3>1 DEF CatalogsOK
  <2> QED BY <1>4, <2>2, <2>3, <2>4
<1> QED BY <1>3, <1>4

LEMMA EffectiveIsCatalog ==
  ASSUME NEW enabled \in SUBSET Routes, NEW models, NEW status
  PROVE  buildEffectiveCatalog(enabled, models, status) \in Catalogs
  BY DEF buildEffectiveCatalog, Catalogs

\* The answer of a probe, of the host or of a gate.
LEMMA ProbedKeeps ==
  ASSUME ConfigInv, engine = "up", NEW probe, NEW by, NEW fails \in BOOLEAN, Probed(probe, by, fails),
         UNCHANGED <<engine, config, discovered, accepted, refused, works>>
  PROVE  /\ ConfigInv' /\ registry.known \subseteq registry'.known /\ disk'.catalogs = disk.catalogs
<1>0. ConfigTypeOK /\ UpdatesOK /\ CatalogsOK /\ mu = Free /\ mu.next = None
  BY FreeFields DEF ConfigInv, Probed
<1>1. available' \in Availability
  BY <1>0 DEF Probed, setAvailability, Availability, Statuses, ConfigTypeOK
<1>2. CASE fails
  <2>1. disk' = disk /\ registry' = registry /\ mu' = mu
    BY <1>2 DEF Probed
  <2>2. UpdatesOK' /\ CatalogsOK'
    BY <1>0, <2>1, UpdatesKept DEF CatalogsOK, Unsaved
  <2> QED BY <1>0, <1>1, <2>1, <2>2 DEF ConfigInv, ConfigTypeOK
<1>3. CASE ~fails
  <2>1. /\ disk' = [disk EXCEPT !.available = available']
        /\ rebuildActiveCatalog(buildEffectiveCatalog(config.enabled, discovered, available'), by, "persist")
    BY <1>3 DEF Probed
  <2>2. disk' \in Files /\ disk'.config = disk.config /\ disk'.catalogs = disk.catalogs
    BY <1>0, <1>1, <2>1 DEF ConfigTypeOK, Files
  <2>3. buildEffectiveCatalog(config.enabled, discovered, available') \in Catalogs
    BY <1>0, EffectiveIsCatalog DEF ConfigTypeOK, Configurations
  <2>4. /\ CatalogsOK' /\ registry' \in [active : Catalogs, known : SUBSET Catalogs]
        /\ registry.known \subseteq registry'.known /\ (mu' = Free \/ mu'.next = "persist")
    BY <1>0, <2>1, <2>2, <2>3, Rebuilt
  <2>5. mu'.next \in {None, "persist"}
    BY <2>4, FreeFields
  <2>6. UpdatesOK'
    BY <1>0, <2>2, <2>5, UpdatesKept
  <2>7. ConfigTypeOK'
    BY <1>0, <1>1, <2>2, <2>4, <2>5 DEF ConfigTypeOK
  <2> QED BY <2>2, <2>4, <2>6, <2>7 DEF ConfigInv
<1> QED BY <1>2, <1>3

\* Only the request of the host changes, and it is not an update.
LEMMA HostChanges ==
  ASSUME ConfigInv, host' = host \/ (host.op # "update" /\ engine = "up"),
         UNCHANGED <<engine, config, discovered, available, registry, disk, mu, accepted, refused, works>>
  PROVE  ConfigInv'
<1>0. ConfigTypeOK /\ UpdatesOK /\ CatalogsOK
  BY DEF ConfigInv
<1>1. ConfigTypeOK' /\ CatalogsOK'
  BY <1>0 DEF ConfigTypeOK, CatalogsOK, Unsaved
<1>2. UpdatesOK'
  <2>1. CASE host' = host
    BY <1>0, <2>1 DEF UpdatesOK, Updating, Agree, AcceptedIsKept
  <2>2. CASE host.op # "update"
    <3>1. mu.next \in {None, "persist"}
      BY <1>0, <2>2 DEF UpdatesOK, ConfigTypeOK
    <3> QED BY <1>0, <3>1, UpdatesKept
  <2> QED BY <2>1, <2>2
<1> QED BY <1>1, <1>2 DEF ConfigInv

\* What a step of the configuration leaves of the catalogs.
Grows ==
  /\ engine' = engine /\ registry.known \subseteq registry'.known /\ disk.catalogs \subseteq disk'.catalogs

LEMMA HostProbeKeeps ==
  ASSUME ConfigInv, NEW routes, HostProbe(routes)
  PROVE  ConfigInv' /\ Grows
<1>1. host.op # "update" /\ engine = "up"
  BY FreeFields DEF HostProbe
<1> QED BY <1>1, HostChanges DEF HostProbe, Grows

LEMMA HostProbedKeeps ==
  ASSUME ConfigInv, NEW fails \in BOOLEAN, HostProbed(fails)
  PROVE  ConfigInv' /\ Grows
<1>1. engine = "up"
  BY FreeFields DEF ConfigInv, ConfigTypeOK, HostProbed
<1>2. Probed(host, "host", fails) /\ UNCHANGED <<engine, config, discovered, accepted, refused, works>>
  BY DEF HostProbed
<1> QED BY <1>1, <1>2, ProbedKeeps DEF Grows

LEMMA DiscoverKeeps ==
  ASSUME ConfigInv, NEW models \in Reports, NEW fails \in BOOLEAN, Discover(models, fails)
  PROVE  ConfigInv' /\ Grows
<1>0. /\ ConfigTypeOK /\ UpdatesOK /\ CatalogsOK /\ mu = Free /\ mu.next = None /\ engine = "up"
      /\ UNCHANGED <<engine, config, available, host, accepted, refused, works>>
  BY FreeFields DEF ConfigInv, Discover
<1>1. discovered' = models /\ models \subseteq Models
  BY RoutingAssumption DEF Discover
<1>2. CASE fails
  <2>1. disk' = disk /\ registry' = registry /\ mu' = mu
    BY <1>2 DEF Discover
  <2>2. UpdatesOK' /\ CatalogsOK'
    BY <1>0, <2>1, UpdatesKept DEF CatalogsOK, Unsaved
  <2> QED BY <1>0, <1>1, <2>1, <2>2 DEF ConfigInv, ConfigTypeOK, Grows
<1>3. CASE ~fails
  <2>1. /\ disk' = [disk EXCEPT !.discovered = models]
        /\ rebuildActiveCatalog(buildEffectiveCatalog(config.enabled, models, available), "host", "persist")
    BY <1>3 DEF Discover
  <2>2. disk' \in Files /\ disk'.config = disk.config /\ disk'.catalogs = disk.catalogs
    BY <1>0, <1>1, <2>1 DEF ConfigTypeOK, Files
  <2>3. buildEffectiveCatalog(config.enabled, models, available) \in Catalogs
    BY <1>0, EffectiveIsCatalog DEF ConfigTypeOK, Configurations
  <2>4. /\ CatalogsOK' /\ registry' \in [active : Catalogs, known : SUBSET Catalogs]
        /\ registry.known \subseteq registry'.known /\ (mu' = Free \/ mu'.next = "persist")
    BY <1>0, <2>1, <2>2, <2>3, Rebuilt
  <2>5. mu'.next \in {None, "persist"}
    BY <2>4, FreeFields
  <2>6. UpdatesOK'
    BY <1>0, <2>2, <2>5, UpdatesKept
  <2>7. ConfigTypeOK'
    BY <1>0, <1>1, <2>2, <2>4, <2>5 DEF ConfigTypeOK
  <2> QED BY <1>0, <2>2, <2>4, <2>6, <2>7 DEF ConfigInv, Grows
<1> QED BY <1>2, <1>3

\* The configuration with an update, and with its latest receipts.
LEMMA ChangedConfig ==
  ASSUME config \in Configurations, NEW m \in MutationIDs, NEW r \in Routes, NEW on \in BOOLEAN,
         NEW enabled \in SUBSET Routes, NEW changed,
         changed = [enabled |-> enabled, revision |-> config.revision + 1,
                    receipts |-> LastReceipts(Append(config.receipts, Receipt(m, r, on)))]
  PROVE  changed \in Configurations /\ changed.enabled = enabled
<1> DEFINE R == [mutation : MutationIDs, route : Routes, enabled : BOOLEAN]
           s == Append(config.receipts, Receipt(m, r, on))
<1>1. Receipt(m, r, on) \in R
  BY DEF Receipt
<1>2. config.receipts \in Seq(R) /\ config.revision \in Nat
  BY DEF Configurations
<1> HIDE DEF R
<1>3. s \in Seq(R) /\ s # << >>
  BY <1>1, <1>2
<1> HIDE DEF s
<1>4. LastReceipts(s) \in Seq(R)
  BY <1>3 DEF LastReceipts
<1>5. changed.enabled = enabled /\ changed = [enabled |-> enabled, revision |-> config.revision + 1, receipts |-> LastReceipts(s)]
  BY DEF s
<1>6. config.revision + 1 \in Nat
  BY <1>2
<1> QED BY <1>4, <1>5, <1>6 DEF Configurations, R

LEMMA RestoredConfig ==
  ASSUME NEW changed \in Configurations, NEW previous \in Configurations, NEW back, back = Restored(changed, previous)
  PROVE  back \in Configurations /\ back.enabled = changed.enabled
  BY DEF Restored, Configurations

LEMMA ConfigUpdateKeeps ==
  ASSUME ConfigInv, NEW m \in MutationIDs, NEW r \in Routes, NEW on \in BOOLEAN, ConfigUpdate(m, r, on)
  PROVE  ConfigInv' /\ Grows
<1> DEFINE enabled == IF on THEN config.enabled \cup {r} ELSE config.enabled \ {r}
           changed == [enabled  |-> enabled, revision |-> config.revision + 1,
                       receipts |-> LastReceipts(Append(config.receipts, Receipt(m, r, on)))]
           catalog == buildEffectiveCatalog(enabled, discovered, available)
<1>0. /\ ConfigTypeOK /\ UpdatesOK /\ CatalogsOK /\ mu = Free /\ mu.next = None /\ engine = "up" /\ host = Idle
      /\ UNCHANGED <<engine, discovered, available, disk, accepted, works>> /\ config \in Configurations
      /\ Agree(config.enabled) /\ AcceptedIsKept
  BY FreeFields DEF ConfigInv, ConfigUpdate, ConfigTypeOK, UpdatesOK, Updating, None
<1>1. enabled \in SUBSET Routes
  BY <1>0 DEF Configurations
<1>2. changed \in Configurations /\ changed.enabled = enabled
  <2> HIDE DEF enabled
  <2> QED BY <1>0, <1>1, ChangedConfig
<1>3. catalog \in Catalogs
  <2> HIDE DEF enabled
  <2> QED BY <1>1, EffectiveIsCatalog
<1>4. /\ rebuildActiveCatalog(catalog, "host", "write")
      /\ IF catalog = {}
         THEN /\ config' = Restored(changed, config)
              /\ refused' = IF enabled = config.enabled THEN refused ELSE refused \cup {r}
              /\ UNCHANGED host
         ELSE /\ config' = changed
              /\ host' = [op |-> "update", route |-> r, enabled |-> on, previous |-> config]
              /\ UNCHANGED refused
  BY DEF ConfigUpdate
<1>5. enabled = With(config.enabled, r, on) /\ \A q \in Routes : q # r => (q \in enabled <=> q \in config.enabled)
  BY <1>0 DEF With
<1> HIDE DEF catalog, changed, enabled
<1>6. /\ CatalogsOK' /\ registry' \in [active : Catalogs, known : SUBSET Catalogs]
      /\ registry.known \subseteq registry'.known
      /\ IF catalog = {} THEN mu' = Free ELSE mu'.next = "write"
  BY <1>0, <1>3, <1>4, Rebuilt
<1>7. CASE catalog = {}
  <2>1. config' \in Configurations /\ config'.enabled = enabled
    BY <1>0, <1>2, <1>4, <1>7, RestoredConfig
  <2>2. refused' = IF enabled = config.enabled THEN refused ELSE refused \cup {r}
    BY <1>4, <1>7
  <2>3. Agree(config.enabled)' /\ AcceptedIsKept'
    BY <1>0, <1>5, <2>1, <2>2 DEF Agree, AcceptedIsKept
  <2>4. mu' = Free /\ mu'.next = None
    BY <1>6, <1>7, FreeFields
  <2>5. UpdatesOK'
    BY <2>3, <2>4 DEF UpdatesOK, Updating, None
  <2>6. refused' \subseteq Routes
    BY <1>0, <2>2 DEF ConfigTypeOK
  <2>7. ConfigTypeOK'
    BY <1>0, <1>6, <2>1, <2>4, <2>6 DEF ConfigTypeOK
  <2> QED BY <1>0, <1>6, <2>5, <2>7 DEF ConfigInv, Grows
<1>8. CASE catalog # {}
  <2>1. config' = changed /\ refused' = refused /\ mu'.next = "write"
    BY <1>4, <1>6, <1>8
  <2>2. host' = [op |-> "update", route |-> r, enabled |-> on, previous |-> config]
    BY <1>4, <1>8
  <2>3. host'.op = "update" /\ host'.route = r /\ host'.previous = config /\ host'.enabled = on
    BY <2>2
  <2>4. UpdatesOK'
    <3>1. config'.enabled = With(host'.previous.enabled, host'.route, host'.enabled)
      BY <1>2, <1>5, <2>1, <2>3
    <3>2. Agree(host.previous.enabled)' /\ AcceptedIsKept'
      BY <1>0, <2>1, <2>3 DEF Agree, AcceptedIsKept
    <3> QED BY <1>0, <2>1, <2>3, <3>1, <3>2 DEF UpdatesOK, Updating
  <2>5. ConfigTypeOK'
    BY <1>0, <1>2, <1>6, <2>1 DEF ConfigTypeOK
  <2> QED BY <1>0, <1>6, <2>4, <2>5 DEF ConfigInv, Grows
<1> QED BY <1>7, <1>8

\* A failed update leaves the route it changed to the refused ones.
LEMMA Undone ==
  ASSUME ConfigInv, Updating, UndoUpdate
  PROVE  /\ config' \in Configurations /\ config'.enabled = config.enabled /\ accepted' = accepted
         /\ refused' \subseteq Routes /\ refused \subseteq refused'
         /\ \A r \in Routes \ refused' : r \in config'.enabled <=> r \in accepted'
<1>0. /\ ConfigTypeOK /\ config \in Configurations /\ host.route \in Routes /\ host.previous \in Configurations
      /\ Agree(host.previous.enabled) /\ config.enabled = With(host.previous.enabled, host.route, host.enabled)
  BY DEF ConfigInv, ConfigTypeOK, UpdatesOK
<1> DEFINE back == Restored(config, host.previous)
<1>1. back \in Configurations /\ back.enabled = config.enabled
  BY <1>0, RestoredConfig
<1>2. /\ config' = back /\ accepted' = accepted
      /\ refused' = IF back.enabled = host.previous.enabled THEN refused ELSE refused \cup {host.route}
  BY DEF UndoUpdate
<1> HIDE DEF back
<1>3. \A q \in Routes : q # host.route => (q \in config.enabled <=> q \in host.previous.enabled)
  BY <1>0 DEF With
<1>4. refused' \subseteq Routes /\ refused \subseteq refused'
  BY <1>0, <1>2 DEF ConfigTypeOK
<1>5. \A r \in Routes \ refused' : r \in config'.enabled <=> r \in accepted'
  BY <1>0, <1>1, <1>2, <1>3 DEF Agree
<1> QED BY <1>1, <1>2, <1>4, <1>5

LEMMA UndoneKeeps ==
  ASSUME ConfigInv, Updating, UndoUpdate, engine' = engine, disk'.config = disk.config,
         mu'.next \in {None, "undo"}, mu'.next = "undo" => host'.op = "update"
  PROVE  UpdatesOK'
<1>1. /\ accepted' = accepted /\ refused \subseteq refused'
      /\ \A r \in Routes \ refused' : r \in config'.enabled <=> r \in accepted'
  BY Undone
<1>2. AcceptedIsKept'
  BY <1>1 DEF ConfigInv, UpdatesOK, AcceptedIsKept
<1> QED BY <1>1, <1>2 DEF UpdatesOK, Updating, Agree, None

LEMMA PersistKeeps ==
  ASSUME ConfigInv, NEW fails \in BOOLEAN, persistActiveCatalog(fails)
  PROVE  /\ ConfigInv' /\ Grows /\ (host' = host \/ (host.op = "update" /\ host' = Idle))
<1>0. /\ ConfigTypeOK /\ UpdatesOK /\ CatalogsOK /\ disk \in Files /\ mu.next \in {"persist", "write", "undo"}
      /\ UNCHANGED <<engine, discovered, available, registry, works>> /\ engine = "up"
      /\ registry \in [active : Catalogs, known : SUBSET Catalogs]
  BY FreeFields DEF ConfigInv, ConfigTypeOK, persistActiveCatalog, None
<1>1. /\ disk' \in Files /\ disk'.config = disk.config /\ disk.catalogs \subseteq disk'.catalogs
      /\ disk'.catalogs \subseteq disk.catalogs \cup {registry.active}
      /\ ~fails => registry.active \in disk'.catalogs
  <2>1. CASE fails
    BY <1>0, <2>1 DEF persistActiveCatalog
  <2>2. CASE ~fails
    <3>1. disk' = [disk EXCEPT !.catalogs = disk.catalogs \cup {registry.active}]
      BY <2>2 DEF persistActiveCatalog
    <3> QED BY <1>0, <2>2, <3>1 DEF Files
  <2> QED BY <2>1, <2>2
<1>2. Durable => ~fails
  BY DEF persistActiveCatalog, Fault, Durable
<1>3. CatalogsOK'
  BY <1>0, <1>1, <1>2 DEF CatalogsOK, Unsaved
<1>4. CASE mu.next = "persist" /\ mu' = Free /\ UNCHANGED <<config, host, accepted, refused>>
  <2>1. mu'.next = None
    BY <1>4, FreeFields
  <2>2. UpdatesOK'
    BY <1>0, <1>1, <1>4, <2>1, UpdatesKept
  <2>3. ConfigTypeOK'
    BY <1>0, <1>1, <1>4, <2>1 DEF ConfigTypeOK
  <2> QED BY <1>0, <1>1, <1>3, <1>4, <2>2, <2>3 DEF ConfigInv, Grows
<1>5. CASE mu.next = "write" /\ mu' = [by |-> "host", next |-> "config"] /\ UNCHANGED <<config, host, accepted, refused>>
  <2>1. mu'.next = "config"
    BY <1>5
  <2>2. UpdatesOK'
    BY <1>0, <1>1, <1>5, <2>1 DEF UpdatesOK, Updating, Agree, AcceptedIsKept
  <2>3. ConfigTypeOK'
    BY <1>0, <1>1, <1>5, <2>1 DEF ConfigTypeOK
  <2> QED BY <1>0, <1>1, <1>3, <1>5, <2>2, <2>3 DEF ConfigInv, Grows
<1>6. CASE mu.next = "write" /\ mu' = Free /\ UndoUpdate /\ host' = Idle
  <2>1. mu'.next = None /\ Updating /\ host.op = "update"
    BY <1>0, <1>6, FreeFields DEF Updating, UpdatesOK
  <2>2. UpdatesOK'
    BY <1>0, <1>1, <1>6, <2>1, UndoneKeeps, FreeFields DEF None
  <2>3. config' \in Configurations /\ accepted' = accepted /\ refused' \subseteq Routes
    BY <1>6, <2>1, Undone
  <2> QED BY <1>0, <1>1, <1>3, <1>6, <2>1, <2>2, <2>3 DEF ConfigInv, ConfigTypeOK, Grows
<1>7. CASE mu.next = "undo" /\ mu' = Free /\ host' = Idle /\ UNCHANGED <<config, accepted, refused>>
  <2>1. mu'.next = None /\ host.op = "update"
    BY <1>0, <1>7, FreeFields DEF UpdatesOK
  <2>2. UpdatesOK'
    BY <1>0, <1>1, <1>7, <2>1 DEF UpdatesOK, Updating, Agree, AcceptedIsKept, None
  <2> QED BY <1>0, <1>1, <1>3, <1>7, <2>1, <2>2 DEF ConfigInv, ConfigTypeOK, Grows
<1> QED BY <1>0, <1>4, <1>5, <1>6, <1>7 DEF persistActiveCatalog

LEMMA WriteConfigKeeps ==
  ASSUME ConfigInv, NEW fails \in BOOLEAN, writeConfig(fails)
  PROVE  /\ ConfigInv' /\ Grows /\ host.op = "update" /\ host'.op # "apply"
<1>0. /\ ConfigTypeOK /\ UpdatesOK /\ CatalogsOK /\ disk \in Files /\ mu.next = "config" /\ Updating
      /\ UNCHANGED <<engine, discovered, available, works>> /\ engine = "up" /\ config \in Configurations
      /\ host.route \in Routes /\ host.previous \in Configurations /\ Agree(host.previous.enabled)
      /\ config.enabled = With(host.previous.enabled, host.route, host.enabled) /\ host.op = "update"
  BY FreeFields DEF ConfigInv, ConfigTypeOK, UpdatesOK, Updating, writeConfig, None
<1>1. CASE ~fails
  <2>1. /\ disk' = [disk EXCEPT !.config = config]
        /\ accepted' = With(accepted, host.route, host.enabled)
        /\ refused' = refused \ {host.route} /\ mu' = Free /\ host' = Idle /\ UNCHANGED <<config, registry>>
    BY <1>1 DEF writeConfig, With
  <2>2. disk' \in Files /\ disk'.config = config /\ disk'.catalogs = disk.catalogs
    BY <1>0, <2>1 DEF Files
  <2>3. \A r \in Routes \ refused' : r \in config.enabled <=> r \in accepted'
    BY <1>0, <2>1 DEF Agree, With
  <2>4. mu'.next = None /\ host'.op = "idle"
    BY <2>1, FreeFields
  <2>5. UpdatesOK'
    BY <2>1, <2>2, <2>3, <2>4 DEF UpdatesOK, Updating, Agree, AcceptedIsKept, None
  <2>6. CatalogsOK'
    BY <1>0, <2>1, <2>2, <2>4 DEF CatalogsOK, Unsaved, None
  <2>7. accepted' \subseteq Routes /\ refused' \subseteq Routes
    BY <1>0, <2>1 DEF ConfigTypeOK, With
  <2> QED BY <1>0, <2>1, <2>2, <2>4, <2>5, <2>6, <2>7 DEF ConfigInv, ConfigTypeOK, Grows
<1>2. CASE fails
  <2> DEFINE catalog == buildEffectiveCatalog(config.enabled, discovered, available)
  <2>1. /\ UndoUpdate /\ rebuildActiveCatalog(catalog, "host", "undo")
        /\ host' = (IF mu' = Free THEN Idle ELSE host) /\ UNCHANGED disk
    BY <1>2 DEF writeConfig
  <2>2. catalog \in Catalogs
    BY <1>0, EffectiveIsCatalog DEF Configurations
  <2> HIDE DEF catalog
  <2>3. /\ CatalogsOK' /\ registry' \in [active : Catalogs, known : SUBSET Catalogs]
        /\ registry.known \subseteq registry'.known
        /\ IF catalog = {} THEN mu' = Free ELSE mu'.next = "undo"
    BY <1>0, <2>1, <2>2, Rebuilt
  <2>4. mu'.next \in {None, "undo"} /\ (mu'.next = "undo" => host' = host) /\ host'.op \in {"idle", "update"}
    BY <1>0, <2>1, <2>3, FreeFields DEF None
  <2>5. UpdatesOK'
    BY <1>0, <2>1, <2>4, UndoneKeeps
  <2>6. config' \in Configurations /\ accepted' = accepted /\ refused' \subseteq Routes
    BY <1>0, <2>1, Undone
  <2> QED BY <1>0, <2>1, <2>3, <2>4, <2>5, <2>6 DEF ConfigInv, ConfigTypeOK, Grows
<1> QED BY <1>0, <1>1, <1>2

LEMMA WorldStepKeeps ==
  ASSUME ConfigInv, WorldStep
  PROVE  ConfigInv' /\ Grows /\ host' = host
<1>0. ConfigTypeOK /\ UpdatesOK /\ CatalogsOK /\ disk \in Files /\ available \in Availability
  BY DEF ConfigInv, ConfigTypeOK
<1>1. ASSUME NEW r \in Routes, Expire(r) PROVE ConfigInv' /\ Grows /\ host' = host
  <2>1. /\ available' = [available EXCEPT ![r] = "unknown"]
        /\ disk' = [disk EXCEPT !.available = [disk.available EXCEPT ![r] = "unknown"]]
        /\ UNCHANGED <<engine, config, discovered, registry, mu, host, accepted, refused, works>>
    BY <1>0, <1>1 DEF Expire, Files
  <2>2. available' \in Availability /\ [disk.available EXCEPT ![r] = "unknown"] \in Availability
    BY <1>0, <2>1 DEF Availability, Statuses, Files
  <2>3. disk' \in Files /\ disk'.config = disk.config /\ disk'.catalogs = disk.catalogs
    BY <1>0, <2>1, <2>2 DEF Files
  <2>4. UpdatesOK' /\ CatalogsOK'
    BY <1>0, <2>1, <2>3 DEF UpdatesOK, Updating, Agree, AcceptedIsKept, CatalogsOK, Unsaved
  <2>5. ConfigTypeOK'
    BY <1>0, <2>1, <2>2, <2>3 DEF ConfigTypeOK
  <2> QED BY <2>1, <2>3, <2>4, <2>5 DEF ConfigInv, Grows
<1>2. ASSUME NEW routes \in Upstream, UpstreamChanges(routes) PROVE ConfigInv' /\ Grows /\ host' = host
  <2>1. /\ works' \subseteq Routes
        /\ UNCHANGED <<engine, config, discovered, available, registry, disk, mu, host, accepted, refused>>
    BY <1>2, RoutingAssumption DEF UpstreamChanges
  <2>2. UpdatesOK' /\ CatalogsOK'
    BY <1>0, <2>1 DEF UpdatesOK, Updating, Agree, AcceptedIsKept, CatalogsOK, Unsaved
  <2>3. ConfigTypeOK'
    BY <1>0, <2>1 DEF ConfigTypeOK
  <2> QED BY <2>1, <2>2, <2>3 DEF ConfigInv, Grows
<1> QED BY <1>1, <1>2 DEF WorldStep

LEMMA StopKeeps ==
  ASSUME ConfigInv, StopConfig
  PROVE  ConfigInv'
<1>0. /\ ConfigTypeOK /\ UpdatesOK /\ engine' = "down" /\ mu' = Free /\ mu'.next = None /\ host' = Idle
      /\ UNCHANGED <<config, discovered, available, registry, disk, accepted, refused, works>>
  BY FreeFields DEF ConfigInv, StopConfig
<1>1. UpdatesOK'
  BY <1>0 DEF UpdatesOK, Updating, Agree, AcceptedIsKept, None
<1>2. ConfigTypeOK' /\ CatalogsOK'
  BY <1>0 DEF ConfigTypeOK, CatalogsOK
<1> QED BY <1>0, <1>1, <1>2 DEF ConfigInv

LEMMA NewServiceKeeps ==
  ASSUME ConfigInv, NewService
  PROVE  ConfigInv' /\ disk.catalogs \subseteq disk'.catalogs /\ host' = Idle /\ engine' = "up"
<1> DEFINE catalog == buildEffectiveCatalog(disk.config.enabled, disk.discovered, disk.available)
<1>0. /\ ConfigTypeOK /\ UpdatesOK /\ disk \in Files /\ host = Idle /\ mu = Free /\ mu.next = None
      /\ UNCHANGED <<mu, host, accepted, refused, works>>
  BY FreeFields DEF ConfigInv, ConfigTypeOK, NewService
<1>1. catalog \in Catalogs
  BY <1>0, EffectiveIsCatalog DEF Files, Configurations
<1>2. /\ engine' = "up" /\ config' = disk.config /\ discovered' = disk.discovered /\ available' = disk.available
      /\ registry' = [active |-> catalog, known |-> disk.catalogs \cup {catalog}]
      /\ disk' = [disk EXCEPT !.catalogs = disk.catalogs \cup {catalog}]
  BY DEF NewService
<1> HIDE DEF catalog
<1>3. disk' \in Files /\ disk'.config = disk.config /\ disk'.catalogs = disk.catalogs \cup {catalog}
  BY <1>0, <1>1, <1>2 DEF Files
<1>4. ConfigTypeOK'
  BY <1>0, <1>1, <1>2, <1>3 DEF ConfigTypeOK, Files
<1>5. UpdatesOK'
  BY <1>0, <1>2, <1>3 DEF UpdatesOK, Updating, Agree, AcceptedIsKept, None
<1>6. CatalogsOK'
  BY <1>0, <1>2, <1>3 DEF CatalogsOK, Unsaved, None
<1> QED BY <1>0, <1>2, <1>3, <1>4, <1>5, <1>6 DEF ConfigInv

-----------------------------------------------------------------------------
(***************************************************************************)
(* The Team routes.                                                        *)
(***************************************************************************)

TeamFiles ==
  [team : [routes : [TeamRouteIDs -> {"on", "off", "absent"}], revision : Nat],
   catalogs : SUBSET SUBSET TeamRouteIDs]

\* Nothing of the Team routes changes, and no application begins or ends.
LEMMA TeamKept ==
  ASSUME TeamInv, UNCHANGED teamVars, engine' \in {engine, "down"},
         host' = host \/ (host.op # "apply" /\ host'.op # "apply")
  PROVE  TeamInv'
<1>1. /\ team' = team /\ drivers' = drivers /\ live' = live /\ teamDisk' = teamDisk
      /\ installed' = installed /\ teams' = teams /\ unwritten' = unwritten
  BY DEF teamVars
<1>2. TeamCatalog' = TeamCatalog
  BY <1>1 DEF TeamCatalog, effectiveTeamCatalog
<1>3. TeamTypeOK'
  BY <1>1 DEF TeamInv, TeamTypeOK
<1> QED BY <1>1, <1>2, <1>3 DEF TeamInv

LEMMA EffectiveTeam ==
  ASSUME NEW routes, NEW found
  PROVE  effectiveTeamCatalog(routes, found) \subseteq TeamRouteIDs
<1> DEFINE models == {t \in TeamRouteIDs : routes[t] = "on" /\ DriverOf[t] \in found}
<1>1. models \subseteq TeamRouteIDs
  OBVIOUS
<1>2. effectiveTeamCatalog(routes, found) = IF Cardinality(models) < MinParticipants THEN {} ELSE models
  BY DEF effectiveTeamCatalog
<1> HIDE DEF models
<1> QED BY <1>1, <1>2

LEMMA PersistedFields ==
  ASSUME NEW files \in TeamFiles, NEW catalog \in SUBSET TeamRouteIDs, NEW stored, stored = Persisted(files, catalog)
  PROVE  /\ stored \in TeamFiles /\ stored.team = files.team /\ files.catalogs \subseteq stored.catalogs
         /\ catalog # {} => catalog \in stored.catalogs
<1>1. CASE catalog = {}
  BY <1>1 DEF Persisted
<1>2. CASE catalog # {}
  <2>1. stored = [files EXCEPT !.catalogs = files.catalogs \cup {catalog}]
    BY <1>2 DEF Persisted
  <2> QED BY <2>1 DEF TeamFiles
<1> QED BY <1>1, <1>2

LEMMA ToApplyFields ==
  ASSUME NEW catalog, NEW h, h = ToApply(catalog)
  PROVE  /\ catalog = {} => h.op = "idle"
         /\ catalog # {} => h.op = "apply" /\ h.catalog = catalog
  BY FreeFields DEF ToApply

\* A catalog was made, stored and is left to be applied.
LEMMA CatalogMade ==
  ASSUME TeamInv, engine = "up", engine' = engine, NEW catalog, catalog = TeamCatalog',
         team' \in [routes : [TeamRouteIDs -> {"on", "off", "absent"}], revision : Nat],
         teamDisk' \in TeamFiles, teamDisk.catalogs \subseteq teamDisk'.catalogs,
         catalog # {} => catalog \in teamDisk'.catalogs,
         host' = ToApply(catalog), unwritten' = FALSE, UNCHANGED <<live, teams>>
  PROVE  TeamInv'
<1>1. /\ catalog = {} => host'.op = "idle"
      /\ catalog # {} => host'.op = "apply" /\ host'.catalog = catalog
  BY ToApplyFields
<1>2. TeamTypeOK'
  BY DEF TeamInv, TeamTypeOK, TeamFiles
<1> QED BY <1>1, <1>2 DEF TeamInv

LEMMA MutateKeeps ==
  ASSUME TeamInv, NEW t \in TeamRouteIDs, NEW setting \in {"on", "off", "absent"}, mutateTeamRoutes(t, setting)
  PROVE  TeamInv'
<1> DEFINE routes  == [team.routes EXCEPT ![t] = setting]
           changed == [routes |-> routes, revision |-> team.revision + 1]
           catalog == effectiveTeamCatalog(routes, drivers)
<1>0. /\ engine = "up" /\ engine' = engine /\ teamDisk \in TeamFiles /\ live' = live /\ teams' = teams
      /\ team \in [routes : [TeamRouteIDs -> {"on", "off", "absent"}], revision : Nat] /\ drivers' = drivers
  BY DEF TeamInv, TeamTypeOK, TeamFiles, mutateTeamRoutes
<1>1. changed \in [routes : [TeamRouteIDs -> {"on", "off", "absent"}], revision : Nat] /\ changed.routes = routes
  BY <1>0
<1>2. team' = changed /\ teamDisk' = Persisted([teamDisk EXCEPT !.team = changed], catalog) /\ host' = ToApply(catalog)
      /\ unwritten' = FALSE
  BY <1>1 DEF mutateTeamRoutes
<1>3. catalog \subseteq TeamRouteIDs
  BY EffectiveTeam
<1>4. catalog = TeamCatalog'
  BY <1>0, <1>1, <1>2 DEF TeamCatalog
<1> HIDE DEF catalog, changed
<1>5. /\ teamDisk' \in TeamFiles /\ teamDisk.catalogs \subseteq teamDisk'.catalogs
      /\ catalog # {} => catalog \in teamDisk'.catalogs
  <2> DEFINE files == [teamDisk EXCEPT !.team = changed]
  <2>1. files \in TeamFiles /\ files.catalogs = teamDisk.catalogs
    BY <1>0, <1>1 DEF TeamFiles
  <2>2. teamDisk' = Persisted(files, catalog)
    BY <1>2
  <2> HIDE DEF files
  <2> QED BY <1>3, <2>1, <2>2, PersistedFields
<1> QED BY <1>0, <1>1, <1>2, <1>4, <1>5, CatalogMade

LEMMA RefreshKeeps ==
  ASSUME TeamInv, TeamRoutesRefresh
  PROVE  TeamInv'
<1> DEFINE catalog == effectiveTeamCatalog(team.routes, installed)
<1>0. /\ engine = "up" /\ engine' = engine /\ teamDisk \in TeamFiles /\ live' = live /\ teams' = teams
      /\ team \in [routes : [TeamRouteIDs -> {"on", "off", "absent"}], revision : Nat]
      /\ team' = team /\ drivers' = installed
      /\ \/ teamDisk' = Persisted(teamDisk, catalog) /\ host' = ToApply(catalog) /\ unwritten' = FALSE
         \/ teamDisk' = teamDisk /\ host' = host /\ host.op = "idle" /\ unwritten' = TRUE
  BY FreeFields DEF TeamInv, TeamTypeOK, TeamFiles, TeamRoutesRefresh
<1>1. catalog \subseteq TeamRouteIDs
  BY EffectiveTeam
<1>2. catalog = TeamCatalog'
  BY <1>0 DEF TeamCatalog
<1> HIDE DEF catalog
<1>3. CASE unwritten' = FALSE
  <2>1. /\ teamDisk' \in TeamFiles /\ teamDisk.catalogs \subseteq teamDisk'.catalogs
        /\ catalog # {} => catalog \in teamDisk'.catalogs
    BY <1>0, <1>1, <1>3, PersistedFields
  <2> QED BY <1>0, <1>2, <1>3, <2>1, CatalogMade
<1>4. CASE unwritten' = TRUE
  <2>1. teamDisk' = teamDisk /\ host' = host /\ host.op = "idle"
    BY <1>0, <1>4
  <2>2. TeamTypeOK'
    BY <1>0, <1>4, <2>1 DEF TeamInv, TeamTypeOK
  <2> QED BY <1>0, <1>4, <2>1, <2>2 DEF TeamInv
<1> QED BY <1>0, <1>3, <1>4

LEMMA ApplyKeeps ==
  ASSUME TeamInv, ApplyTeamRoutes, engine = "up"
  PROVE  TeamInv'
<1>0. /\ host.op = "apply" /\ host'.op = "idle" /\ engine' = engine
      /\ live' = [current |-> host.catalog, known |-> live.known \cup {live.current, host.catalog}]
      /\ team' = team /\ drivers' = drivers /\ teamDisk' = teamDisk /\ teams' = teams
      /\ unwritten' = unwritten
  BY FreeFields DEF ApplyTeamRoutes, SetCatalog
<1>1. host.catalog = TeamCatalog /\ host.catalog \in teamDisk.catalogs /\ TeamTypeOK
  BY <1>0 DEF TeamInv
<1>2. TeamCatalog' = TeamCatalog
  BY <1>0 DEF TeamCatalog, effectiveTeamCatalog
<1>3. live'.current = host.catalog /\ live'.known = live.known \cup {live.current, host.catalog}
  BY <1>0
<1>4. TeamTypeOK'
  BY <1>0, <1>1 DEF TeamTypeOK
<1> QED BY <1>0, <1>1, <1>2, <1>3, <1>4 DEF TeamInv

LEMMA StartTeamKeeps ==
  ASSUME TeamInv, StartTeam
  PROVE  TeamInv'
<1>0. /\ engine = "up" /\ live.current # {} /\ teams' = teams \cup {live.current} /\ TeamTypeOK
      /\ UNCHANGED <<engine, host, live, team, drivers, unwritten, teamDisk>>
  BY DEF StartTeam, TeamInv
<1>1. TeamCatalog' = TeamCatalog
  BY <1>0 DEF TeamCatalog, effectiveTeamCatalog
<1>2. TeamTypeOK'
  BY <1>0 DEF TeamTypeOK
<1> QED BY <1>0, <1>1, <1>2 DEF TeamInv

LEMMA StartTeamRoutesKeeps ==
  ASSUME TeamInv, StartTeamRoutes, host'.op = "idle"
  PROVE  TeamInv'
<1> DEFINE catalog == effectiveTeamCatalog(teamDisk.team.routes, installed)
<1>0. /\ team' = teamDisk.team /\ drivers' = installed /\ teamDisk' = Persisted(teamDisk, catalog)
      /\ live' = [current |-> catalog, known |-> teamDisk'.catalogs] /\ teams' = teams
      /\ teamDisk \in TeamFiles /\ teams \subseteq teamDisk.catalogs /\ teams \subseteq SUBSET TeamRouteIDs /\ unwritten' = FALSE
  BY DEF TeamInv, TeamTypeOK, TeamFiles, StartTeamRoutes
<1>1. catalog \subseteq TeamRouteIDs
  BY EffectiveTeam
<1>2. catalog = TeamCatalog'
  BY <1>0 DEF TeamCatalog
<1> HIDE DEF catalog
<1>3. /\ teamDisk' \in TeamFiles /\ teamDisk.catalogs \subseteq teamDisk'.catalogs
      /\ catalog # {} => catalog \in teamDisk'.catalogs
  BY <1>0, <1>1, PersistedFields
<1>4. live'.current = catalog /\ live'.known = teamDisk'.catalogs
  BY <1>0
<1>5. TeamTypeOK'
  BY <1>0, <1>1, <1>3 DEF TeamTypeOK, TeamFiles
<1> QED BY <1>0, <1>2, <1>3, <1>4, <1>5 DEF TeamInv

-----------------------------------------------------------------------------
(***************************************************************************)
(* The Nodes.                                                              *)
(***************************************************************************)

NodeOK(n) == PhaseOK(n) /\ CallOK(n) /\ HistoryOK(n) /\ ChainOK(n)

\* The decision of the resolver.
LEMMA Resolved ==
  ASSUME NEW catalog \in Catalogs, NEW req \in RequirementRecords, NEW d, d = ResolveV1(catalog, req), d # NoDecision
  PROVE  d \in DecisionRecords /\ d.catalog = catalog /\ d.maxCost = req.maxCost /\ d.selected \in Routes
<1> DEFINE r == ApplyCodexProductPreference(catalog, req)
           ranked == Ranked(catalog, r)
           decision == [catalog  |-> catalog, selected |-> Head(ranked), maxCost |-> r.maxCost,
                        fallback |-> IF r.fallback THEN Tail(ranked) ELSE << >>]
<1>1. r.maxCost = req.maxCost
  BY DEF ApplyCodexProductPreference, RequirementRecords
<1>2. d = decision /\ ValidateDecision(decision)
  BY DEF ResolveV1
<1>3. decision.catalog = catalog /\ decision.maxCost = r.maxCost
  OBVIOUS
<1>4. /\ decision = [catalog |-> decision.catalog, selected |-> decision.selected, maxCost |-> decision.maxCost,
                     fallback |-> decision.fallback]
  OBVIOUS
<1> HIDE DEF decision, r
<1>5. decision.selected \in Routes /\ decision.fallback \in Seq(Routes)
  BY <1>2 DEF ValidateDecision
<1>6. req.maxCost \in Nat
  BY DEF RequirementRecords
<1> QED BY <1>1, <1>2, <1>3, <1>4, <1>5, <1>6 DEF DecisionRecords, Catalogs

LEMMA NoDecisionFields ==
  NoDecision \in DecisionRecords /\ NoDecision.selected = None /\ None \notin Routes
  BY DEF NoDecision, DecisionRecords, None, Routes

\* The next decision of a chain.
LEMMA Advanced ==
  ASSUME NEW p \in DecisionRecords, NEW d, d = AdvanceFallbackV1(p), d.selected # None
  PROVE  d \in DecisionRecords /\ d.catalog = p.catalog /\ d.maxCost = p.maxCost /\ d.selected \in Routes
<1>1. p.fallback # << >> /\ p.fallback \in Seq(Routes)
  BY NoDecisionFields DEF AdvanceFallbackV1, DecisionRecords
<1>2. d = [p EXCEPT !.selected = Head(p.fallback), !.fallback = Tail(p.fallback)]
  BY <1>1 DEF AdvanceFallbackV1
<1>3. Head(p.fallback) \in Routes /\ Tail(p.fallback) \in Seq(Routes)
  BY <1>1
<1> QED BY <1>2, <1>3 DEF DecisionRecords

LEMMA AdvancedType ==
  ASSUME NEW p \in DecisionRecords
  PROVE  /\ AdvanceFallbackV1(p) \in DecisionRecords
         /\ AdvanceFallbackV1(p) # NoDecision => AdvanceFallbackV1(p).selected \in Routes
<1>1. CASE p.fallback = << >>
  BY <1>1, NoDecisionFields DEF AdvanceFallbackV1
<1>2. CASE p.fallback # << >>
  <2>1. AdvanceFallbackV1(p) = [p EXCEPT !.selected = Head(p.fallback), !.fallback = Tail(p.fallback)]
    BY <1>2 DEF AdvanceFallbackV1
  <2>2. p.fallback \in Seq(Routes)
    BY DEF DecisionRecords
  <2>3. Head(p.fallback) \in Routes /\ Tail(p.fallback) \in Seq(Routes)
    BY <1>2, <2>2
  <2> QED BY <2>1, <2>3 DEF DecisionRecords
<1> QED BY <1>1, <1>2

\* Fields of a call after its steps.
LEMMA CallFields ==
  ASSUME NEW c \in CallRecords
  PROVE  /\ c.step \in Steps /\ c.target \in Routes \cup {None} /\ c.decision \in DecisionRecords /\ c.index \in Nat
         /\ c.pinned \in BOOLEAN /\ c.kind \in {None, "launch", "retry", "answer"}
  BY DEF CallRecords

LEMMA DisturbedFields ==
  ASSUME NEW c \in CallRecords, NEW d, d = Disturbed(c)
  PROVE  /\ d \in CallRecords /\ d.step = c.step /\ d.kind = c.kind /\ d.target = c.target
         /\ d.decision = c.decision /\ d.index = c.index /\ d.pinned = c.pinned
<1>1. CASE d = c
  BY <1>1
<1>2. CASE d = [c EXCEPT !.calm = FALSE]
  <2>1. d \in CallRecords
    BY <1>2, Zenon DEF CallRecords
  <2>2. /\ d.step = c.step /\ d.kind = c.kind /\ d.target = c.target
        /\ d.decision = c.decision /\ d.index = c.index /\ d.pinned = c.pinned
    BY <1>2, Zenon DEF CallRecords
  <2> QED BY <2>1, <2>2
<1> QED BY <1>1, <1>2, Zenon DEF Disturbed

\* The call goes on, for the same request.
Continues(c, d) == d \in CallRecords /\ d.kind = c.kind /\ d.target = c.target

LEMMA RefusedFields ==
  ASSUME NEW c \in CallRecords, NEW d, d = Refused(c)
  PROVE  Continues(c, d) /\ d.step = "refused"
<1>1. "refused" \in Steps /\ NoDecision \in DecisionRecords /\ 0 \in Nat
  BY NoDecisionFields DEF Steps
<1>2. d \in CallRecords
  BY <1>1, Zenon DEF CallRecords, Refused
<1>3. d.kind = c.kind /\ d.target = c.target /\ d.step = "refused"
  BY Zenon DEF CallRecords, Refused
<1> QED BY <1>2, <1>3 DEF Continues

LEMMA TryFailedFields ==
  ASSUME NEW c \in CallRecords, NEW d, d = TryFailed(c)
  PROVE  Continues(c, d) /\ (d.step = "refused" \/ (d.step = "resolve" /\ ~d.pinned))
<1>1. CASE c.pinned \/ c.tries + 1 = ProbeTries
  <2>1. d = Refused(c)
    BY <1>1 DEF TryFailed
  <2> QED BY <2>1, RefusedFields
<1>2. CASE ~(c.pinned \/ c.tries + 1 = ProbeTries)
  <2> DEFINE more == c.tries + 1
  <2>1. d = [c EXCEPT !.step = "resolve", !.tries = more, !.decision = NoDecision]
    BY <1>2 DEF TryFailed
  <2>2. "resolve" \in Steps /\ NoDecision \in DecisionRecords /\ more \in Nat
    BY NoDecisionFields DEF Steps, CallRecords
  <2> HIDE DEF more
  <2>3. d \in CallRecords
    BY <2>1, <2>2, Zenon DEF CallRecords
  <2>4. d.kind = c.kind /\ d.target = c.target /\ d.step = "resolve" /\ d.pinned = c.pinned
    BY <2>1, Zenon DEF CallRecords
  <2>5. ~d.pinned
    BY <1>2, <2>4
  <2> QED BY <2>3, <2>4, <2>5 DEF Continues
<1> QED BY <1>1, <1>2

\* The call keeps what it decided and goes to another step.
LEMMA SteppedFields ==
  ASSUME NEW c \in CallRecords, NEW s \in Steps, NEW d, d = [c EXCEPT !.step = s]
  PROVE  Continues(c, d) /\ d.step = s /\ d.decision = c.decision /\ d.pinned = c.pinned
<1>1. d \in CallRecords
  BY Zenon DEF CallRecords
<1>2. d.kind = c.kind /\ d.target = c.target /\ d.step = s /\ d.decision = c.decision /\ d.pinned = c.pinned
  BY Zenon DEF CallRecords
<1> QED BY <1>1, <1>2 DEF Continues

LEMMA TryPassedFields ==
  ASSUME NEW c \in CallRecords, NEW d, d = TryPassed(c)
  PROVE  /\ Continues(c, d) /\ d.decision = c.decision /\ d.pinned = c.pinned
         /\ (d.step = "reserve" /\ d.pinned) \/ (d.step = "pin" /\ ~d.pinned)
<1>1. CASE c.pinned
  <2>1. d = [c EXCEPT !.step = "reserve"] /\ "reserve" \in Steps
    BY <1>1 DEF TryPassed, Steps
  <2>2. Continues(c, d) /\ d.step = "reserve" /\ d.decision = c.decision /\ d.pinned = c.pinned
    BY <2>1, SteppedFields
  <2> QED BY <1>1, <2>2
<1>2. CASE ~c.pinned
  <2>1. d = [c EXCEPT !.step = "pin"] /\ "pin" \in Steps
    BY <1>2 DEF TryPassed, Steps
  <2>2. Continues(c, d) /\ d.step = "pin" /\ d.decision = c.decision /\ d.pinned = c.pinned
    BY <2>1, SteppedFields
  <2>3. ~d.pinned
    BY <1>2, <2>2
  <2> QED BY <2>2, <2>3
<1> QED BY <1>1, <1>2

DecidedOn(c, x) == [c EXCEPT !.step = "gate", !.decision = x]

LEMMA DecidedFields ==
  ASSUME NEW c \in CallRecords, NEW x \in DecisionRecords, NEW d, d = DecidedOn(c, x)
  PROVE  Continues(c, d) /\ d.step = "gate" /\ d.decision = x /\ d.pinned = c.pinned
<1>0. "gate" \in Steps
  BY DEF Steps
<1>1. d \in CallRecords
  BY <1>0, Zenon DEF CallRecords, DecidedOn
<1>2. d.kind = c.kind /\ d.target = c.target /\ d.step = "gate" /\ d.decision = x /\ d.pinned = c.pinned
  BY Zenon DEF CallRecords, DecidedOn
<1> QED BY <1>1, <1>2 DEF Continues

AskedFor(c, p) == [c EXCEPT !.step = "asked", !.probe = p]

LEMMA AskedFields ==
  ASSUME NEW c \in CallRecords, NEW p \in SUBSET Routes, NEW d, d = AskedFor(c, p)
  PROVE  Continues(c, d) /\ d.step = "asked" /\ d.decision = c.decision /\ d.pinned = c.pinned
<1>0. "asked" \in Steps
  BY DEF Steps
<1>1. d \in CallRecords
  BY <1>0, Zenon DEF CallRecords, AskedFor
<1>2. d.kind = c.kind /\ d.target = c.target /\ d.step = "asked" /\ d.decision = c.decision /\ d.pinned = c.pinned
  BY Zenon DEF CallRecords, AskedFor
<1> QED BY <1>1, <1>2 DEF Continues

LEMMA RecordedFields ==
  ASSUME NEW c \in CallRecords, NEW fails \in BOOLEAN, NEW d, d = Recorded(c, fails)
  PROVE  Continues(c, d) /\ d.step = "reread" /\ d.decision = c.decision /\ d.pinned = c.pinned
<1>0. "reread" \in Steps /\ {} \in SUBSET Routes
  BY DEF Steps
<1>1. d \in CallRecords
  <2> DEFINE calm == c.calm /\ ~fails
  <2>1. calm \in BOOLEAN
    BY Zenon DEF CallRecords
  <2>2. d = [c EXCEPT !.step = "reread", !.probe = {}, !.calm = calm]
    BY Zenon DEF Recorded
  <2> HIDE DEF calm
  <2> QED BY <1>0, <2>1, <2>2, Zenon DEF CallRecords
<1>2. d.kind = c.kind /\ d.target = c.target /\ d.step = "reread" /\ d.decision = c.decision /\ d.pinned = c.pinned
  BY Zenon DEF CallRecords, Recorded
<1> QED BY <1>1, <1>2 DEF Continues

LEMMA PinnedFields ==
  ASSUME NEW c \in CallRecords, NEW x \in DecisionRecords, NEW i \in Nat, NEW d, d = PinnedTo(c, x, i)
  PROVE  Continues(c, d) /\ d.step = "gate" /\ d.decision = x /\ d.pinned
<1>0. "gate" \in Steps
  BY DEF Steps
<1>1. d \in CallRecords
  BY <1>0, Zenon DEF CallRecords, PinnedTo
<1>2. d.kind = c.kind /\ d.target = c.target /\ d.step = "gate" /\ d.decision = x /\ d.pinned
  BY Zenon DEF CallRecords, PinnedTo
<1> QED BY <1>1, <1>2 DEF Continues

LEMMA NoCallFields == NoCall \in CallRecords /\ NoCall.step = "idle"
<1>1. "idle" \in Steps /\ NoDecision \in DecisionRecords /\ 0 \in Nat /\ {} \in SUBSET Routes
  BY NoDecisionFields DEF Steps
<1>2. NoCall \in CallRecords
  BY <1>1, Zenon DEF NoCall, CallRecords
<1> QED BY <1>2, Zenon DEF NoCall

LEMMA NewCallFields ==
  ASSUME NEW kind \in {"launch", "retry", "answer"}, NEW target \in Routes \cup {None},
         NEW d, d = NewCall(kind, target)
  PROVE  d \in CallRecords /\ d.step = "resolve" /\ d.kind = kind /\ d.target = target /\ ~d.pinned
<1> DEFINE calm == mu = Free /\ registry.active = Effective
<1>0. "resolve" \in Steps /\ kind \in {None, "launch", "retry", "answer"} /\ calm \in BOOLEAN
  BY DEF Steps
<1>1. d = [NoCall EXCEPT !.step = "resolve", !.kind = kind, !.target = target, !.calm = calm]
  BY Zenon DEF NewCall
<1> HIDE DEF calm
<1>2. d \in CallRecords
  BY <1>0, <1>1, NoCallFields, Zenon DEF CallRecords
<1>3. d.step = "resolve" /\ d.kind = kind /\ d.target = target /\ d.pinned = NoCall.pinned
  BY <1>1, NoCallFields, Zenon DEF CallRecords
<1>4. ~NoCall.pinned
  BY Zenon DEF NoCall
<1> QED BY <1>2, <1>3, <1>4

\* A step of somebody else leaves a Node and its call as they are.
LEMMA OtherNode ==
  ASSUME NEW n \in Nodes, NodeTypeOK, NodeOK(n), Grows, host' = host \/ host.op # "action" \/ host.node # n,
         requirement'[n] = requirement[n], attempts'[n] = attempts[n], pending'[n] = pending[n], phase'[n] = phase[n],
         call'[n] = call[n] \/ call'[n] = Disturbed(call[n])
  PROVE  NodeOK(n)'
<1>1. /\ call'[n].step = call[n].step /\ call'[n].kind = call[n].kind /\ call'[n].target = call[n].target
      /\ call'[n].decision = call[n].decision /\ call'[n].pinned = call[n].pinned
  <2>1. call[n] \in CallRecords
    BY DEF NodeTypeOK
  <2>2. CASE call'[n] = call[n]
    BY <2>2
  <2>3. CASE call'[n] = Disturbed(call[n])
    BY <2>1, <2>3, DisturbedFields
  <2> QED BY <2>2, <2>3
<1>2. PhaseOK(n)'
  BY DEF NodeOK, PhaseOK, Bound, Latest
<1>3. CallOK(n)'
  <2>1. (Decided(call[n]))' <=> Decided(call[n])
    BY <1>1 DEF Decided
  <2>2. (Calling(n))' <=> Calling(n)
    BY <1>1 DEF Calling
  <2> SUFFICES ASSUME Calling(n) PROVE CallOK(n)'
    BY <2>2 DEF CallOK
  <2>3. CallOK(n)
    BY DEF NodeOK
  <2>4. engine' = "up"
    BY <2>3 DEF CallOK, Grows
  <2>5. IF call'[n].kind = "launch" THEN phase'[n] = "ready"
        ELSE phase'[n] = "ended" /\ host'.op = "action" /\ host'.node = n
    BY <1>1, <2>3 DEF CallOK
  <2>6. /\ call'[n].target = None <=> attempts'[n] = << >>
        /\ call'[n].target # None => Bound(n, call[n].target)'
    BY <1>1, <2>3 DEF CallOK, Bound, Latest
  <2>7. /\ call'[n].step \in {"resolve", "pin"} => ~call'[n].pinned
        /\ call'[n].step = "reserve" => call'[n].pinned
    BY <1>1, <2>3 DEF CallOK
  <2>8. /\ Decided(call[n])' => DecisionOK(n, call[n].decision)'
        /\ (Decided(call[n]) /\ call[n].pinned /\ attempts[n] # << >>)' => Follows(n, call[n].decision)'
    BY <1>1, <2>1, <2>3 DEF CallOK, DecisionOK, Follows, Latest
  <2> QED BY <2>4, <2>5, <2>6, <2>7, <2>8 DEF CallOK
<1>4. HistoryOK(n)'
  BY <1>1 DEF NodeOK, HistoryOK, Passed, Decided, Grows
<1>5. ChainOK(n)'
  BY DEF NodeOK, ChainOK, DecisionOK
<1> QED BY <1>2, <1>3, <1>4, <1>5 DEF NodeOK

\* What a step of a call may leave it with.
MovesTo(n, c) ==
  /\ c.step \in {"resolve", "pin"} => ~c.pinned
  /\ c.step = "reserve" => c.pinned
  /\ Decided(c) => DecisionOK(n, c.decision)
  /\ Decided(c) /\ c.pinned /\ attempts[n] # << >> => Follows(n, c.decision)
  /\ Durable /\ Passed(c) => c.decision.catalog \in disk.catalogs
  /\ Durable /\ c.step = "gate" => c.decision.catalog \in registry.known

LEMMA CallMoves ==
  ASSUME NEW n \in Nodes, NodesInv, Grows, host' = host, UNCHANGED <<requirement, attempts, pending, phase>>,
         Calling(n), NEW d, Continues(call[n], d), d.step # "idle", MovesTo(n, d),
         call' \in [Nodes -> CallRecords], call'[n] = d,
         \A m \in Nodes \ {n} : call'[m] = call[m] \/ call'[m] = Disturbed(call[m])
  PROVE  NodesInv'
<1>1. NodeTypeOK /\ NodeTypeOK' /\ \A m \in Nodes : NodeOK(m)
  BY DEF NodesInv, NodeTypeOK, NodeOK
<1>2. ASSUME NEW m \in Nodes \ {n} PROVE NodeOK(m)'
  BY <1>1, OtherNode
<1>3. NodeOK(n)'
  <2>1. PhaseOK(n)' /\ ChainOK(n)'
    BY <1>1 DEF NodeOK, PhaseOK, Bound, Latest, ChainOK, DecisionOK
  <2>2. d.kind = call[n].kind /\ d.target = call[n].target
    BY DEF Continues
  <2>3. CallOK(n) /\ HistoryOK(n)
    BY <1>1 DEF NodeOK
  <2>4. HistoryOK(n)'
    BY <2>3 DEF HistoryOK, MovesTo, Grows, Passed, Decided
  <2>5. CallOK(n)'
    <3>1. engine' = "up"
      BY <2>3 DEF CallOK, Grows
    <3>2. IF d.kind = "launch" THEN phase'[n] = "ready" ELSE phase'[n] = "ended" /\ host'.op = "action" /\ host'.node = n
      BY <2>2, <2>3 DEF CallOK
    <3>3. /\ d.target = None <=> attempts'[n] = << >>
          /\ d.target # None => Bound(n, d.target)'
      BY <2>2, <2>3 DEF CallOK, Bound, Latest
    <3>4. /\ Decided(d) => DecisionOK(n, d.decision)'
          /\ Decided(d) /\ d.pinned /\ attempts'[n] # << >> => Follows(n, d.decision)'
      BY DEF MovesTo, DecisionOK, Follows, Latest
    <3> QED BY <3>1, <3>2, <3>3, <3>4 DEF CallOK, MovesTo, Decided
  <2> QED BY <2>1, <2>4, <2>5 DEF NodeOK
<1>4. BudgetKept'
  BY DEF NodesInv, BudgetKept, routingCostBeforeAttempt
<1> QED BY <1>1, <1>2, <1>3, <1>4 DEF NodesInv, NodeOK

\* The steps that change one call and nothing else.
LEMMA CallMovesAlone ==
  ASSUME NEW n \in Nodes, NodesInv, UNCHANGED <<configVars, teamVars, requirement, attempts, pending, phase>>,
         Calling(n), NEW d, Continues(call[n], d), d.step # "idle", MovesTo(n, d), CallIs(n, d)
  PROVE  NodesInv'
<1>1. Grows /\ host' = host
  BY DEF Grows, configVars
<1>2. call \in [Nodes -> CallRecords] /\ d \in CallRecords
  BY DEF NodesInv, NodeTypeOK, Continues
<1>3. call' \in [Nodes -> CallRecords] /\ call'[n] = d /\ \A m \in Nodes \ {n} : call'[m] = call[m]
  BY <1>2 DEF CallIs
<1> QED BY <1>1, <1>3, CallMoves

LEMMA RefusedMoves ==
  ASSUME NEW n, NEW d, d.step = "refused" \/ (d.step = "resolve" /\ ~d.pinned)
  PROVE  MovesTo(n, d) /\ d.step # "idle"
  BY DEF MovesTo, Decided, Passed

LEMMA ResolveKeeps ==
  ASSUME NEW n \in Nodes, ConfigInv, NodesInv, Resolve(n)
  PROVE  NodesInv'
<1> DEFINE decision == ResolveV1(registry.active, requirement[n])
<1>0. /\ call[n] \in CallRecords /\ call[n].step = "resolve" /\ Calling(n) /\ ~call[n].pinned
      /\ requirement[n] \in RequirementRecords
  BY AttemptAssumption DEF NodesInv, NodeTypeOK, Resolve, Calling, CallOK
<1>1. UNCHANGED <<configVars, teamVars, requirement, attempts, pending, phase>>
  BY DEF Resolve
<1>2. engine = "up" /\ registry.active \in Catalogs /\ registry.active \in registry.known
  BY <1>0 DEF NodesInv, CallOK, ConfigInv, ConfigTypeOK, CatalogsOK
<1>3. CASE decision = NoDecision
  <2>1. CallIs(n, Refused(call[n]))
    BY <1>3 DEF Resolve
  <2> DEFINE d == Refused(call[n])
  <2>2. Continues(call[n], d) /\ d.step = "refused"
    BY <1>0, RefusedFields
  <2>3. CallIs(n, d)
    BY <2>1
  <2> HIDE DEF d
  <2>4. MovesTo(n, d) /\ d.step # "idle"
    BY <2>2, RefusedMoves
  <2> QED BY <1>0, <1>1, <2>2, <2>3, <2>4, CallMovesAlone
<1>4. CASE decision # NoDecision
  <2>1. CallIs(n, [call[n] EXCEPT !.step = "gate", !.decision = decision])
    BY <1>4, Zenon DEF Resolve
  <2>2. /\ decision \in DecisionRecords /\ decision.catalog = registry.active
        /\ decision.maxCost = requirement[n].maxCost /\ decision.selected \in Routes
    BY <1>0, <1>2, <1>4, Resolved
  <2> HIDE DEF decision
  <2> DEFINE d == DecidedOn(call[n], decision)
  <2>3. Continues(call[n], d) /\ d.step = "gate" /\ d.decision = decision /\ d.pinned = call[n].pinned
    BY <1>0, <2>2, DecidedFields
  <2>4. CallIs(n, d)
    BY <2>1, Zenon DEF DecidedOn
  <2> HIDE DEF d
  <2>5. MovesTo(n, d)
    BY <1>0, <1>2, <2>2, <2>3 DEF MovesTo, Decided, Passed, DecisionOK
  <2>6. d.step # "idle"
    BY <2>3
  <2> QED BY <1>0, <1>1, <2>3, <2>4, <2>5, <2>6, CallMovesAlone
<1> QED BY <1>3, <1>4

\* The gate is passed while no catalog is unsaved, so the decision's is on disk.
LEMMA GateSaved ==
  ASSUME NEW n \in Nodes, ConfigInv, NodesInv, Calling(n), Decided(call[n]), mu = Free, Durable
  PROVE  call[n].decision.catalog \in disk.catalogs
<1>1. engine = "up" /\ HistoryOK(n)
  BY DEF NodesInv, CallOK
<1>2. CASE Passed(call[n])
  BY <1>1, <1>2 DEF HistoryOK
<1>3. CASE ~Passed(call[n])
  <2>1. call[n].decision.catalog \in registry.known
    BY <1>1, <1>3 DEF HistoryOK, Passed
  <2>2. Unsaved = {}
    BY FreeFields DEF Unsaved, None
  <2> QED BY <1>1, <2>1, <2>2 DEF ConfigInv, CatalogsOK
<1> QED BY <1>2, <1>3

\* A call that keeps its decision while no catalog is unsaved.
LEMMA PassedMoves ==
  ASSUME NEW n \in Nodes, ConfigInv, NodesInv, Calling(n), Decided(call[n]), mu = Free, NEW d,
         d.decision = call[n].decision, d.pinned = call[n].pinned,
         \/ d.step \in {"ask", "asked", "reread"}
         \/ d.step = "reserve" /\ d.pinned
         \/ d.step = "pin" /\ ~d.pinned
  PROVE  MovesTo(n, d) /\ d.step # "idle"
<1>1. Durable => d.decision.catalog \in disk.catalogs
  BY GateSaved
<1>2. CallOK(n)
  BY DEF NodesInv
<1> QED BY <1>1, <1>2 DEF MovesTo, CallOK, Decided, Passed

LEMMA TriedKeeps ==
  ASSUME NEW n \in Nodes, ConfigInv, NodesInv, Calling(n), Decided(call[n]), mu = Free,
         UNCHANGED <<configVars, teamVars, requirement, attempts, pending, phase>>,
         \/ CallIs(n, TryFailed(call[n]))
         \/ CallIs(n, TryPassed(call[n]))
         \/ \E s \in {"ask", "reread"} : CallIs(n, [call[n] EXCEPT !.step = s])
         \/ \E p \in SUBSET Routes : CallIs(n, [call[n] EXCEPT !.step = "asked", !.probe = p])
  PROVE  NodesInv'
<1>0. call[n] \in CallRecords
  BY DEF NodesInv, NodeTypeOK
<1>1. CASE CallIs(n, TryFailed(call[n]))
  <2> DEFINE d == TryFailed(call[n])
  <2>1. CallIs(n, d) /\ Continues(call[n], d) /\ (d.step = "refused" \/ (d.step = "resolve" /\ ~d.pinned))
    BY <1>0, <1>1, TryFailedFields
  <2> HIDE DEF d
  <2>2. MovesTo(n, d) /\ d.step # "idle"
    BY <2>1, RefusedMoves
  <2> QED BY <2>1, <2>2, CallMovesAlone
<1>2. CASE CallIs(n, TryPassed(call[n]))
  <2> DEFINE d == TryPassed(call[n])
  <2>1. /\ CallIs(n, d) /\ Continues(call[n], d) /\ d.decision = call[n].decision /\ d.pinned = call[n].pinned
        /\ (d.step = "reserve" /\ d.pinned) \/ (d.step = "pin" /\ ~d.pinned)
    BY <1>0, <1>2, TryPassedFields
  <2> HIDE DEF d
  <2>2. MovesTo(n, d) /\ d.step # "idle"
    BY <2>1, PassedMoves
  <2> QED BY <2>1, <2>2, CallMovesAlone
<1>3. ASSUME NEW s \in {"ask", "reread"}, CallIs(n, [call[n] EXCEPT !.step = s]) PROVE NodesInv'
  <2> DEFINE d == [call[n] EXCEPT !.step = s]
  <2>0. s \in Steps
    BY DEF Steps
  <2>1. CallIs(n, d) /\ Continues(call[n], d) /\ d.step = s /\ d.decision = call[n].decision /\ d.pinned = call[n].pinned
    BY <1>0, <1>3, <2>0, SteppedFields
  <2> HIDE DEF d
  <2>2. MovesTo(n, d) /\ d.step # "idle"
    BY <2>1, PassedMoves
  <2> QED BY <2>1, <2>2, CallMovesAlone
<1>4. ASSUME NEW p \in SUBSET Routes, CallIs(n, [call[n] EXCEPT !.step = "asked", !.probe = p]) PROVE NodesInv'
  <2> DEFINE d == AskedFor(call[n], p)
  <2>0. CallIs(n, d)
    BY <1>4, Zenon DEF AskedFor
  <2>1. Continues(call[n], d) /\ d.step = "asked" /\ d.decision = call[n].decision /\ d.pinned = call[n].pinned
    BY <1>0, AskedFields
  <2> HIDE DEF d
  <2>2. MovesTo(n, d) /\ d.step # "idle"
    BY <2>1, PassedMoves
  <2> QED BY <2>0, <2>1, <2>2, CallMovesAlone
<1> QED BY <1>1, <1>2, <1>3, <1>4

LEMMA GateKeeps ==
  ASSUME NEW n \in Nodes, ConfigInv, NodesInv, EnsureTargetAvailable(n) \/ Ask(n) \/ Reread(n)
  PROVE  NodesInv'
<1>1. /\ mu = Free /\ Calling(n) /\ Decided(call[n])
      /\ UNCHANGED <<configVars, teamVars, requirement, attempts, pending, phase>>
  BY DEF EnsureTargetAvailable, Ask, Reread, Calling, Decided
<1>2. CASE EnsureTargetAvailable(n)
  <2>1. \/ CallIs(n, TryFailed(call[n])) \/ CallIs(n, TryPassed(call[n]))
        \/ CallIs(n, [call[n] EXCEPT !.step = "ask"])
    BY <1>2, Zenon DEF EnsureTargetAvailable
  <2> QED BY <1>1, <2>1, TriedKeeps
<1>3. CASE Ask(n)
  <2> DEFINE p == {call[n].decision.selected} \cap works
  <2>1. p \in SUBSET Routes
    BY DEF ConfigInv, ConfigTypeOK
  <2>2. \/ CallIs(n, [call[n] EXCEPT !.step = "asked", !.probe = p])
        \/ CallIs(n, [call[n] EXCEPT !.step = "reread"])
    BY <1>3, Zenon DEF Ask
  <2> HIDE DEF p
  <2> QED BY <1>1, <2>1, <2>2, TriedKeeps
<1>4. CASE Reread(n)
  <2>1. CallIs(n, TryFailed(call[n])) \/ CallIs(n, TryPassed(call[n]))
    BY <1>4, Zenon DEF Reread
  <2> QED BY <1>1, <2>1, TriedKeeps
<1> QED BY <1>2, <1>3, <1>4

LEMMA AskedKeeps ==
  ASSUME NEW n \in Nodes, ConfigInv, NodesInv, NEW fails \in BOOLEAN, Asked(n, fails)
  PROVE  ConfigInv' /\ NodesInv'
<1>0. /\ call \in [Nodes -> CallRecords] /\ call[n].step = "asked" /\ Calling(n) /\ Decided(call[n]) /\ mu = Free
      /\ UNCHANGED <<requirement, attempts, pending, phase>> /\ host' = host
      /\ UNCHANGED <<engine, config, discovered, accepted, refused, works>>
  BY DEF NodesInv, NodeTypeOK, Asked, Probed, Calling, Decided
<1>1. engine = "up"
  BY <1>0 DEF NodesInv, CallOK
<1>2. ConfigInv' /\ registry.known \subseteq registry'.known /\ disk'.catalogs = disk.catalogs
  <2>1. Probed([routes |-> {call[n].decision.selected}, ok |-> call[n].probe], n, fails)
    BY DEF Asked
  <2> QED BY <1>0, <1>1, <2>1, ProbedKeeps
<1>3. Grows
  BY <1>0, <1>2 DEF Grows
<1> DEFINE d == Recorded(call[n], fails)
<1>4. Continues(call[n], d) /\ d.step = "reread" /\ d.decision = call[n].decision /\ d.pinned = call[n].pinned
  BY <1>0, RecordedFields
<1>5. call' = [m \in Nodes |-> IF m # n THEN Disturbed(call[m]) ELSE d]
  BY DEF Asked
<1> HIDE DEF d
<1>6. call' \in [Nodes -> CallRecords] /\ call'[n] = d /\ \A m \in Nodes \ {n} : call'[m] = Disturbed(call[m])
  <2>1. \A m \in Nodes : Disturbed(call[m]) \in CallRecords
    BY <1>0, DisturbedFields
  <2> QED BY <1>4, <1>5, <2>1 DEF Continues
<1>7. MovesTo(n, d) /\ d.step # "idle"
  BY <1>0, <1>4, PassedMoves
<1> QED BY <1>0, <1>2, <1>3, <1>4, <1>6, <1>7, CallMoves

LEMMA LatestAttempt ==
  ASSUME NEW n \in Nodes, NodesInv, attempts[n] # << >>
  PROVE  /\ Latest(n) \in AttemptRecords /\ Latest(n).decision \in DecisionRecords
         /\ Latest(n).usage.index \in Nat /\ Len(attempts[n]) \in DOMAIN attempts[n]
         /\ DecisionOK(n, Latest(n).decision)
         /\ Durable => Latest(n).decision.catalog \in disk.catalogs
<1>1. attempts[n] \in Seq(AttemptRecords)
  BY DEF NodesInv, NodeTypeOK
<1>2. Len(attempts[n]) \in DOMAIN attempts[n] /\ Latest(n) \in AttemptRecords
  BY <1>1 DEF Latest
<1>3. Latest(n).decision \in DecisionRecords /\ Latest(n).usage.index \in Nat
  BY <1>2 DEF AttemptRecords, UsageRecords
<1> QED BY <1>2, <1>3 DEF NodesInv, ChainOK, HistoryOK, Latest

\* The route a call is pinned to.
LEMMA PinnedDecision ==
  ASSUME NEW n \in Nodes, ConfigInv, NodesInv, call[n].step = "pin",
         call[n].target \in {None, Pinned(n).decision.selected}
  PROVE  /\ Pinned(n).decision \in DecisionRecords /\ Pinned(n).index \in Nat /\ DecisionOK(n, Pinned(n).decision)
         /\ attempts[n] # << >> => Follows(n, Pinned(n).decision)
         /\ Durable => Pinned(n).decision.catalog \in disk.catalogs
<1> DEFINE c == call[n]
           last == Latest(n)
           next == AdvanceFallbackV1(last.decision)
<1>0. /\ c \in CallRecords /\ c.decision \in DecisionRecords /\ CallOK(n) /\ HistoryOK(n) /\ Calling(n)
      /\ Decided(c) /\ Passed(c) /\ c.target \in Routes \cup {None}
  BY CallFields DEF NodesInv, NodeTypeOK, Calling, Decided, Passed
<1>1. CASE c.target = None
  <2>1. Pinned(n).decision = c.decision /\ Pinned(n).index = 0
    BY <1>1 DEF Pinned
  <2>2. attempts[n] = << >> /\ DecisionOK(n, c.decision)
    BY <1>0, <1>1 DEF CallOK
  <2>3. Durable => c.decision.catalog \in disk.catalogs
    BY <1>0 DEF HistoryOK
  <2> QED BY <1>0, <2>1, <2>2, <2>3
<1>2. CASE c.target # None /\ last.decision.selected = c.target
  <2>1. Pinned(n).decision = last.decision /\ Pinned(n).index = last.usage.index
    BY <1>2 DEF Pinned
  <2>2. attempts[n] # << >>
    BY <1>0, <1>2 DEF CallOK
  <2> QED BY <2>1, <2>2, LatestAttempt DEF Follows
<1>3. CASE c.target # None /\ last.decision.selected # c.target
  <2>1. Pinned(n).decision = next /\ Pinned(n).index = last.usage.index + 1
    BY <1>3 DEF Pinned
  <2>2. attempts[n] # << >> /\ last.outcome = "unavailable"
    BY <1>0, <1>3 DEF CallOK, Bound
  <2>3. next.selected # None
    BY <1>3, <2>1
  <2>4. /\ last.decision \in DecisionRecords /\ last.usage.index \in Nat /\ DecisionOK(n, last.decision)
        /\ Durable => last.decision.catalog \in disk.catalogs
    BY <2>2, LatestAttempt
  <2>5. /\ next \in DecisionRecords /\ next.catalog = last.decision.catalog
        /\ next.maxCost = last.decision.maxCost /\ next.selected \in Routes
    BY <2>3, <2>4, Advanced
  <2> QED BY <2>1, <2>2, <2>4, <2>5 DEF DecisionOK, Follows
<1> QED BY <1>1, <1>2, <1>3

LEMMA PinKeeps ==
  ASSUME NEW n \in Nodes, ConfigInv, NodesInv, Pin(n)
  PROVE  NodesInv'
<1>0. /\ call[n] \in CallRecords /\ call[n].step = "pin" /\ Calling(n)
      /\ UNCHANGED <<configVars, teamVars, requirement, attempts, pending, phase>>
  BY DEF NodesInv, NodeTypeOK, Pin, Calling
<1>1. engine = "up"
  BY <1>0 DEF NodesInv, CallOK
<1>2. CASE call[n].target \in {None, Pinned(n).decision.selected}
  <2> DEFINE x == Pinned(n).decision
             i == Pinned(n).index
             d == PinnedTo(call[n], x, i)
  <2>1. /\ x \in DecisionRecords /\ i \in Nat /\ DecisionOK(n, x)
        /\ attempts[n] # << >> => Follows(n, x)
        /\ Durable => x.catalog \in disk.catalogs
    BY <1>0, <1>2, PinnedDecision
  <2>2. CallIs(n, d)
    BY <1>2, Zenon DEF Pin
  <2>3. Continues(call[n], d) /\ d.step = "gate" /\ d.decision = x /\ d.pinned
    <3> HIDE DEF x, i
    <3> QED BY <1>0, <2>1, PinnedFields
  <2> HIDE DEF x, i, d
  <2>4. disk.catalogs \subseteq registry.known
    BY <1>1 DEF ConfigInv, CatalogsOK
  <2>5. MovesTo(n, d) /\ d.step # "idle"
    BY <2>1, <2>3, <2>4 DEF MovesTo
  <2> QED BY <1>0, <2>2, <2>3, <2>5, CallMovesAlone
<1>3. CASE ~(call[n].target \in {None, Pinned(n).decision.selected})
  <2> DEFINE d == Refused(call[n])
  <2>1. CallIs(n, d)
    BY <1>3, Zenon DEF Pin
  <2>2. Continues(call[n], d) /\ d.step = "refused"
    BY <1>0, RefusedFields
  <2> HIDE DEF d
  <2>3. MovesTo(n, d) /\ d.step # "idle"
    BY <2>2, RefusedMoves
  <2> QED BY <1>0, <2>1, <2>2, <2>3, CallMovesAlone
<1> QED BY <1>2, <1>3

\* A call begins.
LEMMA CallBegins ==
  ASSUME NEW n \in Nodes, NodesInv, engine = "up", Grows, ~Calling(n),
         UNCHANGED <<requirement, attempts, pending, phase>>,
         NEW kind \in {"launch", "retry", "answer"}, NEW target \in Routes \cup {None}, CallIs(n, NewCall(kind, target)),
         host' = host \/ host.op # "action",
         IF kind = "launch" THEN phase[n] = "ready" ELSE phase[n] = "ended" /\ host'.op = "action" /\ host'.node = n,
         target = None <=> attempts[n] = << >>, target # None => Bound(n, target)
  PROVE  NodesInv'
<1> DEFINE d == NewCall(kind, target)
<1>1. d \in CallRecords /\ d.step = "resolve" /\ d.kind = kind /\ d.target = target /\ ~d.pinned
  BY NewCallFields
<1>2. CallIs(n, d)
  OBVIOUS
<1> HIDE DEF d
<1>3. NodeTypeOK /\ \A m \in Nodes : NodeOK(m)
  BY DEF NodesInv, NodeOK
<1>4. call' \in [Nodes -> CallRecords] /\ call'[n] = d /\ \A m \in Nodes \ {n} : call'[m] = call[m]
  BY <1>1, <1>2, <1>3 DEF CallIs, NodeTypeOK
<1>5. NodeTypeOK'
  BY <1>3, <1>4 DEF NodeTypeOK
<1>6. ASSUME NEW m \in Nodes \ {n} PROVE NodeOK(m)'
  BY <1>3, <1>4, OtherNode
<1>7. NodeOK(n)'
  <2>1. PhaseOK(n)' /\ ChainOK(n)'
    BY <1>3 DEF NodeOK, PhaseOK, Bound, Latest, ChainOK, DecisionOK
  <2>2. HistoryOK(n)'
    BY <1>1, <1>3, <1>4 DEF NodeOK, HistoryOK, Passed, Decided, Grows
  <2>3. CallOK(n)'
    <3>1. target # None => Bound(n, target)'
      BY DEF Bound, Latest
    <3> QED BY <1>1, <1>4, <3>1 DEF CallOK, Decided, Grows
  <2> QED BY <2>1, <2>2, <2>3 DEF NodeOK
<1>8. BudgetKept'
  BY DEF NodesInv, BudgetKept, routingCostBeforeAttempt
<1> QED BY <1>5, <1>6, <1>7, <1>8 DEF NodesInv, NodeOK

LEMMA LaunchKeeps ==
  ASSUME NEW n \in Nodes, NodesInv, Launch(n)
  PROVE  NodesInv'
<1>1. engine = "up" /\ phase[n] = "ready" /\ ~Calling(n) /\ Grows /\ host' = host
  BY DEF Launch, Grows, configVars
<1>2. /\ pending[n] \in Routes \cup {None} /\ CallIs(n, NewCall("launch", pending[n]))
      /\ UNCHANGED <<requirement, attempts, pending, phase>>
  BY DEF Launch, NodesInv, NodeTypeOK
<1>3. (pending[n] = None <=> attempts[n] = << >>) /\ (pending[n] # None => Bound(n, pending[n]))
  BY <1>1 DEF NodesInv, PhaseOK
<1> QED BY <1>1, <1>2, <1>3, CallBegins

LEMMA PendingTarget ==
  ASSUME NEW n \in Nodes, NodesInv, attempts[n] # << >>, NEW allow, NEW r, r = pendingRoutingTarget(n, allow)
  PROVE  r \in Routes /\ Bound(n, r)
<1> DEFINE last == Latest(n)
           next == AdvanceFallbackV1(last.decision)
<1>1. last.decision \in DecisionRecords /\ last.decision.selected \in Routes
  BY LatestAttempt DEF DecisionOK
<1>2. next # NoDecision => next.selected \in Routes
  BY <1>1, AdvancedType
<1>3. \/ r = last.decision.selected
      \/ r = next.selected /\ next # NoDecision /\ last.outcome = "unavailable"
  BY DEF pendingRoutingTarget
<1> QED BY <1>1, <1>2, <1>3 DEF Bound

LEMMA ActionKeeps ==
  ASSUME NEW n \in Nodes, ConfigInv, NodesInv, NEW kind \in {"retry", "answer"}, NEW outcomes, NEW allow,
         Action(n, kind, outcomes, allow)
  PROVE  ConfigInv' /\ NodesInv' /\ host.op = "idle" /\ host'.op = "action"
<1>1. /\ engine = "up" /\ host.op = "idle" /\ phase[n] = "ended" /\ ~Calling(n)
      /\ host'.op = "action" /\ host'.node = n /\ UNCHANGED <<requirement, attempts, pending, phase>>
      /\ UNCHANGED <<engine, config, discovered, available, registry, disk, mu, accepted, refused, works>>
  BY FreeFields DEF Action
<1>2. attempts[n] # << >> /\ Grows
  BY <1>1 DEF NodesInv, PhaseOK, Grows
<1> DEFINE r == pendingRoutingTarget(n, allow)
<1>3. r \in Routes /\ Bound(n, r) /\ r # None
  BY <1>2, PendingTarget, NoDecisionFields
<1>4. CallIs(n, NewCall(kind, r))
  BY DEF Action
<1> HIDE DEF r
<1>5. NodesInv'
  BY <1>1, <1>2, <1>3, <1>4, CallBegins
<1>6. ConfigInv'
  BY <1>1, HostChanges
<1> QED BY <1>1, <1>5, <1>6

\* What is reserved, if anything is, stays within the budget.
LEMMA Reserved ==
  ASSUME NEW x \in DecisionRecords, x.selected \in Routes, NEW prior \in Nat, NEW i \in Nat,
         NEW usage, usage = ReserveRoutingUsageV1(x, prior, i), usage.cost # 0
  PROVE  usage \in UsageRecords /\ prior + usage.cost <= x.maxCost
<1> DEFINE cost == Capability[x.selected].cost
<1>1. cost \in Nat
  BY DEF Capability, Routes
<1>2. usage = IF prior + cost > x.maxCost THEN [cost |-> 0, total |-> 0, index |-> 0]
              ELSE [cost |-> cost, total |-> prior + cost, index |-> i]
  BY DEF ReserveRoutingUsageV1
<1> HIDE DEF cost
<1>3. x.maxCost \in Nat
  BY DEF DecisionRecords
<1>4. ~(prior + cost > x.maxCost) /\ usage = [cost |-> cost, total |-> prior + cost, index |-> i]
  BY <1>2
<1> QED BY <1>1, <1>3, <1>4 DEF UsageRecords

\* One Node changes, and its call is over.
LEMMA CallEnds ==
  ASSUME NEW n \in Nodes, NodesInv, Grows, UNCHANGED requirement, Calling(n), CallIs(n, NoCall),
         host' = host \/ call[n].kind # "launch",
         attempts' \in [Nodes -> Seq(AttemptRecords)], pending' \in [Nodes -> Routes \cup {None}],
         phase' \in [Nodes -> {"ready", "running", "ended"}],
         \A m \in Nodes \ {n} : attempts'[m] = attempts[m] /\ pending'[m] = pending[m] /\ phase'[m] = phase[m],
         PhaseOK(n)', ChainOK(n)', routingCostBeforeAttempt(n)' <= requirement[n].maxCost,
         Durable => \A i \in DOMAIN attempts'[n] : attempts'[n][i].decision.catalog \in disk'.catalogs
  PROVE  NodesInv'
<1>1. NodeTypeOK /\ \A m \in Nodes : NodeOK(m)
  BY DEF NodesInv, NodeOK
<1>2. call' \in [Nodes -> CallRecords] /\ call'[n].step = "idle" /\ \A m \in Nodes \ {n} : call'[m] = call[m]
  BY <1>1, NoCallFields DEF CallIs, NodeTypeOK
<1>3. NodeTypeOK'
  BY <1>1, <1>2 DEF NodeTypeOK
<1>4. ASSUME NEW m \in Nodes \ {n} PROVE NodeOK(m)'
  <2>1. host' = host \/ host.op # "action" \/ host.node # m
    BY <1>1 DEF NodeOK, CallOK
  <2> QED BY <1>1, <1>2, <2>1, OtherNode
<1>5. NodeOK(n)'
  <2>1. CallOK(n)'
    BY <1>2 DEF CallOK, Calling
  <2>2. HistoryOK(n)'
    BY <1>2 DEF HistoryOK, Passed, Decided
  <2> QED BY <2>1, <2>2 DEF NodeOK
<1>6. BudgetKept'
  <2>1. ASSUME NEW m \in Nodes PROVE routingCostBeforeAttempt(m)' <= requirement'[m].maxCost
    <3>1. CASE m = n
      BY <3>1
    <3>2. CASE m # n
      BY <3>2 DEF NodesInv, BudgetKept, routingCostBeforeAttempt
    <3> QED BY <3>1, <3>2
  <2> QED BY <2>1 DEF BudgetKept
<1> QED BY <1>3, <1>4, <1>5, <1>6 DEF NodesInv, NodeOK

LEMMA RefuseKeeps ==
  ASSUME NEW n \in Nodes, ConfigInv, NodesInv, Refuse(n)
  PROVE  ConfigInv' /\ NodesInv' /\ (host' = host \/ (host.op = "action" /\ host'.op = "idle"))
<1>1. /\ Calling(n) /\ CallIs(n, NoCall) /\ host' = (IF call[n].kind = "launch" THEN host ELSE Idle)
      /\ UNCHANGED <<engine, config, discovered, available, registry, disk, mu, accepted, refused, works>>
      /\ UNCHANGED <<requirement, attempts, pending, phase>>
  BY DEF Refuse, Calling
<1>2. host' = host \/ (host.op = "action" /\ host'.op = "idle" /\ engine = "up" /\ call[n].kind # "launch")
  BY <1>1, FreeFields DEF NodesInv, CallOK
<1>3. ConfigInv'
  BY <1>1, <1>2, HostChanges
<1>4. PhaseOK(n)' /\ ChainOK(n)'
  BY <1>1 DEF NodesInv, PhaseOK, Bound, Latest, ChainOK, DecisionOK
<1>5. routingCostBeforeAttempt(n)' <= requirement[n].maxCost
  BY <1>1 DEF NodesInv, BudgetKept, routingCostBeforeAttempt
<1>6. Durable => \A i \in DOMAIN attempts'[n] : attempts'[n][i].decision.catalog \in disk'.catalogs
  BY <1>1 DEF NodesInv, HistoryOK
<1>7. /\ attempts' \in [Nodes -> Seq(AttemptRecords)] /\ pending' \in [Nodes -> Routes \cup {None}]
      /\ phase' \in [Nodes -> {"ready", "running", "ended"}] /\ Grows
  BY <1>1 DEF NodesInv, NodeTypeOK, Grows
<1>8. NodesInv'
  BY <1>1, <1>2, <1>4, <1>5, <1>6, <1>7, CallEnds
<1> QED BY <1>2, <1>3, <1>8

\* An Attempt is added along the chain and within the budget.
LEMMA Attempted ==
  ASSUME NEW n \in Nodes, NodesInv, UNCHANGED requirement, NEW a \in AttemptRecords,
         attempts'[n] = Append(attempts[n], a), DecisionOK(n, a.decision),
         attempts[n] # << >> => Follows(n, a.decision),
         routingCostBeforeAttempt(n) + a.usage.cost <= requirement[n].maxCost,
         phase'[n] = "running", pending'[n] = None
  PROVE  PhaseOK(n)' /\ ChainOK(n)' /\ routingCostBeforeAttempt(n)' <= requirement[n].maxCost
<1>h. PICK h : h = attempts[n]
  OBVIOUS
<1>g. PICK g : g = attempts'[n]
  OBVIOUS
<1>1. h \in Seq(AttemptRecords) /\ ChainOK(n) /\ g = Append(h, a)
  BY <1>h, <1>g DEF NodesInv, NodeTypeOK
<1>2. /\ g \in Seq(AttemptRecords) /\ Len(g) = Len(h) + 1 /\ g # << >> /\ g[Len(g)] = a
      /\ \A i \in 1 .. Len(h) : g[i] = h[i]
  BY <1>1
<1>3. routingCostBeforeAttempt(n)' <= requirement[n].maxCost
  <2>1. CostUpTo(g)[Len(g)] = CostUpTo(h)[Len(h)] + a.usage.cost
    BY <1>1, AppendedCost
  <2> QED BY <1>h, <1>g, <2>1 DEF routingCostBeforeAttempt
<1>4. PhaseOK(n)'
  BY <1>2, <1>g DEF PhaseOK
<1>5. \A i \in DOMAIN g : DecisionOK(n, g[i].decision)
  <2>1. \A i \in 1 .. Len(h) : DecisionOK(n, h[i].decision)
    BY <1>1, <1>h DEF ChainOK
  <2>2. ASSUME NEW i \in 1 .. Len(g) PROVE DecisionOK(n, g[i].decision)
    <3>1. CASE i = Len(g)
      BY <1>2, <3>1
    <3>2. CASE i # Len(g)
      BY <1>1, <1>2, <2>1, <3>2
    <3> QED BY <3>1, <3>2
  <2> QED BY <1>2, <2>2
<1>6. \A i \in 2 .. Len(g) : \/ g[i].decision = g[i - 1].decision
                             \/ /\ g[i - 1].outcome = "unavailable"
                                /\ g[i].decision = AdvanceFallbackV1(g[i - 1].decision)
  <2> SUFFICES ASSUME NEW i \in 2 .. Len(g)
               PROVE  \/ g[i].decision = g[i - 1].decision
                      \/ /\ g[i - 1].outcome = "unavailable"
                         /\ g[i].decision = AdvanceFallbackV1(g[i - 1].decision)
    OBVIOUS
  <2>1. CASE i = Len(g)
    <3>1. g[i] = a /\ g[i - 1] = Latest(n) /\ h # << >>
      BY <1>1, <1>2, <1>h, <2>1 DEF Latest
    <3> QED BY <1>h, <3>1 DEF Follows
  <2>2. CASE i # Len(g)
    <3>1. i \in 2 .. Len(h) /\ g[i] = h[i] /\ g[i - 1] = h[i - 1]
      BY <1>1, <1>2, <2>2
    <3> QED BY <1>1, <1>h, <3>1 DEF ChainOK
  <2> QED BY <2>1, <2>2
<1>7. ChainOK(n)'
  BY <1>5, <1>6, <1>g DEF ChainOK, DecisionOK
<1> QED BY <1>3, <1>4, <1>7

LEMMA ReserveKeeps ==
  ASSUME NEW n \in Nodes, ConfigInv, NodesInv, Reserve(n)
  PROVE  ConfigInv' /\ NodesInv' /\ (host' = host \/ (host.op = "action" /\ host'.op = "idle"))
<1> DEFINE c == call[n]
           prior == routingCostBeforeAttempt(n)
           usage == ReserveRoutingUsageV1(c.decision, prior, c.index)
           a == [decision |-> c.decision, usage |-> usage, outcome |-> "running"]
           refuse == ~HistoryKnown(n) \/ c.decision.catalog \notin registry.known \/ usage.cost = 0
<1>0. /\ c \in CallRecords /\ c.step = "reserve" /\ Calling(n) /\ Decided(c) /\ Passed(c) /\ CallOK(n) /\ HistoryOK(n)
      /\ c.decision \in DecisionRecords /\ c.index \in Nat /\ PhaseOK(n) /\ ChainOK(n)
      /\ attempts \in [Nodes -> Seq(AttemptRecords)] /\ pending \in [Nodes -> Routes \cup {None}]
      /\ phase \in [Nodes -> {"ready", "running", "ended"}]
  BY CallFields DEF NodesInv, NodeTypeOK, Reserve, Calling, Decided, Passed
<1>1. /\ UNCHANGED <<engine, config, discovered, available, registry, disk, mu, accepted, refused, works, events>>
      /\ UNCHANGED teamVars /\ requirement' = requirement /\ Grows
  BY DEF Reserve, Grows
<1>2. /\ engine = "up" /\ DecisionOK(n, c.decision) /\ (attempts[n] # << >> => Follows(n, c.decision))
      /\ Durable => c.decision.catalog \in disk.catalogs
  BY <1>0 DEF CallOK, HistoryOK
<1>3. CASE refuse
  <2>1. CallIs(n, Refused(c)) /\ UNCHANGED <<host, attempts, pending, phase>>
    BY <1>3, Zenon DEF Reserve
  <2> DEFINE d == Refused(c)
  <2>2. Continues(c, d) /\ d.step = "refused"
    BY <1>0, RefusedFields
  <2>3. CallIs(n, d)
    BY <2>1
  <2> HIDE DEF d
  <2>4. MovesTo(n, d) /\ d.step # "idle"
    BY <2>2, RefusedMoves
  <2>5. UNCHANGED <<configVars, teamVars, requirement, attempts, pending, phase>>
    BY <1>1, <2>1 DEF configVars
  <2>6. NodesInv'
    BY <1>0, <2>2, <2>3, <2>4, <2>5, CallMovesAlone
  <2>7. ConfigInv'
    BY <1>1, <2>1, HostChanges
  <2> QED BY <2>1, <2>6, <2>7
<1>4. CASE ~refuse /\ c.kind = "launch"
  <2>1. /\ CallIs(n, NoCall) /\ attempts' = [attempts EXCEPT ![n] = Append(attempts[n], a)]
        /\ pending' = [pending EXCEPT ![n] = None] /\ phase' = [phase EXCEPT ![n] = "running"] /\ host' = host
    BY <1>4, Zenon DEF Reserve
  <2>2. prior \in Nat
    BY <1>0, CostIsNat DEF routingCostBeforeAttempt
  <2>3. c.decision.selected \in Routes /\ usage.cost # 0
    BY <1>2, <1>4 DEF DecisionOK
  <2>4. usage \in UsageRecords /\ prior + usage.cost <= c.decision.maxCost
    <3> HIDE DEF prior
    <3> QED BY <1>0, <2>2, <2>3, Reserved
  <2> HIDE DEF usage, prior, refuse
  <2>5. /\ a \in AttemptRecords /\ a.decision = c.decision /\ a.usage = usage
    BY <1>0, <2>4 DEF AttemptRecords, Outcomes
  <2> HIDE DEF a
  <2>6. /\ attempts'[n] = Append(attempts[n], a) /\ pending'[n] = None /\ phase'[n] = "running"
        /\ \A m \in Nodes \ {n} : attempts'[m] = attempts[m] /\ pending'[m] = pending[m] /\ phase'[m] = phase[m]
        /\ pending' \in [Nodes -> Routes \cup {None}] /\ phase' \in [Nodes -> {"ready", "running", "ended"}]
    BY <1>0, <2>1
  <2>7. attempts[n] \in Seq(AttemptRecords) /\ attempts' \in [Nodes -> Seq(AttemptRecords)]
    BY <1>0, <2>1, <2>5
  <2>8. prior + a.usage.cost <= requirement[n].maxCost
    BY <1>2, <2>4, <2>5 DEF DecisionOK
  <2>9. PhaseOK(n)' /\ ChainOK(n)' /\ routingCostBeforeAttempt(n)' <= requirement[n].maxCost
    BY <1>1, <1>2, <2>5, <2>6, <2>8, Attempted DEF prior
  <2>10. Durable => \A i \in DOMAIN attempts'[n] : attempts'[n][i].decision.catalog \in disk'.catalogs
    <3>1. Durable => \A i \in DOMAIN attempts[n] : attempts[n][i].decision.catalog \in disk.catalogs
      BY <1>0 DEF HistoryOK
    <3> QED BY <1>1, <1>2, <2>5, <2>6, <2>7, <3>1
  <2>11. NodesInv'
    BY <1>0, <1>1, <2>1, <2>6, <2>7, <2>9, <2>10, CallEnds
  <2>12. ConfigInv'
    BY <1>1, <2>1, HostChanges
  <2> QED BY <2>1, <2>11, <2>12
<1>5. CASE ~refuse /\ c.kind # "launch"
  <2>1. /\ CallIs(n, NoCall) /\ attempts' = attempts /\ pending' = [pending EXCEPT ![n] = c.decision.selected]
        /\ phase' = [phase EXCEPT ![n] = "ready"] /\ host' = Idle
    BY <1>5, Zenon DEF Reserve
  <2>2. phase[n] = "ended" /\ host.op = "action" /\ host'.op = "idle"
    BY <1>0, <1>5, <2>1, FreeFields DEF CallOK
  <2>3. attempts[n] # << >> /\ c.decision.selected \in Routes /\ c.decision.selected # None
    BY <1>0, <1>2, <2>2, NoDecisionFields DEF PhaseOK, DecisionOK
  <2>4. Bound(n, c.decision.selected)
    BY <1>2, <2>3 DEF Follows, Bound
  <2> HIDE DEF usage, prior, refuse
  <2>5. /\ attempts'[n] = attempts[n] /\ pending'[n] = c.decision.selected /\ phase'[n] = "ready"
        /\ \A m \in Nodes \ {n} : attempts'[m] = attempts[m] /\ pending'[m] = pending[m] /\ phase'[m] = phase[m]
        /\ pending' \in [Nodes -> Routes \cup {None}] /\ phase' \in [Nodes -> {"ready", "running", "ended"}]
        /\ attempts' \in [Nodes -> Seq(AttemptRecords)]
    BY <1>0, <2>1, <2>3
  <2>6. PhaseOK(n)' /\ ChainOK(n)'
    BY <1>0, <1>1, <2>3, <2>4, <2>5 DEF PhaseOK, Bound, Latest, ChainOK, DecisionOK
  <2>7. routingCostBeforeAttempt(n)' <= requirement[n].maxCost
    BY <1>1, <2>1 DEF NodesInv, BudgetKept, routingCostBeforeAttempt
  <2>8. Durable => \A i \in DOMAIN attempts'[n] : attempts'[n][i].decision.catalog \in disk'.catalogs
    BY <1>0, <1>1, <2>5 DEF HistoryOK
  <2>9. NodesInv'
    BY <1>0, <1>1, <1>5, <2>1, <2>5, <2>6, <2>7, <2>8, CallEnds
  <2>10. ConfigInv'
    BY <1>1, <1>2, <2>2, HostChanges
  <2> QED BY <2>2, <2>9, <2>10
<1> QED BY <1>3, <1>4, <1>5

\* The outcome of the latest Attempt is recorded.
LEMMA Concluded ==
  ASSUME NEW h \in Seq(AttemptRecords), h # << >>, NEW outcome \in Outcomes,
         NEW g, g = [h EXCEPT ![Len(h)].outcome = outcome]
  PROVE  /\ g \in Seq(AttemptRecords) /\ Len(g) = Len(h) /\ DOMAIN g = DOMAIN h /\ g # << >> /\ Len(h) \in Nat
         /\ \A i \in 1 .. Len(h) : g[i].decision = h[i].decision /\ g[i].usage = h[i].usage
         /\ \A i \in 1 .. Len(h) : i # Len(h) => g[i] = h[i]
<1> DEFINE last == h[Len(h)]
           next == [last EXCEPT !.outcome = outcome]
<1>1. last \in AttemptRecords
  OBVIOUS
<1>2. next \in AttemptRecords /\ next.decision = last.decision /\ next.usage = last.usage
  BY <1>1 DEF AttemptRecords
<1>3. g = [h EXCEPT ![Len(h)] = next]
  OBVIOUS
<1> HIDE DEF next
<1> QED BY <1>2, <1>3

LEMMA ConcludeKeeps ==
  ASSUME NEW n \in Nodes, NodesInv, NEW outcome \in Outcomes, Conclude(n, outcome)
  PROVE  NodesInv'
<1>h. PICK h : h = attempts[n]
  OBVIOUS
<1>g. PICK g : g = [h EXCEPT ![Len(h)].outcome = outcome]
  OBVIOUS
<1>0. /\ phase[n] = "running" /\ UNCHANGED <<configVars, teamVars, requirement, pending, call>>
      /\ phase' = [phase EXCEPT ![n] = "ended"] /\ host' = host /\ Grows
  BY DEF Conclude, configVars, Grows
<1>1. /\ NodeTypeOK /\ (\A m \in Nodes : NodeOK(m)) /\ h \in Seq(AttemptRecords) /\ ~Calling(n)
      /\ h # << >> /\ pending[n] = None
  BY <1>0, <1>h DEF NodesInv, NodeTypeOK, NodeOK, PhaseOK, CallOK
<1>2. /\ g \in Seq(AttemptRecords) /\ Len(g) = Len(h) /\ DOMAIN g = DOMAIN h /\ g # << >> /\ Len(h) \in Nat
      /\ \A i \in 1 .. Len(h) : g[i].decision = h[i].decision /\ g[i].usage = h[i].usage
      /\ \A i \in 1 .. Len(h) : i # Len(h) => g[i] = h[i]
  BY <1>1, <1>g, Concluded
<1>3. attempts' = [attempts EXCEPT ![n] = g]
  BY <1>h, <1>g DEF Conclude
<1>4. /\ attempts'[n] = g /\ phase'[n] = "ended"
      /\ \A m \in Nodes \ {n} : attempts'[m] = attempts[m] /\ phase'[m] = phase[m]
      /\ attempts' \in [Nodes -> Seq(AttemptRecords)] /\ phase' \in [Nodes -> {"ready", "running", "ended"}]
  BY <1>0, <1>1, <1>2, <1>3 DEF NodeTypeOK
<1>5. NodeTypeOK'
  BY <1>0, <1>1, <1>4 DEF NodeTypeOK
<1>6. ASSUME NEW m \in Nodes \ {n} PROVE NodeOK(m)'
  BY <1>0, <1>1, <1>4, OtherNode
<1>7. NodeOK(n)'
  <2>2. PhaseOK(n)'
    BY <1>0, <1>1, <1>2, <1>4 DEF PhaseOK
  <2>3. CallOK(n)'
    BY <1>0, <1>1 DEF CallOK, Calling
  <2>4. HistoryOK(n)'
    BY <1>0, <1>1, <1>2, <1>4, <1>h DEF NodeOK, HistoryOK, Passed, Decided, configVars
  <2>5. ChainOK(n)'
    <3>1. \A i \in DOMAIN g : DecisionOK(n, g[i].decision)
      BY <1>1, <1>2, <1>h DEF NodeOK, ChainOK
    <3>2. \A i \in 2 .. Len(g) : \/ g[i].decision = g[i - 1].decision
                                 \/ /\ g[i - 1].outcome = "unavailable"
                                    /\ g[i].decision = AdvanceFallbackV1(g[i - 1].decision)
      BY <1>1, <1>2, <1>h DEF NodeOK, ChainOK
    <3> QED BY <1>0, <1>4, <3>1, <3>2 DEF ChainOK, DecisionOK
  <2> QED BY <2>2, <2>3, <2>4, <2>5 DEF NodeOK
<1>8. BudgetKept'
  <2>1. ASSUME NEW m \in Nodes PROVE routingCostBeforeAttempt(m)' = routingCostBeforeAttempt(m)
    <3>1. CASE m = n
      <4>1. CostUpTo(g)[Len(h)] = CostUpTo(h)[Len(h)]
        <5>1. Len(h) \in Nat /\ Len(h) <= Len(h) /\ Len(h) <= Len(g)
          <6> DEFINE k == Len(h)
          <6>1. k \in Nat /\ Len(g) = k
            BY <1>2
          <6> HIDE DEF k
          <6>2. k <= k
            BY <6>1
          <6> QED BY <6>1, <6>2, Zenon DEF k
        <5>2. \A i \in 1 .. Len(h) : g[i].usage.cost = h[i].usage.cost
          BY <1>2
        <5> QED BY <1>1, <1>2, <5>1, <5>2, SameCost
      <4> QED BY <1>2, <1>4, <1>h, <3>1, <4>1 DEF routingCostBeforeAttempt
    <3>2. CASE m # n
      BY <1>4, <3>2 DEF routingCostBeforeAttempt
    <3> QED BY <3>1, <3>2
  <2> QED BY <1>0, <2>1 DEF NodesInv, BudgetKept
<1> QED BY <1>5, <1>6, <1>7, <1>8 DEF NodesInv, NodeOK

\* A step of the service, the host or the machine.
LEMMA OthersKeep ==
  ASSUME NodesInv, Grows, UNCHANGED <<requirement, attempts, pending, phase>>, call' = call \/ Disturb,
         host' = host \/ host.op # "action"
  PROVE  NodesInv'
<1>1. NodeTypeOK /\ \A n \in Nodes : NodeOK(n)
  BY DEF NodesInv, NodeOK
<1>2. /\ call' \in [Nodes -> CallRecords]
      /\ \A n \in Nodes : call'[n] = call[n] \/ call'[n] = Disturbed(call[n])
  <2>1. \A n \in Nodes : Disturbed(call[n]) \in CallRecords
    BY <1>1, DisturbedFields DEF NodeTypeOK
  <2> QED BY <1>1, <2>1 DEF Disturb, NodeTypeOK
<1>3. NodeTypeOK'
  BY <1>1, <1>2 DEF NodeTypeOK
<1>4. ASSUME NEW n \in Nodes PROVE NodeOK(n)'
  BY <1>1, <1>2, OtherNode
<1>5. BudgetKept'
  BY DEF NodesInv, BudgetKept, routingCostBeforeAttempt
<1> QED BY <1>3, <1>4, <1>5 DEF NodesInv, NodeOK

\* The engine stops or starts: no call is in progress.
LEMMA EngineChanges ==
  ASSUME NodesInv, disk.catalogs \subseteq disk'.catalogs, UNCHANGED <<requirement, attempts, pending, phase>>,
         call' \in [Nodes -> CallRecords], \A n \in Nodes : call'[n].step = "idle"
  PROVE  NodesInv'
<1>1. NodeTypeOK /\ \A n \in Nodes : NodeOK(n)
  BY DEF NodesInv, NodeOK
<1>2. NodeTypeOK'
  BY <1>1 DEF NodeTypeOK
<1>3. ASSUME NEW n \in Nodes PROVE NodeOK(n)'
  <2>1. PhaseOK(n)' /\ ChainOK(n)'
    BY <1>1 DEF NodeOK, PhaseOK, Bound, Latest, ChainOK, DecisionOK
  <2>2. CallOK(n)'
    BY DEF CallOK, Calling
  <2>3. HistoryOK(n)'
    BY <1>1 DEF NodeOK, HistoryOK, Passed, Decided
  <2> QED BY <2>1, <2>2, <2>3 DEF NodeOK
<1>4. BudgetKept'
  BY DEF NodesInv, BudgetKept, routingCostBeforeAttempt
<1> QED BY <1>2, <1>3, <1>4 DEF NodesInv, NodeOK

\* The host's request changes, if at all, on behalf of the configuration.
HostKept == host' = host \/ (host.op \notin {"action", "apply"} /\ host'.op # "apply")

LEMMA HostStepKeeps ==
  ASSUME ConfigInv, HostStep
  PROVE  ConfigInv' /\ Grows /\ HostKept
<1>1. ASSUME NEW routes, HostProbe(routes) PROVE ConfigInv' /\ Grows /\ HostKept
  <2>1. host.op = "idle" /\ host'.op = "probe"
    BY <1>1, FreeFields DEF HostProbe
  <2> QED BY <1>1, <2>1, HostProbeKeeps DEF HostKept
<1>2. ASSUME NEW fails \in BOOLEAN, HostProbed(fails) PROVE ConfigInv' /\ Grows /\ HostKept
  <2>1. host.op = "probe" /\ host'.op = "idle"
    BY <1>2, FreeFields DEF HostProbed
  <2> QED BY <1>2, <2>1, HostProbedKeeps DEF HostKept
<1>3. ASSUME NEW models \in Reports, NEW fails \in BOOLEAN, Discover(models, fails)
      PROVE  ConfigInv' /\ Grows /\ HostKept
  <2>1. host' = host
    BY <1>3 DEF Discover
  <2> QED BY <1>3, <2>1, DiscoverKeeps DEF HostKept
<1>4. ASSUME NEW m \in MutationIDs, NEW r \in Routes, NEW on \in BOOLEAN, ConfigUpdate(m, r, on)
      PROVE  ConfigInv' /\ Grows /\ HostKept
  <2>1. host.op = "idle" /\ (host' = host \/ host'.op = "update")
    BY <1>4, FreeFields DEF ConfigUpdate
  <2> QED BY <1>4, <2>1, ConfigUpdateKeeps DEF HostKept
<1>5. ASSUME NEW fails \in BOOLEAN, writeConfig(fails) PROVE ConfigInv' /\ Grows /\ HostKept
  BY <1>5, WriteConfigKeeps DEF HostKept
<1> QED BY <1>1, <1>2, <1>3, <1>4, <1>5 DEF HostStep

LEMMA TeamStepKeeps ==
  ASSUME ConfigInv, TeamInv, TeamStep
  PROVE  ConfigInv' /\ TeamInv' /\ Grows /\ (host' = host \/ host.op # "action")
<1>1. /\ UNCHANGED <<engine, config, discovered, available, registry, disk, mu, accepted, refused, works>>
      /\ host' = host \/ host.op \in {"idle", "apply"}
  BY FreeFields DEF TeamStep, mutateTeamRoutes, TeamRoutesRefresh, ApplyTeamRoutes, StartTeam, InstalledChanges
<1>2. host' = host \/ engine = "up"
  BY <1>1, FreeFields DEF ConfigInv, ConfigTypeOK, TeamStep, mutateTeamRoutes, TeamRoutesRefresh, ApplyTeamRoutes,
     StartTeam, InstalledChanges
<1>3. ConfigInv'
  BY <1>1, <1>2, HostChanges
<1>4. Grows
  BY <1>1 DEF Grows
<1>5. TeamInv'
  <2>1. ASSUME NEW t \in TeamRouteIDs, NEW setting \in {"on", "off", "absent"}, mutateTeamRoutes(t, setting)
        PROVE  TeamInv'
    BY <2>1, MutateKeeps
  <2>2. CASE TeamRoutesRefresh
    BY <2>2, RefreshKeeps
  <2>3. CASE ApplyTeamRoutes
    <3>1. engine = "up"
      BY <2>3, FreeFields DEF ConfigInv, ConfigTypeOK, ApplyTeamRoutes
    <3> QED BY <2>3, <3>1, ApplyKeeps
  <2>4. CASE StartTeam
    BY <2>4, StartTeamKeeps
  <2>5. ASSUME NEW found \in Installations, InstalledChanges(found) PROVE TeamInv'
    <3>1. /\ team' = team /\ drivers' = drivers /\ live' = live /\ teamDisk' = teamDisk /\ teams' = teams
          /\ engine' = engine /\ host' = host /\ unwritten' = unwritten
      BY <2>5 DEF InstalledChanges
    <3>2. TeamCatalog' = TeamCatalog /\ TeamTypeOK'
      BY <3>1 DEF TeamCatalog, effectiveTeamCatalog, TeamInv, TeamTypeOK
    <3> QED BY <3>1, <3>2 DEF TeamInv
  <2> QED BY <2>1, <2>2, <2>3, <2>4, <2>5 DEF TeamStep
<1> QED BY <1>1, <1>3, <1>4, <1>5

LEMMA CrashKeeps ==
  ASSUME RoutingInv, Crash
  PROVE  RoutingInv'
<1>1. ConfigInv'
  BY StopKeeps DEF RoutingInv, Crash
<1>2. TeamInv'
  <2>1. /\ team' = team /\ teamDisk' = teamDisk /\ live' = live /\ teams' = teams /\ engine' = "down"
        /\ unwritten' = unwritten
    BY DEF Crash, teamVars, StopConfig
  <2>2. TeamTypeOK'
    BY <2>1 DEF RoutingInv, TeamInv, TeamTypeOK
  <2> QED BY <2>1, <2>2 DEF RoutingInv, TeamInv
<1>3. NodesInv'
  <2>1. call' \in [Nodes -> CallRecords] /\ \A n \in Nodes : call'[n].step = "idle"
    <3>1. call' = [n \in Nodes |-> NoCall]
      BY DEF Crash
    <3> QED BY <3>1, NoCallFields
  <2>2. disk.catalogs \subseteq disk'.catalogs /\ UNCHANGED <<requirement, attempts, pending, phase>>
    BY DEF Crash, StopConfig
  <2> QED BY <2>1, <2>2, EngineChanges DEF RoutingInv
<1> QED BY <1>1, <1>2, <1>3 DEF RoutingInv

LEMMA StartKeeps ==
  ASSUME RoutingInv, Start
  PROVE  RoutingInv'
<1>1. ConfigInv' /\ disk.catalogs \subseteq disk'.catalogs /\ host' = Idle
  BY NewServiceKeeps DEF RoutingInv, Start
<1>2. TeamInv'
  BY <1>1, FreeFields, StartTeamRoutesKeeps DEF RoutingInv, Start
<1>3. NodesInv'
  <2>1. engine = "down" /\ UNCHANGED <<requirement, attempts, pending, phase, call>>
    BY DEF Start, NewService, nodeVars
  <2>2. call' \in [Nodes -> CallRecords] /\ \A n \in Nodes : call'[n].step = "idle"
    BY <2>1 DEF RoutingInv, NodesInv, NodeTypeOK, CallOK, Calling
  <2> QED BY <1>1, <2>1, <2>2, EngineChanges DEF RoutingInv
<1> QED BY <1>1, <1>2, <1>3 DEF RoutingInv

LEMMA NodeStepKeeps ==
  ASSUME RoutingInv, NEW n \in Nodes, NodeStep(n)
  PROVE  RoutingInv'
<1>0. ConfigInv /\ TeamInv /\ NodesInv
  BY DEF RoutingInv
<1>1. CASE \/ Launch(n) \/ Resolve(n) \/ EnsureTargetAvailable(n) \/ Ask(n) \/ Reread(n) \/ Pin(n)
           \/ \E outcome \in Outcomes \ {"running"} : Conclude(n, outcome)
  <2>1. UNCHANGED <<configVars, teamVars>>
    BY <1>1 DEF Launch, Resolve, EnsureTargetAvailable, Ask, Reread, Pin, Conclude
  <2>2. /\ UNCHANGED <<engine, config, discovered, available, registry, disk, mu, accepted, refused, works>>
        /\ host' = host /\ UNCHANGED teamVars
    BY <2>1 DEF configVars
  <2>3. ConfigInv' /\ TeamInv'
    BY <1>0, <2>2, HostChanges, TeamKept
  <2>4. NodesInv'
    BY <1>0, <1>1, LaunchKeeps, ResolveKeeps, GateKeeps, PinKeeps, ConcludeKeeps
  <2> QED BY <2>3, <2>4 DEF RoutingInv
<1>2. CASE Retry(n) \/ Answer(n)
  <2>1. PICK kind \in {"retry", "answer"}, outcomes \in {Failures \cup {"input"}, {"input"}}, allow \in BOOLEAN :
              Action(n, kind, outcomes, allow)
    BY <1>2 DEF Retry, Answer
  <2>2. ConfigInv' /\ NodesInv' /\ host.op = "idle" /\ host'.op = "action"
    BY <1>0, <2>1, ActionKeeps
  <2>3. UNCHANGED teamVars /\ engine' = engine
    BY <2>1 DEF Action
  <2>4. TeamInv'
    BY <1>0, <2>2, <2>3, TeamKept
  <2> QED BY <2>2, <2>4 DEF RoutingInv
<1>3. CASE Reserve(n) \/ Refuse(n)
  <2>1. ConfigInv' /\ NodesInv' /\ (host' = host \/ (host.op = "action" /\ host'.op = "idle"))
    BY <1>0, <1>3, ReserveKeeps, RefuseKeeps
  <2>2. UNCHANGED teamVars /\ engine' = engine
    BY <1>3 DEF Reserve, Refuse
  <2>3. TeamInv'
    BY <1>0, <2>1, <2>2, TeamKept
  <2> QED BY <2>1, <2>3 DEF RoutingInv
<1>4. ASSUME NEW fails \in BOOLEAN, Asked(n, fails) PROVE RoutingInv'
  <2>1. ConfigInv' /\ NodesInv'
    BY <1>0, <1>4, AskedKeeps
  <2>2. UNCHANGED teamVars /\ engine' = engine /\ host' = host
    BY <1>4 DEF Asked
  <2>3. TeamInv'
    BY <1>0, <2>2, TeamKept
  <2> QED BY <2>1, <2>3 DEF RoutingInv
<1> QED BY <1>1, <1>2, <1>3, <1>4 DEF NodeStep

LEMMA RoutingStep ==
  ASSUME RoutingInv, [Next]_vars
  PROVE  RoutingInv'
<1>0. ConfigInv /\ TeamInv /\ NodesInv
  BY DEF RoutingInv
<1>1. ASSUME HostStep \/ WorldStep, Disturb, UNCHANGED <<teamVars, requirement, attempts, pending, phase>>
      PROVE  RoutingInv'
  <2>1. ConfigInv' /\ Grows /\ HostKept
    BY <1>0, <1>1, HostStepKeeps, WorldStepKeeps DEF HostKept
  <2>2. TeamInv'
    BY <1>0, <1>1, <2>1, TeamKept DEF HostKept, Grows
  <2>3. NodesInv'
    BY <1>0, <1>1, <2>1, OthersKeep DEF HostKept
  <2> QED BY <2>1, <2>2, <2>3 DEF RoutingInv
<1>2. ASSUME ServiceStep, UNCHANGED <<teamVars, nodeVars>> PROVE RoutingInv'
  <2>1. ConfigInv' /\ Grows /\ (host' = host \/ (host.op = "update" /\ host'.op = "idle"))
    BY <1>0, <1>2, FreeFields, PersistKeeps DEF ServiceStep
  <2>2. TeamInv'
    BY <1>0, <1>2, <2>1, TeamKept DEF Grows
  <2>3. UNCHANGED <<requirement, attempts, pending, phase>> /\ call' = call
    BY <1>2 DEF nodeVars
  <2>4. NodesInv'
    BY <1>0, <2>1, <2>3, OthersKeep
  <2> QED BY <2>1, <2>2, <2>4 DEF RoutingInv
<1>3. ASSUME NEW n \in Nodes, NodeStep(n) PROVE RoutingInv'
  BY <1>3, NodeStepKeeps
<1>4. ASSUME TeamStep, UNCHANGED nodeVars PROVE RoutingInv'
  <2>1. ConfigInv' /\ TeamInv' /\ Grows /\ (host' = host \/ host.op # "action")
    BY <1>0, <1>4, TeamStepKeeps
  <2>2. UNCHANGED <<requirement, attempts, pending, phase>> /\ call' = call
    BY <1>4 DEF nodeVars
  <2>3. NodesInv'
    BY <1>0, <2>1, <2>2, OthersKeep
  <2> QED BY <2>1, <2>3 DEF RoutingInv
<1>5. CASE Crash
  BY <1>5, CrashKeeps
<1>6. CASE Start
  BY <1>6, StartKeeps
<1>7. CASE UNCHANGED vars
  <2>1. /\ UNCHANGED <<engine, config, discovered, available, registry, disk, mu, accepted, refused, works>>
        /\ host' = host /\ UNCHANGED teamVars /\ UNCHANGED <<requirement, attempts, pending, phase>> /\ call' = call
    BY <1>7 DEF vars, configVars, nodeVars
  <2>2. Grows
    BY <2>1 DEF Grows
  <2>3. ConfigInv' /\ TeamInv'
    BY <1>0, <2>1, HostChanges, TeamKept
  <2>4. NodesInv'
    BY <1>0, <2>1, <2>2, OthersKeep
  <2> QED BY <2>3, <2>4 DEF RoutingInv
<1> QED BY <1>1, <1>2, <1>3, <1>4, <1>5, <1>6, <1>7 DEF Next

LEMMA RoutingInit ==
  ASSUME Init
  PROVE  RoutingInv
<1> DEFINE first == [enabled |-> Routes, revision |-> 1, receipts |-> << >>]
           none  == [r \in Routes |-> "unknown"]
<1>1. ConfigInv
  <2>1. /\ engine = "up" /\ config = first /\ discovered = {} /\ available = none
        /\ registry = [active |-> Routes, known |-> {Routes}]
        /\ disk = [config |-> first, discovered |-> {}, available |-> none, catalogs |-> {Routes}]
        /\ mu = Free /\ accepted = Routes /\ refused = {} /\ works \in Upstream
    BY DEF Init, InitConfig
  <2>2. first \in Configurations /\ first.enabled = Routes /\ none \in Availability
    BY DEF Configurations, Availability, Statuses
  <2> HIDE DEF first, none
  <2>3. disk \in Files /\ disk.config = first /\ disk.catalogs = {Routes}
    BY <2>1, <2>2 DEF Files, Catalogs
  <2>4. ConfigTypeOK
    BY <2>1, <2>2, <2>3, FreeFields, RoutingAssumption DEF ConfigTypeOK, Catalogs
  <2>5. UpdatesOK
    BY <2>1, <2>2, <2>3, FreeFields DEF UpdatesOK, Updating, Agree, AcceptedIsKept, None
  <2>6. CatalogsOK
    BY <2>1, <2>3 DEF CatalogsOK
  <2> QED BY <2>1, <2>4, <2>5, <2>6 DEF ConfigInv
<1>2. TeamInv
  <2> DEFINE routes  == [t \in TeamRouteIDs |-> IF t \in BuiltinRoutes THEN "on" ELSE "absent"]
             start   == [routes |-> routes, revision |-> 1]
             catalog == effectiveTeamCatalog(routes, installed)
  <2>1. /\ team = start /\ drivers = installed /\ live = [current |-> catalog, known |-> {catalog} \ {{}}]
        /\ teamDisk = [team |-> start, catalogs |-> {catalog} \ {{}}] /\ teams = {} /\ host.op = "idle"
        /\ unwritten = FALSE
    BY FreeFields DEF Init, InitTeamRoutes, InitConfig
  <2>2. start \in [routes : [TeamRouteIDs -> {"on", "off", "absent"}], revision : Nat] /\ start.routes = routes
    OBVIOUS
  <2>3. catalog \subseteq TeamRouteIDs
    BY EffectiveTeam
  <2>4. TeamCatalog = catalog
    BY <2>1, <2>2 DEF TeamCatalog
  <2> HIDE DEF start, routes, catalog
  <2>5. TeamTypeOK
    BY <2>1, <2>2, <2>3 DEF TeamTypeOK
  <2> QED BY <2>1, <2>4, <2>5 DEF TeamInv
<1>3. NodesInv
  <2>1. /\ requirement \in [Nodes -> Requirements]
        /\ attempts = [n \in Nodes |-> << >>] /\ pending = [n \in Nodes |-> None]
        /\ phase = [n \in Nodes |-> "ready"] /\ call = [n \in Nodes |-> NoCall]
    BY DEF Init
  <2>2. NodeTypeOK
    BY <2>1, NoCallFields DEF NodeTypeOK
  <2>3. ASSUME NEW n \in Nodes PROVE PhaseOK(n) /\ CallOK(n) /\ HistoryOK(n) /\ ChainOK(n)
    <3>1. attempts[n] = << >> /\ pending[n] = None /\ phase[n] = "ready" /\ call[n].step = "idle"
      BY <2>1, NoCallFields
    <3> QED BY <3>1 DEF PhaseOK, CallOK, Calling, HistoryOK, Passed, Decided, ChainOK
  <2>4. BudgetKept
    <3>1. ASSUME NEW n \in Nodes PROVE routingCostBeforeAttempt(n) <= requirement[n].maxCost
      <4>1. attempts[n] = << >> /\ requirement[n].maxCost \in Nat
        BY <2>1, AttemptAssumption DEF RequirementRecords
      <4>2. CostUpTo(attempts[n])[0] = 0
        BY <2>2, CostStep DEF NodeTypeOK
      <4>3. Len(attempts[n]) = 0
        BY <4>1
      <4>4. routingCostBeforeAttempt(n) = 0
        BY <4>2, <4>3 DEF routingCostBeforeAttempt
      <4> QED BY <4>1, <4>4
    <3> QED BY <3>1 DEF BudgetKept
  <2> QED BY <2>2, <2>3, <2>4 DEF NodesInv
<1> QED BY <1>1, <1>2, <1>3 DEF RoutingInv

-----------------------------------------------------------------------------
(***************************************************************************)
(* The theorems.                                                           *)
(***************************************************************************)

(* The configuration, the Team routes, and the calls and Attempts of every  *)
(* Node stay consistent, however requests, probes, launches, failed writes   *)
(* and crashes interleave (routingconfig/service.go, team_routes.go,         *)
(* run/routing.go).                                                         *)
THEOREM RoutingInvariant == Spec => []RoutingInv
<1>1. Init => RoutingInv
  BY RoutingInit
<1>2. RoutingInv /\ [Next]_vars => RoutingInv'
  BY RoutingStep
<1> QED BY <1>1, <1>2, PTL DEF Spec

(* The Attempts of a Node together never cost more than its requirement     *)
(* allows (routingCostBeforeAttempt, ReserveRoutingUsageV1).                *)
THEOREM BudgetIsKept == Spec => []BudgetKept
<1>1. RoutingInv => BudgetKept
  BY DEF RoutingInv, NodesInv
<1> QED BY <1>1, RoutingInvariant, PTL

(* A Node changes its route only to the next one of its persisted chain, and *)
(* only after a failure without side effects (pendingRoutingTarget,          *)
(* prepareAttemptRouting).                                                  *)
THEOREM RoutesChangeSafely == Spec => []RouteChangesSafely
<1>1. RoutingInv => RouteChangesSafely
  BY DEF RoutingInv, NodesInv, ChainOK, RouteChangesSafely
<1> QED BY <1>1, RoutingInvariant, PTL

(* An answered update of the routes stays in the file (ConfigUpdate).       *)
THEOREM AcceptedUpdatesKept == Spec => []AcceptedIsKept
<1>1. RoutingInv => AcceptedIsKept
  BY DEF RoutingInv, ConfigInv, UpdatesOK
<1> QED BY <1>1, RoutingInvariant, PTL

(* New Teams use the catalog that the Team routes and the discovered CLIs    *)
(* make (ApplyTeamRoutes).                                                  *)
THEOREM TeamCatalogFollows == Spec => []TeamCatalogInStep
<1>1. RoutingInv => TeamCatalogInStep
  BY FreeFields DEF RoutingInv, TeamInv, TeamCatalogInStep, TeamCatalog
<1> QED BY <1>1, RoutingInvariant, PTL

(* Unless the write of a catalog fails, the catalog of every Attempt and of  *)
(* every Team can be resolved at any later time and after any restart        *)
(* (EnsureTargetAvailable waits for the mutex that covers the write).        *)
THEOREM HistoryStaysResolvable ==
  ASSUME "catalog" \notin Faults
  PROVE  Spec => []HistoryResolvable
<1>1. RoutingInv => HistoryResolvable
  <2> SUFFICES ASSUME RoutingInv, engine = "up"
               PROVE  (\A n \in Nodes : HistoryKnown(n)) /\ teams \subseteq live.known
    BY DEF HistoryResolvable
  <2>1. disk.catalogs \subseteq registry.known
    BY DEF RoutingInv, ConfigInv, CatalogsOK
  <2>2. \A n \in Nodes : HistoryKnown(n)
    BY <2>1 DEF RoutingInv, NodesInv, HistoryOK, Durable, HistoryKnown
  <2>3. teams \subseteq live.known
    BY DEF RoutingInv, TeamInv
  <2> QED BY <2>2, <2>3
<1> QED BY <1>1, RoutingInvariant, PTL
=============================================================================
