--------------------------- MODULE Administration ---------------------------
(***************************************************************************)
(* Backends, models and prices are kept in tables and, for the requests,   *)
(* in memory.  This module follows both: the start of the gateway, which   *)
(* fills the tables and builds the memory from them                        *)
(* (cmd/gateway/main.go), the backend and model pages of the dashboard,    *)
(* which change one after the other step by step (dashboard/handler.go),   *)
(* and a reload of the configuration file.  A statement of the database    *)
(* may fail and the process may end between any two steps.  Each page has  *)
(* one handler at a time; the two pages and the reload run together.       *)
(***************************************************************************)
EXTENDS ModelCatalog, Sequences

CONSTANTS
  Settings,      \* settings a backend may be given
  Malformed,     \* those whose address does not parse
  YamlBackends,  \* the file's backends, in the order of their names
  YamlModels,    \* the file's models if --seed-model-catalog is set, else none
  YamlPrices,    \* the file's prices
  MaxChanges,    \* bound on administrative changes
  MaxStarts,     \* bound on starts of the process
  MaxErrors,     \* bound on failing statements
  Absent, Idle   \* model values outside the sets above

\* The handlers' local variables, while a change is under way.
BackendPage == [pc : {"table", "memory", "reload"}, name : BackendNames,
                setting : Settings \cup {Absent}]
ModelPage == [pc : {"store", "table", "prices", "reload"}, op : {"save", "delete"},
              name : ModelNames, refs : SUBSET BackendNames]

\* The manager's view of a backend.
Managed == [setting : Settings \ Malformed, enabled : BOOLEAN]

\* The file is valid: it has a backend, its addresses parse, and its models refer to
\* its backends.
ASSUME AdministrationAssumption ==
  /\ Malformed \subseteq Settings /\ Absent \notin Settings \cup Managed
  /\ Idle \notin BackendPage \cup ModelPage /\ NoModel \notin ModelRow
  /\ YamlBackends \in Seq([name : BackendNames, setting : Settings \ Malformed])
  /\ YamlBackends # << >>
  /\ YamlModels \in Catalog /\ YamlPrices \in PriceList
  /\ \A n \in DOMAIN YamlModels :
       YamlModels[n] \subseteq {YamlBackends[i].name : i \in DOMAIN YamlBackends}
  /\ MaxChanges \in Nat /\ MaxStarts \in Nat /\ MaxErrors \in Nat

VARIABLES
  backendTable, modelTable, priceTable,  \* the database
  phase,         \* of the process: where its start has come, or serving
  cfgBackends,   \* the dashboard's list of backends, cfg.Backends
  cfgPrices,     \* cfg.Pricing.Models
  manager,       \* the manager's backends and whether they are enabled
  disabled,      \* the dashboard's disabledBackends
  dashModels,    \* the dashboard's copy of the catalog
  routed,        \* the resolver's copy
  proxyPrices,   \* the proxy's copy of the prices
  backendPage, modelPage,  \* the handlers' local variables
  reloading,     \* applyReloadBackends has found the table empty
  torn,          \* history: names whose last change failed half way, or for which the
                 \* start, the table unread, took another setting
  tornModels,    \* history: the last model change failed half way
  emptied,       \* history: the table of backends was empty since the start
  exposed,       \* history: backends that a model may refer to after their removal
  acked,         \* history: the last change of a backend that was confirmed
  changes, starts, errors  \* counters for the bounds

tables == <<backendTable, modelTable, priceTable>>
backendMemory == <<cfgBackends, manager, disabled>>
modelMemory == <<cfgPrices, dashModels, routed, proxyPrices>>
history == <<torn, tornModels, emptied, exposed, acked>>
bounds == <<changes, starts, errors>>
vars == <<tables, phase, backendMemory, modelMemory, backendPage, modelPage, reloading,
          history, bounds>>

NoBackends == [b \in BackendNames |-> Absent]
Listed(table) == {b \in BackendNames : table[b] # Absent}
FromYaml == [b \in BackendNames |->
               IF \E i \in DOMAIN YamlBackends : YamlBackends[i].name = b
               THEN YamlBackends[CHOOSE i \in DOMAIN YamlBackends :
                                   YamlBackends[i].name = b].setting
               ELSE Absent]
Enabled(list) == [b \in BackendNames |->
                    IF list[b] = Absent THEN Absent
                    ELSE [setting |-> list[b], enabled |-> TRUE]]
SettingOf(b) == IF manager[b] = Absent THEN Absent ELSE manager[b].setting

\* A statement that fails, and one that does not.
DBError == errors < MaxErrors /\ errors' = errors + 1
Ok == UNCHANGED errors

CountChange == changes < MaxChanges /\ changes' = changes + 1 /\ UNCHANGED starts

\* The memory of a process that does not run, with nothing in it.
Forgotten ==
  /\ cfgBackends' = NoBackends /\ manager' = NoBackends /\ disabled' = {}
  /\ cfgPrices' = NoPrices /\ dashModels' = EmptyCatalog
  /\ routed' = EmptyCatalog /\ proxyPrices' = NoPrices
  /\ backendPage' = Idle /\ modelPage' = Idle /\ reloading' = FALSE

Init ==
  /\ backendTable = NoBackends
  /\ modelTable = [n \in ModelNames |-> NoModel] /\ priceTable = NoPrices
  /\ phase = "down"
  /\ cfgBackends = NoBackends /\ manager = NoBackends /\ disabled = {}
  /\ cfgPrices = NoPrices /\ dashModels = EmptyCatalog
  /\ routed = EmptyCatalog /\ proxyPrices = NoPrices
  /\ backendPage = Idle /\ modelPage = Idle /\ reloading = FALSE
  /\ torn = {} /\ tornModels = FALSE /\ emptied = FALSE /\ exposed = {}
  /\ acked = [b \in BackendNames |-> Idle]
  /\ changes = 0 /\ starts = 0 /\ errors = 0

-----------------------------------------------------------------------------
\* The start.

\* SeedBackends writes the file's backends into an empty table, row by row; it
\* stops behind row k if the next one fails, and the start goes on.
Seeded(k) == [b \in BackendNames |->
                IF \E i \in 1..k : YamlBackends[i].name = b THEN FromYaml[b] ELSE Absent]
SeedBackends(k) ==
  \/ Listed(backendTable) # {} /\ UNCHANGED <<backendTable, acked>>
  \/ /\ Listed(backendTable) = {} /\ backendTable' = Seeded(k)
     /\ acked' = [b \in BackendNames |-> Idle]
SeededWhole(k) == Listed(backendTable) # {} \/ k = Len(YamlBackends)

\* The table is the list of backends, unless it is empty or cannot be read: then
\* the file is.  The seeding, the reading or both may fail.
\* Fault: the file comes first.
FileFirst(table) == IF DOMAIN YamlBackends # {} THEN FromYaml ELSE table
StartList(table) == IF Listed(table) # {} THEN table ELSE FromYaml
LoadBackends ==
  /\ phase = "down" /\ starts < MaxStarts /\ starts' = starts + 1
  /\ \E k \in 0..Len(YamlBackends) :
       /\ SeedBackends(k)
       /\ \/ /\ cfgBackends' = StartList(backendTable') /\ torn' = {}
             /\ IF SeededWhole(k) THEN Ok ELSE DBError
          \/ /\ cfgBackends' = FromYaml /\ DBError
             /\ torn' = {b \in BackendNames : FromYaml[b] # backendTable'[b]}
  /\ emptied' = (Listed(backendTable') = {})
  /\ exposed' = exposed \cup torn' \cup (IF emptied' THEN Listed(FromYaml) ELSE {})
  /\ phase' = "catalog"
  /\ UNCHANGED <<modelTable, priceTable, manager, disabled, modelMemory, backendPage,
                 modelPage, reloading, tornModels, changes>>

startUnchanged == <<backendTable, backendMemory, routed, backendPage, modelPage, reloading,
                    torn, emptied, acked, changes, starts>>

\* The catalog is read; one that is empty, or could not be read, is seeded if the
\* gateway was told to.  Until it serves, dashModels stands for activeCatalog.
LoadCatalog ==
  /\ phase = "catalog"
  /\ \/ Ok /\ dashModels' = ActiveCatalog(modelTable)
     \/ DBError /\ dashModels' = EmptyCatalog
  /\ phase' = IF DOMAIN dashModels' = {} /\ DOMAIN YamlModels # {} THEN "seed" ELSE "discover"
  /\ UNCHANGED <<startUnchanged, modelTable, priceTable, cfgPrices, proxyPrices, tornModels, exposed>>

\* The file's models may refer to backends the table does not have.  The writing of
\* the models may fail, or their reading afterwards.
SeedCatalog ==
  /\ phase = "seed" /\ phase' = "discover"
  /\ \/ /\ modelTable' = SyncDiscoveredCatalog(modelTable, YamlModels)
        /\ \/ Ok /\ dashModels' = ActiveCatalog(modelTable')
           \/ DBError /\ UNCHANGED dashModels
        /\ exposed' = exposed \cup (Listed(FromYaml) \ Listed(backendTable))
     \/ DBError /\ UNCHANGED <<modelTable, dashModels, exposed>>
  /\ UNCHANGED <<startUnchanged, priceTable, cfgPrices, proxyPrices, tornModels>>

\* Every backend is asked for its models; what they list replaces the catalog,
\* unless nothing was listed and some backend failed.  Then the catalog is read
\* again, and without any model the gateway does not start.  The replacement, the
\* reading or both may fail.
Discover ==
  /\ phase = "discover"
  /\ \E report \in [Listed(cfgBackends) -> (SUBSET ModelNames) \cup {Unreachable}] :
       LET found == DiscoverCatalog(report)
           synced == IF DiscoverFailed(report) /\ DOMAIN found = {} THEN modelTable
                     ELSE SyncDiscoveredCatalog(modelTable, found)
       IN  /\ \A b \in DOMAIN report : cfgBackends[b] \in Malformed => report[b] = Unreachable
           /\ \/ modelTable' = synced /\ dashModels' = ActiveCatalog(modelTable')
                 /\ Ok /\ tornModels' = FALSE
              \/ UNCHANGED modelTable /\ dashModels' = ActiveCatalog(modelTable)
                 /\ DBError /\ tornModels' = FALSE
              \/ modelTable' \in {modelTable, synced} /\ UNCHANGED dashModels
                 /\ DBError /\ tornModels' = TRUE
  /\ phase' = IF DOMAIN dashModels' = {} THEN "failed" ELSE "prices"
  /\ exposed' = IF tornModels' THEN BackendNames ELSE exposed
  /\ UNCHANGED <<startUnchanged, priceTable, cfgPrices, proxyPrices>>

\* The table of prices replaces the file's, which it is seeded with when empty.
LoadPrices ==
  /\ phase = "prices" /\ phase' = "wire"
  /\ IF priceTable = NoPrices
     THEN /\ cfgPrices' = YamlPrices
          /\ \/ priceTable' = ReplaceModelPricing(modelTable, YamlPrices)
                /\ Ok /\ UNCHANGED <<tornModels, exposed>>
             \/ UNCHANGED priceTable /\ DBError /\ tornModels' = TRUE /\ exposed' = BackendNames
     ELSE /\ UNCHANGED priceTable
          /\ \/ cfgPrices' = priceTable /\ Ok /\ UNCHANGED <<tornModels, exposed>>
             \/ cfgPrices' = YamlPrices /\ DBError /\ tornModels' = TRUE /\ exposed' = BackendNames
  /\ UNCHANGED <<startUnchanged, modelTable, dashModels, proxyPrices>>

\* Manager, resolver, proxy and dashboard are made.  An address that does not
\* parse ends the process.
Wire ==
  /\ phase = "wire"
  /\ IF \E b \in Listed(cfgBackends) : cfgBackends[b] \in Malformed
     THEN phase' = "failed" /\ UNCHANGED <<manager, routed, proxyPrices>>
     ELSE /\ phase' = "serving" /\ manager' = Enabled(cfgBackends)
          /\ routed' = dashModels /\ proxyPrices' = cfgPrices
  /\ UNCHANGED <<tables, cfgBackends, disabled, cfgPrices, dashModels, backendPage, modelPage,
                 reloading, history, bounds>>

\* The process ends, by a failed start or at any time by a crash.
End ==
  /\ phase # "down" /\ phase' = "down" /\ starts < MaxStarts
  /\ Forgotten
  /\ UNCHANGED <<tables, history, bounds>>

-----------------------------------------------------------------------------
\* The backend page.

AtBackends(pc) == phase = "serving" /\ backendPage # Idle /\ backendPage.pc = pc
modelsUnchanged == <<modelTable, priceTable, modelMemory, modelPage, phase, tornModels>>

\* handleBackendToggle, for a name that may not be a backend's.
ToggleBackend(b) ==
  /\ phase = "serving" /\ backendPage = Idle /\ CountChange
  /\ disabled' = IF b \in disabled THEN disabled \ {b} ELSE disabled \cup {b}
  /\ manager' = IF manager[b] = Absent THEN manager
                ELSE [manager EXCEPT ![b].enabled = b \in disabled]
  /\ UNCHANGED <<modelsUnchanged, backendTable, cfgBackends, backendPage, reloading, torn,
                 emptied, exposed, acked, errors>>

\* modelsReferencingBackend: also a model that has other backends besides.
\* Fault: a model that has others does not count.
SolelyReferencing(b) == {n \in DOMAIN dashModels : dashModels[n] = {b}}
Referencing(b) == {n \in DOMAIN dashModels : b \in dashModels[n]}

\* What the check above does not see: the page's catalog no longer has these, and
\* the table still does, while a change of the model page is not yet stored.
Unwritten ==
  IF modelPage # Idle /\ modelPage.pc = "table"
     /\ modelPage.name \in DOMAIN ActiveCatalog(modelTable)
  THEN modelTable[modelPage.name].refs ELSE {}

\* createBackend and updateBackend differ in whether the list must have the name,
\* and removeBackend asks that no model refers to it: one of the three is open
\* for a backend at any time, which is checked before the first write.
BeginBackend(b, setting) ==
  /\ phase = "serving" /\ backendPage = Idle /\ CountChange
  /\ setting = Absent => Referencing(b) = {}
  /\ backendPage' = [pc |-> "table", name |-> b, setting |-> setting]
  /\ acked' = [acked EXCEPT ![b] = Idle]
  /\ exposed' = IF setting = Absent /\ b \in Unwritten THEN exposed \cup {b} ELSE exposed
  /\ UNCHANGED <<modelsUnchanged, backendTable, backendMemory, reloading, torn, emptied, errors>>

\* UpsertBackend or RemoveBackend of the store.  Nothing has changed if it fails,
\* or if there is no row to remove.
WriteBackendRow ==
  /\ AtBackends("table")
  /\ LET b == backendPage.name
         there == backendPage.setting # Absent \/ backendTable[b] # Absent
     IN  \/ /\ there /\ Ok
            /\ backendTable' = [backendTable EXCEPT ![b] = backendPage.setting]
            /\ emptied' = (emptied \/ Listed(backendTable') = {})
            /\ backendPage' = [backendPage EXCEPT !.pc = "memory"]
         \/ /\ IF there THEN DBError ELSE Ok
            /\ backendPage' = Idle /\ UNCHANGED <<backendTable, emptied>>
  /\ UNCHANGED <<modelsUnchanged, backendMemory, reloading, torn, exposed, acked, changes, starts>>

\* The manager's part, which fails for an address that does not parse and for a
\* backend the manager does not have; then the dashboard's own lists.
\* Faults: any address is taken; an upsert keeps a disabled backend disabled.
RefusedIfAbsent(b, setting) == setting = Absent /\ manager[b] = Absent
Refused(b, setting) == setting \in Malformed \/ (setting = Absent /\ manager[b] = Absent)
KeptDisabled(b, setting) ==
  IF setting = Absent THEN Absent
  ELSE [setting |-> setting, enabled |-> manager[b] = Absent \/ manager[b].enabled]
Upserted(b, setting) ==
  IF setting = Absent THEN Absent ELSE [setting |-> setting, enabled |-> TRUE]
WriteBackendMemory ==
  /\ AtBackends("memory")
  /\ LET b == backendPage.name
         setting == backendPage.setting
     IN  IF Refused(b, setting)
         THEN /\ backendPage' = Idle /\ torn' = torn \cup {b}
              /\ exposed' = IF setting = Absent THEN exposed \cup {b} ELSE exposed
              /\ UNCHANGED backendMemory
         ELSE /\ manager' = [manager EXCEPT ![b] = Upserted(b, setting)]
              /\ disabled' = disabled \ {b}
              /\ cfgBackends' = [cfgBackends EXCEPT ![b] = setting]
              /\ backendPage' = [backendPage EXCEPT !.pc = "reload"]
              /\ torn' = torn \ {b} /\ UNCHANGED exposed
  /\ UNCHANGED <<modelsUnchanged, backendTable, reloading, emptied, acked, bounds>>

\* reloadBackendsFromStoreIfAvailable; its failure is reported as the change's.
ReloadBackends ==
  /\ AtBackends("reload") /\ backendPage' = Idle
  /\ \/ /\ Ok /\ cfgBackends' = backendTable
        /\ disabled' = disabled \cap Listed(backendTable)
        /\ acked' = [acked EXCEPT ![backendPage.name] = backendPage.setting]
     \/ DBError /\ UNCHANGED <<cfgBackends, disabled, acked>>
  /\ UNCHANGED <<modelsUnchanged, backendTable, manager, reloading, torn, emptied, exposed,
                 changes, starts>>

-----------------------------------------------------------------------------
\* A reload of the configuration file, applyReloadBackends.  It is applied only
\* if the table is empty, which is asked first.  Its loops, over the file's
\* backends and over those to remove, are one step: how they could
\* mix with the backend page makes no difference to a property, since each of
\* them leaves out what happens to backends once the table was empty.

\* Fault: the table is not asked.
AlwaysApply == TRUE
MayApply == Listed(backendTable) = {}
BeginReload ==
  /\ phase = "serving" /\ ~reloading /\ MayApply /\ CountChange
  /\ reloading' = TRUE
  /\ UNCHANGED <<modelsUnchanged, backendTable, backendMemory, backendPage, torn, emptied,
                 exposed, acked, errors>>

ApplyReload ==
  /\ phase = "serving" /\ reloading /\ reloading' = FALSE
  /\ manager' = Enabled(FromYaml)
  /\ UNCHANGED <<modelsUnchanged, backendTable, cfgBackends, disabled, backendPage, torn,
                 emptied, exposed, acked, bounds>>

-----------------------------------------------------------------------------
\* The model page.

AtModels(pc) == phase = "serving" /\ modelPage # Idle /\ modelPage.pc = pc
backendsUnchanged == <<backendTable, backendMemory, backendPage, phase, reloading, torn,
                       emptied, acked>>

\* parseModelBackendRefs: the form's references are checked against the list as it
\* is then; what becomes of a backend until they are stored is not looked at again.
BeginModel(n, refs) ==
  /\ phase = "serving" /\ modelPage = Idle /\ CountChange
  /\ refs \subseteq Listed(cfgBackends)
  /\ modelPage' = [pc |-> "store", op |-> "save", name |-> n, refs |-> refs]
  /\ UNCHANGED <<backendsUnchanged, modelTable, priceTable, modelMemory, tornModels, exposed,
                 errors>>

\* Backends that are removed by now, or whose removal has passed its own check.
Leaving == {b \in BackendNames :
              \/ cfgBackends[b] = Absent
              \/ backendPage # Idle /\ backendPage.name = b /\ backendPage.setting = Absent}

\* The catalog and the price in memory come first, then the users' lists, one
\* UpdateUser after the other, which may fail.
ModelStored(op, n, refs) ==
  \/ /\ Ok /\ modelPage' = [pc |-> "table", op |-> op, name |-> n, refs |-> {}]
     /\ UNCHANGED tornModels /\ exposed' = exposed \cup (Leaving \cap refs)
  \/ DBError /\ modelPage' = Idle /\ tornModels' = TRUE /\ exposed' = BackendNames

\* createModel or updateModel, setModelPricing, applyModelAccess; one of the first
\* two is open for a name at any time.
SaveModel(price) ==
  /\ AtModels("store")
  /\ LET n == modelPage.name
     IN  /\ dashModels' = [m \in DOMAIN dashModels \cup {n} |->
                            IF m = n THEN modelPage.refs ELSE dashModels[m]]
         /\ cfgPrices' = [cfgPrices EXCEPT ![n] = price]
         /\ ModelStored("save", n, modelPage.refs)
  /\ UNCHANGED <<backendsUnchanged, modelTable, priceTable, routed, proxyPrices, changes, starts>>

\* deleteModel.
DeleteModel(n) ==
  /\ phase = "serving" /\ modelPage = Idle /\ CountChange
  /\ n \in DOMAIN dashModels
  /\ dashModels' = [m \in DOMAIN dashModels \ {n} |-> dashModels[m]]
  /\ cfgPrices' = [cfgPrices EXCEPT ![n] = NoPrice]
  /\ ModelStored("delete", n, {})
  /\ UNCHANGED <<backendsUnchanged, modelTable, priceTable, routed, proxyPrices>>

\* An error after the memory was changed: the page says so and leaves it there.
ModelsTorn == modelPage' = Idle /\ tornModels' = TRUE /\ exposed' = BackendNames
modelStepUnchanged == <<backendsUnchanged, changes, starts>>

\* persistModelMutation.
WriteModelRow ==
  /\ AtModels("table")
  /\ LET n == modelPage.name
         there == modelPage.op = "save" \/ modelTable[n] # NoModel
     IN  \/ /\ there /\ Ok
            /\ modelTable' = IF modelPage.op = "save"
                             THEN UpsertModel(modelTable, n, dashModels[n])
                             ELSE DeactivateModel(modelTable, n)
            /\ modelPage' = [modelPage EXCEPT !.pc = "prices"]
            /\ UNCHANGED <<tornModels, exposed>>
         \/ (IF there THEN DBError ELSE Ok) /\ ModelsTorn /\ UNCHANGED modelTable
  /\ UNCHANGED <<modelStepUnchanged, modelMemory, priceTable>>

\* persistModelPricing.
WritePrices ==
  /\ AtModels("prices")
  /\ \/ /\ Ok /\ priceTable' = ReplaceModelPricing(modelTable, cfgPrices)
        /\ modelPage' = [modelPage EXCEPT !.pc = "reload"]
        /\ UNCHANGED <<tornModels, exposed>>
     \/ DBError /\ ModelsTorn /\ UNCHANGED priceTable
  /\ UNCHANGED <<modelStepUnchanged, modelMemory, modelTable>>

\* reloadModelRuntimeFromStore: both tables are read, then resolver and proxy get
\* what was read.  The second query may fail when the first has been used.
\* Fault: the resolver keeps its copy.
RefreshForgotten(catalog) == UNCHANGED routed
RefreshCatalog(catalog) == routed' = catalog
ReloadModels ==
  /\ AtModels("reload")
  /\ \/ /\ Ok /\ modelPage' = Idle /\ tornModels' = FALSE /\ UNCHANGED exposed
        /\ dashModels' = ActiveCatalog(modelTable) /\ RefreshCatalog(dashModels')
        /\ cfgPrices' = priceTable /\ proxyPrices' = cfgPrices'
     \/ /\ DBError /\ ModelsTorn
        /\ dashModels' \in {dashModels, ActiveCatalog(modelTable)}
        /\ UNCHANGED <<cfgPrices, routed, proxyPrices>>
  /\ UNCHANGED <<modelStepUnchanged, modelTable, priceTable>>

-----------------------------------------------------------------------------
Start == LoadBackends \/ LoadCatalog \/ SeedCatalog \/ Discover \/ LoadPrices \/ Wire

BackendStep ==
  \/ \E b \in BackendNames : ToggleBackend(b)
  \/ \E b \in BackendNames, setting \in Settings \cup {Absent} : BeginBackend(b, setting)
  \/ WriteBackendRow
  \/ WriteBackendMemory
  \/ ReloadBackends

ModelStep ==
  \/ \E n \in ModelNames, refs \in Refs : BeginModel(n, refs)
  \/ \E price \in Prices \cup {NoPrice} : SaveModel(price)
  \/ \E n \in ModelNames : DeleteModel(n)
  \/ WriteModelRow
  \/ WritePrices
  \/ ReloadModels

Next == Start \/ BackendStep \/ ModelStep \/ BeginReload \/ ApplyReload \/ End

Spec == Init /\ [][Next]_vars

-----------------------------------------------------------------------------
TypeOK ==
  /\ backendTable \in [BackendNames -> Settings \cup {Absent}]
  /\ modelTable \in [ModelNames -> ModelRow \cup {NoModel}]
  /\ priceTable \in PriceList
  /\ phase \in {"down", "catalog", "seed", "discover", "prices", "wire", "serving", "failed"}
  /\ cfgBackends \in [BackendNames -> Settings \cup {Absent}]
  /\ manager \in [BackendNames -> Managed \cup {Absent}]
  /\ disabled \subseteq BackendNames
  /\ cfgPrices \in PriceList /\ proxyPrices \in PriceList
  /\ dashModels \in Catalog /\ routed \in Catalog
  /\ backendPage \in BackendPage \cup {Idle} /\ modelPage \in ModelPage \cup {Idle}
  /\ torn \subseteq BackendNames /\ exposed \subseteq BackendNames
  /\ {reloading, tornModels, emptied} \subseteq BOOLEAN
  /\ acked \in [BackendNames -> Settings \cup {Absent, Idle}]
  /\ changes \in 0..MaxChanges /\ starts \in 0..MaxStarts /\ errors \in 0..MaxErrors

Settled(b) == b \notin torn /\ (backendPage = Idle \/ backendPage.name # b)

\* Unless its last change was refused half way, a backend is in the table, the
\* dashboard's list and the manager alike, whatever happened to other backends;
\* only a table that was empty lets the configuration file in
\* (dashboard/handler.go:1444, cmd/gateway/main.go:413).
BackendsFollowTable ==
  phase = "serving" /\ ~emptied =>
    \A b \in BackendNames : Settled(b) =>
      cfgBackends[b] = backendTable[b] /\ SettingOf(b) = backendTable[b]

\* What the administrator was told is done is what the gateway runs with, also
\* after crashes and restarts, unless the table was empty when it was started
\* (dashboard/handler.go:1463, backends/store.go:129).
ConfirmedChangesLast ==
  phase = "serving" /\ ~emptied =>
    \A b \in BackendNames : Settled(b) /\ acked[b] # Idle => SettingOf(b) = acked[b]

\* Resolver, proxy and model page work with the tables' models and prices as soon
\* as a change, or a start, has gone through: what an earlier failure left in
\* memory is gone (dashboard/handler.go:1915).
ModelsFollowTables ==
  phase = "serving" /\ modelPage = Idle /\ ~tornModels =>
    /\ routed = ActiveCatalog(modelTable) /\ dashModels = routed
    /\ \A n \in DOMAIN routed : proxyPrices[n] = priceTable[n] /\ cfgPrices[n] = priceTable[n]

\* A backend the page shows as disabled gets no requests, and one that it shows as
\* enabled does, as far as the two keep the same names
\* (dashboard/handler.go:1304, backends/manager.go:139).
DisabledAgrees ==
  phase = "serving" /\ ~emptied =>
    \A b \in BackendNames : Settled(b) /\ manager[b] # Absent =>
      (b \in disabled <=> ~manager[b].enabled)

\* "Removed backends are blocked when referenced by active models" (README.md:217):
\* the models in use refer to backends that exist, also while both pages are open
\* (dashboard/handler.go:1504, :1742; models/store.go:84).  The code does not ensure
\* it for a backend that is exposed: a model that was checked to refer to it has
\* been stored when its removal had passed its own check, or was done; its removal
\* began when a change that takes a model from it was not stored yet, or was refused
\* half way; or the gateway was started with it though the table did not have it.
\* After a model change that failed half way every backend is exposed.
RefsExist ==
  \A n \in DOMAIN ActiveCatalog(modelTable) :
    modelTable[n].refs \subseteq Listed(backendTable) \cup exposed

=============================================================================
