----------------------- MODULE Administration_proofs -----------------------
(***************************************************************************)
(* Theorems about Administration, for every number of backends, models,    *)
(* changes, starts and failing statements: what the memory of the gateway  *)
(* has to do with the tables.                                              *)
(***************************************************************************)
EXTENDS Administration, TLAPS

-----------------------------------------------------------------------------
(* The operators on catalogs: what they return.                            *)

ModelTable == [ModelNames -> ModelRow \cup {NoModel}]

\* Every model of a catalog is sent to backends of a set only.
RefsIn(catalog, S) == \A n \in DOMAIN catalog : catalog[n] \subseteq S

\* A catalog is a function from names of models to sets of backends.
LEMMA CatalogIs ==
  \A c : c \in Catalog <=> DOMAIN c \in SUBSET ModelNames /\ c \in [DOMAIN c -> Refs]
<1>1. ASSUME NEW c, c \in Catalog
      PROVE  DOMAIN c \in SUBSET ModelNames /\ c \in [DOMAIN c -> Refs]
  <2>1. PICK S \in SUBSET ModelNames : c \in [S -> Refs]
    BY <1>1 DEF Catalog
  <2>2. DOMAIN c = S
    BY <2>1
  <2> QED
    BY <2>1, <2>2
<1>2. ASSUME NEW c, DOMAIN c \in SUBSET ModelNames, c \in [DOMAIN c -> Refs]
      PROVE  c \in Catalog
  BY <1>2 DEF Catalog
<1> QED
  BY <1>1, <1>2

\* The active rows of a table are a catalog.
LEMMA ActiveIsCatalog ==
  ASSUME NEW table \in ModelTable
  PROVE  ActiveCatalog(table) \in Catalog
<1> DEFINE c == ActiveCatalog(table)
           S == {m \in ModelNames : table[m] # NoModel /\ table[m].active}
<1>1. c = [n \in S |-> table[n].refs] /\ S \in SUBSET ModelNames
  BY DEF ActiveCatalog
<1>2. \A n \in S : table[n].refs \in Refs
  BY DEF ModelTable, ModelRow
<1> HIDE DEF c, S
<1>3. DOMAIN c = S /\ c \in [S -> Refs]
  BY <1>1, <1>2
<1> QED
  BY <1>1, <1>3, CatalogIs DEF c

\* What backends list is a catalog of these backends.
LEMMA DiscoveredIsCatalog ==
  ASSUME NEW S, S \subseteq BackendNames, NEW report \in [S -> (SUBSET ModelNames) \cup {Unreachable}]
  PROVE  DiscoverCatalog(report) \in Catalog /\ RefsIn(DiscoverCatalog(report), S)
<1> DEFINE c == DiscoverCatalog(report)
           names == {Canonical[raw] : raw \in UNION {report[b] : b \in Answering(report)}}
           of(n) == {b \in Answering(report) : Lists(report, b, n)}
<1>1. c = [n \in names |-> of(n)]
  BY DEF DiscoverCatalog
<1>2. Answering(report) \subseteq S /\ \A b \in Answering(report) : report[b] \subseteq ModelNames
  <2>1. Answering(report) = {b \in S : report[b] # Unreachable}
    BY DEF Answering
  <2>2. \A b \in S : report[b] # Unreachable => report[b] \in SUBSET ModelNames
    OBVIOUS
  <2> QED
    BY <2>1, <2>2
<1>3. names \in SUBSET ModelNames
  BY <1>2, CatalogAssumption
<1>4. ASSUME NEW n \in names PROVE of(n) \in Refs /\ of(n) \subseteq S
  <2>1. PICK b \in Answering(report) : \E raw \in report[b] : Canonical[raw] = n
    BY <1>4
  <2>2. b \in of(n)
    BY <2>1 DEF Lists
  <2>3. of(n) \subseteq S
    BY <1>2
  <2>4. of(n) \in SUBSET BackendNames
    BY <2>3
  <2> HIDE DEF of
  <2> QED
    BY <2>2, <2>3, <2>4 DEF Refs
<1> HIDE DEF names, of
<1>5. DOMAIN c = names /\ c \in [names -> Refs] /\ \A n \in names : c[n] = of(n)
  BY <1>1, <1>4
<1> QED
  BY <1>3, <1>4, <1>5, CatalogIs DEF RefsIn

\* Normalising a catalog yields one, of the same backends.
LEMMA NormalizedIsCatalog ==
  ASSUME NEW catalog \in Catalog, NEW S, RefsIn(catalog, S)
  PROVE  NormalizeCatalog(catalog) \in Catalog /\ RefsIn(NormalizeCatalog(catalog), S)
<1> DEFINE c == NormalizeCatalog(catalog)
           names == {Canonical[raw] : raw \in DOMAIN catalog}
           same(n) == {r \in DOMAIN catalog : Canonical[r] = n}
           of(n) == UNION {catalog[raw] : raw \in same(n)}
<1>1. c = [n \in names |-> of(n)]
  BY DEF NormalizeCatalog
<1>2. DOMAIN catalog \subseteq ModelNames /\ \A raw \in DOMAIN catalog : catalog[raw] \in Refs
  BY CatalogIs
<1>3. names \in SUBSET ModelNames
  BY <1>2, CatalogAssumption
<1>4. ASSUME NEW n \in names PROVE of(n) \in Refs /\ of(n) \subseteq S
  <2>1. PICK raw \in DOMAIN catalog : Canonical[raw] = n
    BY <1>4
  <2>2. raw \in same(n) /\ catalog[raw] # {}
    BY <1>2, <2>1 DEF Refs
  <2>5. of(n) # {}
    <3>1. PICK b \in catalog[raw] : TRUE
      BY <2>2
    <3> HIDE DEF same
    <3>2. b \in of(n)
      BY <2>2, <3>1
    <3> QED
      BY <3>2
  <2>3. of(n) \in SUBSET BackendNames
    BY <1>2 DEF Refs
  <2>4. of(n) \subseteq S
    BY DEF RefsIn
  <2> HIDE DEF of
  <2> QED
    BY <2>3, <2>4, <2>5 DEF Refs
<1> HIDE DEF names, of
<1>5. DOMAIN c = names /\ c \in [names -> Refs] /\ \A n \in names : c[n] = of(n)
  BY <1>1, <1>4
<1> QED
  BY <1>3, <1>4, <1>5, CatalogIs DEF RefsIn

\* A table into which a catalog was written is one, and its active models are the
\* catalog's: they are sent to the catalog's backends.
LEMMA SyncedTable ==
  ASSUME NEW table \in ModelTable, NEW catalog \in Catalog, NEW S, RefsIn(catalog, S)
  PROVE  LET synced == SyncDiscoveredCatalog(table, catalog)
         IN  synced \in ModelTable /\ RefsIn(ActiveCatalog(synced), S)
<1> DEFINE found == NormalizeCatalog(catalog)
           synced == SyncDiscoveredCatalog(table, catalog)
<1>1. found \in Catalog /\ RefsIn(found, S)
  BY NormalizedIsCatalog
<1>2. synced = [n \in ModelNames |->
                  IF n \in DOMAIN found THEN [active |-> TRUE, refs |-> found[n]]
                  ELSE IF table[n] # NoModel THEN [table[n] EXCEPT !.active = FALSE]
                  ELSE NoModel]
  BY DEF SyncDiscoveredCatalog
<1> HIDE DEF found, synced
<1>3. ASSUME NEW n \in ModelNames
      PROVE  /\ synced[n] \in ModelRow \cup {NoModel}
             /\ synced[n] # NoModel /\ synced[n].active => synced[n].refs \subseteq S
  <2>1. CASE n \in DOMAIN found
    <3>1. synced[n] = [active |-> TRUE, refs |-> found[n]] /\ found[n] \in Refs
      BY <1>1, <1>2, <2>1, CatalogIs
    <3>2. synced[n].refs = found[n] /\ synced[n] \in ModelRow
      BY <3>1 DEF ModelRow
    <3> QED
      BY <1>1, <2>1, <3>2 DEF RefsIn
  <2>2. CASE n \notin DOMAIN found /\ table[n] # NoModel
    <3>1. synced[n] = [table[n] EXCEPT !.active = FALSE] /\ table[n] \in ModelRow
      BY <1>2, <2>2 DEF ModelTable
    <3> QED
      BY <3>1 DEF ModelRow
  <2>3. CASE n \notin DOMAIN found /\ table[n] = NoModel
    BY <1>2, <2>3
  <2> QED
    BY <2>1, <2>2, <2>3
<1>4. synced \in ModelTable
  BY <1>2, <1>3 DEF ModelTable
<1>5. RefsIn(ActiveCatalog(synced), S)
  BY <1>3 DEF RefsIn, ActiveCatalog
<1> QED
  BY <1>4, <1>5 DEF synced

\* A model that is saved joins the catalog, one that is deleted leaves it.
LEMMA SavedCatalog ==
  ASSUME NEW c \in Catalog, NEW n \in ModelNames, NEW refs \in Refs
  PROVE  [m \in DOMAIN c \cup {n} |-> IF m = n THEN refs ELSE c[m]] \in Catalog
<1> DEFINE d == [m \in DOMAIN c \cup {n} |-> IF m = n THEN refs ELSE c[m]]
<1>1. DOMAIN c \in SUBSET ModelNames /\ \A m \in DOMAIN c : c[m] \in Refs
  BY CatalogIs
<1>2. DOMAIN d \in SUBSET ModelNames /\ d \in [DOMAIN d -> Refs]
  BY <1>1
<1> HIDE DEF d
<1>3. d \in Catalog
  BY <1>2, CatalogIs
<1> QED
  BY <1>3 DEF d

\* A catalog without one of its models is a catalog.
LEMMA DeletedCatalog ==
  ASSUME NEW c \in Catalog, NEW n \in ModelNames
  PROVE  [m \in DOMAIN c \ {n} |-> c[m]] \in Catalog
<1> DEFINE d == [m \in DOMAIN c \ {n} |-> c[m]]
<1>1. DOMAIN c \in SUBSET ModelNames /\ \A m \in DOMAIN c : c[m] \in Refs
  BY CatalogIs
<1>2. DOMAIN d \in SUBSET ModelNames /\ d \in [DOMAIN d -> Refs]
  BY <1>1
<1> HIDE DEF d
<1>3. d \in Catalog
  BY <1>2, CatalogIs
<1> QED
  BY <1>3 DEF d

\* Neither does the empty one have anything but models.
LEMMA EmptyIsCatalog == EmptyCatalog \in Catalog /\ DOMAIN EmptyCatalog = {}
<1>1. DOMAIN EmptyCatalog = {} /\ EmptyCatalog \in [DOMAIN EmptyCatalog -> Refs]
  BY DEF EmptyCatalog
<1> QED
  BY <1>1, CatalogIs

\* What the model page does to a row: the active models are sent to where they
\* were, and the one that is saved to the backends given.
LEMMA ChangedRow ==
  ASSUME NEW table \in ModelTable, NEW n \in ModelNames
  PROVE  /\ \A refs \in Refs : UpsertModel(table, n, refs) \in ModelTable
         /\ \A refs \in Refs : \A S : RefsIn(ActiveCatalog(table), S) /\ refs \subseteq S =>
              RefsIn(ActiveCatalog(UpsertModel(table, n, refs)), S)
         /\ table[n] # NoModel =>
              /\ DeactivateModel(table, n) \in ModelTable
              /\ \A S : RefsIn(ActiveCatalog(table), S) =>
                   RefsIn(ActiveCatalog(DeactivateModel(table, n)), S)
<1>1. ASSUME NEW refs \in Refs
      PROVE  /\ UpsertModel(table, n, refs) \in ModelTable
             /\ \A S : RefsIn(ActiveCatalog(table), S) /\ refs \subseteq S =>
                  RefsIn(ActiveCatalog(UpsertModel(table, n, refs)), S)
  <2> DEFINE row == [active |-> TRUE, refs |-> refs]
             t == UpsertModel(table, n, refs)
  <2>1. t = [table EXCEPT ![n] = row] /\ row \in ModelRow /\ row.refs = refs
    BY DEF UpsertModel, ModelRow
  <2> HIDE DEF row, t
  <2>2. t \in ModelTable /\ t[n] = row /\ \A m \in ModelNames \ {n} : t[m] = table[m]
    BY <2>1 DEF ModelTable
  <2>3. ASSUME NEW S, RefsIn(ActiveCatalog(table), S), refs \subseteq S
        PROVE  RefsIn(ActiveCatalog(t), S)
    BY <2>1, <2>2, <2>3 DEF RefsIn, ActiveCatalog
  <2> QED
    BY <2>2, <2>3 DEF t
<1>2. ASSUME table[n] # NoModel
      PROVE  /\ DeactivateModel(table, n) \in ModelTable
             /\ \A S : RefsIn(ActiveCatalog(table), S) =>
                  RefsIn(ActiveCatalog(DeactivateModel(table, n)), S)
  <2> DEFINE row == [table[n] EXCEPT !.active = FALSE]
             t == DeactivateModel(table, n)
  <2>1. table[n] \in ModelRow
    BY <1>2 DEF ModelTable
  <2>2. row \in ModelRow /\ ~row.active
    BY <2>1 DEF ModelRow
  <2>3. t = [table EXCEPT ![n] = row]
    BY DEF DeactivateModel
  <2> HIDE DEF row, t
  <2>4. t \in ModelTable /\ t[n] = row /\ \A m \in ModelNames \ {n} : t[m] = table[m]
    BY <2>2, <2>3 DEF ModelTable
  <2>5. ASSUME NEW S, RefsIn(ActiveCatalog(table), S)
        PROVE  RefsIn(ActiveCatalog(t), S)
    BY <2>2, <2>4, <2>5 DEF RefsIn, ActiveCatalog
  <2> QED
    BY <2>4, <2>5 DEF t
<1> QED
  BY <1>1, <1>2

-----------------------------------------------------------------------------
(* The file, and the table that is seeded from it.                         *)

\* The names of the file's backends.
YamlNames == {YamlBackends[i].name : i \in DOMAIN YamlBackends}

\* The file's list is one, without addresses that do not parse.
LEMMA FileIs ==
  /\ FromYaml \in [BackendNames -> (Settings \ Malformed) \cup {Absent}]
  /\ Listed(FromYaml) = YamlNames
<1> DEFINE in(b) == \E i \in DOMAIN YamlBackends : YamlBackends[i].name = b
           at(b) == CHOOSE i \in DOMAIN YamlBackends : YamlBackends[i].name = b
<1>1. \A i \in DOMAIN YamlBackends :
        /\ YamlBackends[i].name \in BackendNames
        /\ YamlBackends[i].setting \in Settings \ Malformed
  <2>1. ASSUME NEW i \in DOMAIN YamlBackends
        PROVE  YamlBackends[i] \in [name : BackendNames, setting : Settings \ Malformed]
    <3> DEFINE R == [name : BackendNames, setting : Settings \ Malformed]
    <3>1. YamlBackends \in Seq(R)
      BY AdministrationAssumption
    <3> HIDE DEF R
    <3>2. YamlBackends[i] \in R
      BY <2>1, <3>1
    <3> QED
      BY <3>2 DEF R
  <2> QED
    BY <2>1
<1>2. ASSUME NEW b, in(b) PROVE at(b) \in DOMAIN YamlBackends
  BY <1>2
<1>3. \A b \in BackendNames :
        FromYaml[b] = IF in(b) THEN YamlBackends[at(b)].setting ELSE Absent
  BY DEF FromYaml
<1>4. FromYaml = [b \in BackendNames |-> FromYaml[b]]
  BY DEF FromYaml
<1>5. \A b \in BackendNames : in(b) <=> b \in YamlNames
  BY DEF YamlNames
<1> HIDE DEF in, at
<1>6. \A b \in BackendNames :
        /\ FromYaml[b] \in (Settings \ Malformed) \cup {Absent}
        /\ in(b) => FromYaml[b] \in Settings
  BY <1>1, <1>2, <1>3
<1>7. \A b \in BackendNames : FromYaml[b] # Absent <=> in(b)
  BY <1>3, <1>6, AdministrationAssumption
<1>8. YamlNames \subseteq BackendNames
  BY <1>1 DEF YamlNames
<1> HIDE DEF YamlNames
<1>9. FromYaml \in [BackendNames -> (Settings \ Malformed) \cup {Absent}]
  BY <1>4, <1>6
<1> QED
  BY <1>5, <1>7, <1>8, <1>9 DEF Listed

-----------------------------------------------------------------------------
(* What a step leaves alone.                                               *)

backendState == <<backendTable, cfgBackends, manager, disabled, backendPage, reloading, torn,
                  emptied, acked>>
modelState == <<modelTable, priceTable, cfgPrices, dashModels, routed, proxyPrices, modelPage,
                tornModels>>

\* The catalog's way into memory, and the model page, leave the backends alone.
LEMMA BackendsAlone ==
  LoadCatalog \/ SeedCatalog \/ Discover \/ LoadPrices \/ ModelStep =>
    /\ UNCHANGED backendState /\ phase # "down" /\ phase' # "down"
    /\ phase = "serving" <=> phase' = "serving"
<1>1. LoadCatalog => UNCHANGED backendState /\ phase = "catalog" /\ phase' \in {"seed", "discover"}
  BY DEF LoadCatalog, startUnchanged, backendMemory, backendState
<1>2. SeedCatalog => UNCHANGED backendState /\ phase = "seed" /\ phase' = "discover"
  BY DEF SeedCatalog, startUnchanged, backendMemory, backendState
<1>3. Discover => UNCHANGED backendState /\ phase = "discover" /\ phase' \in {"failed", "prices"}
  BY DEF Discover, startUnchanged, backendMemory, backendState
<1>4. LoadPrices => UNCHANGED backendState /\ phase = "prices" /\ phase' = "wire"
  BY DEF LoadPrices, startUnchanged, backendMemory, backendState
<1>5. ModelStep => UNCHANGED backendState /\ phase = "serving" /\ phase' = "serving"
  BY DEF ModelStep, BeginModel, SaveModel, DeleteModel, WriteModelRow, WritePrices, ReloadModels, AtModels,
         modelStepUnchanged, backendsUnchanged, backendMemory, backendState
<1> QED
  BY <1>1, <1>2, <1>3, <1>4, <1>5

\* The backend page and a reload of the file leave the models alone.
LEMMA ModelsAlone ==
  BackendStep \/ BeginReload \/ ApplyReload =>
    UNCHANGED modelState /\ phase = "serving" /\ phase' = "serving"
<1>1. BackendStep => UNCHANGED modelState /\ phase = "serving" /\ phase' = "serving"
  BY DEF BackendStep, ToggleBackend, BeginBackend, WriteBackendRow, WriteBackendMemory,
         ReloadBackends, AtBackends, modelsUnchanged, modelMemory, modelState
<1>2. BeginReload \/ ApplyReload => UNCHANGED modelState /\ phase = "serving" /\ phase' = "serving"
  BY DEF BeginReload, ApplyReload, modelsUnchanged, modelMemory, modelState
<1> QED
  BY <1>1, <1>2

\* So does the first step of a start.
LEMMA LoadBackendsAlone == LoadBackends => UNCHANGED modelState
BY DEF LoadBackends, modelMemory, modelState

\* A step that changes nothing leaves all of it alone.
LEMMA StutterAlone == UNCHANGED vars => UNCHANGED <<backendState, modelState, phase, exposed, bounds>>
BY DEF vars, tables, backendMemory, modelMemory, history, backendState, modelState

-----------------------------------------------------------------------------
(* Types.                                                                  *)

BackendTypes ==
  /\ backendTable \in [BackendNames -> Settings \cup {Absent}]
  /\ cfgBackends \in [BackendNames -> Settings \cup {Absent}]
  /\ manager \in [BackendNames -> Managed \cup {Absent}]
  /\ disabled \in SUBSET BackendNames
  /\ backendPage \in BackendPage \cup {Idle}
  /\ torn \in SUBSET BackendNames
  /\ acked \in [BackendNames -> Settings \cup {Absent, Idle}]

\* Once it is stored, the page saves a model that the dashboard's catalog has.
SavedIsThere ==
  modelPage # Idle =>
    /\ modelPage.op = "save" /\ modelPage.pc # "store" => modelPage.name \in DOMAIN dashModels
    /\ modelPage.pc = "store" => modelPage.op = "save" /\ modelPage.refs \in Refs

ModelTypes ==
  /\ modelTable \in ModelTable
  /\ priceTable \in PriceList /\ cfgPrices \in PriceList /\ proxyPrices \in PriceList
  /\ dashModels \in Catalog /\ routed \in Catalog
  /\ modelPage \in ModelPage \cup {Idle}
  /\ SavedIsThere

RestTypes ==
  /\ phase \in {"down", "catalog", "seed", "discover", "prices", "wire", "serving", "failed"}
  /\ {reloading, tornModels, emptied} \subseteq BOOLEAN
  /\ changes \in 0..MaxChanges /\ starts \in 0..MaxStarts /\ errors \in 0..MaxErrors

\* The type invariant, taken apart by what the steps change.
LEMMA TypesAre ==
  TypeOK /\ SavedIsThere <=>
    BackendTypes /\ ModelTypes /\ RestTypes /\ exposed \in SUBSET BackendNames
BY DEF TypeOK, BackendTypes, ModelTypes, RestTypes, ModelTable

\* Pages are their three fields.
LEMMA BackendPageIs ==
  ASSUME NEW page \in BackendPage
  PROVE  /\ page.name \in BackendNames /\ page.setting \in Settings \cup {Absent}
         /\ page.pc \in {"table", "memory", "reload"} /\ page # Idle
         /\ \A pc \in {"table", "memory", "reload"} :
              LET moved == [page EXCEPT !.pc = pc]
              IN  /\ moved \in BackendPage /\ moved # Idle /\ moved.pc = pc
                  /\ moved.name = page.name /\ moved.setting = page.setting
<1>1. Idle \notin BackendPage
  BY AdministrationAssumption
<1> QED
  BY <1>1 DEF BackendPage

\* The model page has the references besides.
LEMMA ModelPageIs ==
  ASSUME NEW page \in ModelPage
  PROVE  /\ page.name \in ModelNames /\ page.op \in {"save", "delete"} /\ page # Idle
         /\ \A pc \in {"table", "prices", "reload"} :
              LET moved == [page EXCEPT !.pc = pc]
              IN  /\ moved \in ModelPage /\ moved # Idle /\ moved.name = page.name
                  /\ moved.op = page.op /\ moved.pc = pc
<1>1. Idle \notin ModelPage
  BY AdministrationAssumption
<1> QED
  BY <1>1 DEF ModelPage

\* So has a page that is opened, or whose change was just put in memory.
LEMMA OpenedPage ==
  ASSUME NEW n \in ModelNames, NEW op \in {"save", "delete"}, NEW pc \in {"store", "table"},
         NEW refs \in SUBSET BackendNames
  PROVE  LET page == [pc |-> pc, op |-> op, name |-> n, refs |-> refs]
         IN  /\ page \in ModelPage /\ page # Idle /\ page.pc = pc /\ page.op = op
             /\ page.name = n /\ page.refs = refs
<1> DEFINE page == [pc |-> pc, op |-> op, name |-> n, refs |-> refs]
<1>1. page \in ModelPage
  BY DEF ModelPage
<1>2. page # Idle
  BY <1>1, AdministrationAssumption
<1> QED
  BY <1>1, <1>2

\* What a change puts in memory, and what it exposes.
LEMMA StoredPage ==
  ASSUME NEW n \in ModelNames, NEW op \in {"save", "delete"}, NEW refs, ModelStored(op, n, refs)
  PROVE  \/ modelPage' = Idle /\ tornModels' = TRUE /\ exposed' = BackendNames
         \/ /\ modelPage' \in ModelPage /\ modelPage' # Idle /\ modelPage'.pc = "table"
            /\ modelPage'.op = op /\ modelPage'.name = n
            /\ UNCHANGED tornModels /\ exposed' = exposed \cup (Leaving \cap refs)
<1>1. CASE modelPage' = [pc |-> "table", op |-> op, name |-> n, refs |-> {}]
  BY <1>1, OpenedPage DEF ModelStored
<1>2. CASE modelPage' = Idle
  BY <1>2, OpenedPage DEF ModelStored
<1> QED
  BY <1>1, <1>2 DEF ModelStored

\* A page that is stored and moves on has its model in the catalog as before.
LEMMA MovedPage ==
  ASSUME SavedIsThere, modelPage \in ModelPage, modelPage # Idle, modelPage.pc # "store",
         UNCHANGED dashModels, NEW pc \in {"prices", "reload"},
         modelPage' = Idle \/ modelPage' = [modelPage EXCEPT !.pc = pc]
  PROVE  modelPage' \in ModelPage \cup {Idle} /\ SavedIsThere'
<1>1. CASE modelPage' = Idle
  BY <1>1 DEF SavedIsThere
<1>2. CASE modelPage' = [modelPage EXCEPT !.pc = pc]
  <2>1. /\ modelPage' \in ModelPage /\ modelPage'.pc = pc
        /\ modelPage'.op = modelPage.op /\ modelPage'.name = modelPage.name
    BY <1>2, ModelPageIs
  <2> QED
    BY <2>1 DEF SavedIsThere
<1> QED
  BY <1>1, <1>2

\* A form that was checked and is not stored yet.
LEMMA FormIs ==
  ASSUME ModelTypes, NEW price, SaveModel(price)
  PROVE  /\ modelPage \in ModelPage /\ modelPage # Idle /\ modelPage.pc = "store"
         /\ modelPage.name \in ModelNames /\ modelPage.refs \in Refs
         /\ modelPage.refs \subseteq BackendNames
<1>1. modelPage \in ModelPage /\ modelPage # Idle /\ modelPage.pc = "store"
  BY DEF SaveModel, AtModels, ModelTypes
<1> QED
  BY <1>1, ModelPageIs DEF ModelTypes, SavedIsThere, Refs

\* Opening a form changes the page only.
LEMMA BegunPage ==
  ASSUME NEW n \in ModelNames, NEW refs \in Refs, BeginModel(n, refs)
  PROVE  /\ phase = "serving" /\ modelPage = Idle
         /\ modelPage' \in ModelPage /\ modelPage' # Idle /\ modelPage'.pc = "store"
         /\ modelPage'.op = "save" /\ modelPage'.refs \in Refs
         /\ UNCHANGED <<backendsUnchanged, modelTable, priceTable, modelMemory, tornModels, exposed>>
<1>1. modelPage' = [pc |-> "store", op |-> "save", name |-> n, refs |-> refs]
  BY DEF BeginModel
<1>2. refs \in SUBSET BackendNames
  BY DEF Refs
<1> QED
  BY <1>1, <1>2, OpenedPage DEF BeginModel

\* The types hold before the first start.
LEMMA TypesAtFirst == Init => BackendTypes /\ ModelTypes /\ RestTypes
<1> SUFFICES ASSUME Init PROVE BackendTypes /\ ModelTypes /\ RestTypes
  OBVIOUS
<1>1. BackendTypes
  BY DEF Init, NoBackends, BackendTypes
<1>2. ModelTypes
  BY EmptyIsCatalog DEF Init, ModelTypes, SavedIsThere, ModelTable, PriceList, NoPrices
<1>3. MaxChanges \in Nat /\ MaxStarts \in Nat /\ MaxErrors \in Nat
  BY AdministrationAssumption
<1>4. RestTypes
  <2>1. changes \in 0..MaxChanges /\ starts \in 0..MaxStarts /\ errors \in 0..MaxErrors
    BY <1>3 DEF Init
  <2>2. /\ phase \in {"down", "catalog", "seed", "discover", "prices", "wire", "serving", "failed"}
        /\ {reloading, tornModels, emptied} \subseteq BOOLEAN
    BY Zenon DEF Init
  <2> QED
    BY <2>1, <2>2 DEF RestTypes
<1> QED
  BY <1>1, <1>2, <1>4

\* A start finds a list of backends, and a seeded table.
LEMMA SeededTypes ==
  ASSUME NEW k \in Nat
  PROVE  Seeded(k) \in [BackendNames -> Settings \cup {Absent}]
BY FileIs DEF Seeded

\* The first step of a start keeps the types of the backends.
LEMMA LoadBackendsTypes == BackendTypes /\ LoadBackends => BackendTypes'
<1> SUFFICES ASSUME BackendTypes, LoadBackends PROVE BackendTypes'
  OBVIOUS
<1>1. UNCHANGED <<manager, disabled, backendPage>>
  BY DEF LoadBackends
<1>2. /\ backendTable' \in [BackendNames -> Settings \cup {Absent}]
      /\ acked' \in [BackendNames -> Settings \cup {Absent, Idle}]
      /\ torn' \in SUBSET BackendNames
      /\ cfgBackends' = StartList(backendTable') \/ cfgBackends' = FromYaml
  <2>1. ASSUME NEW k \in 0..Len(YamlBackends), SeedBackends(k)
        PROVE  /\ backendTable' \in [BackendNames -> Settings \cup {Absent}]
               /\ acked' \in [BackendNames -> Settings \cup {Absent, Idle}]
    <3>1. CASE UNCHANGED <<backendTable, acked>>
      BY <3>1 DEF BackendTypes
    <3>2. CASE backendTable' = Seeded(k) /\ acked' = [b \in BackendNames |-> Idle]
      <4>1. Len(YamlBackends) \in Nat
        BY AdministrationAssumption
      <4>2. k \in Nat
        BY <4>1
      <4> QED
        BY <3>2, <4>2, SeededTypes
    <3> QED
      BY <2>1, <3>1, <3>2 DEF SeedBackends
  <2>2. torn' \in SUBSET BackendNames
    BY DEF LoadBackends
  <2> QED
    BY <2>1, <2>2 DEF LoadBackends
<1>3. cfgBackends' \in [BackendNames -> Settings \cup {Absent}]
  BY <1>2, FileIs DEF StartList
<1> QED
  BY <1>1, <1>2, <1>3 DEF BackendTypes

\* The manager is made of a list whose addresses parse.
LEMMA EnabledTypes ==
  ASSUME NEW list \in [BackendNames -> (Settings \ Malformed) \cup {Absent}]
  PROVE  /\ Enabled(list) \in [BackendNames -> Managed \cup {Absent}]
         /\ \A b \in BackendNames :
              /\ Enabled(list)[b] = Absent <=> list[b] = Absent
              /\ list[b] # Absent =>
                   Enabled(list)[b].setting = list[b] /\ Enabled(list)[b].enabled = TRUE
<1>1. ASSUME NEW b \in BackendNames, list[b] # Absent
      PROVE  [setting |-> list[b], enabled |-> TRUE] \in Managed
  BY <1>1 DEF Managed
<1>2. Absent \notin Managed
  BY AdministrationAssumption
<1> QED
  BY <1>1, <1>2 DEF Enabled

\* What an upsert or a removal puts in the manager.
LEMMA UpsertedTypes ==
  ASSUME NEW setting \in Settings \cup {Absent}, setting \notin Malformed, NEW b
  PROVE  /\ Upserted(b, setting) \in Managed \cup {Absent}
         /\ Upserted(b, setting) = Absent <=> setting = Absent
         /\ setting # Absent =>
              Upserted(b, setting).setting = setting /\ Upserted(b, setting).enabled = TRUE
<1>1. Absent \notin Managed
  BY AdministrationAssumption
<1>2. setting # Absent => [setting |-> setting, enabled |-> TRUE] \in Managed
  BY DEF Managed
<1> QED
  BY <1>1, <1>2 DEF Upserted

\* Every step keeps the types of the backends.
LEMMA BackendTypesStep == BackendTypes /\ [Next]_vars => BackendTypes'
<1> SUFFICES ASSUME BackendTypes, [Next]_vars PROVE BackendTypes'
  OBVIOUS
<1>1. CASE UNCHANGED backendState
  BY <1>1 DEF backendState, BackendTypes
<1>2. CASE LoadBackends
  BY <1>2, LoadBackendsTypes
<1>3. CASE Wire
  <2>1. UNCHANGED <<backendTable, cfgBackends, disabled, backendPage, torn, acked>>
    BY <1>3 DEF Wire, tables, history
  <2>2. manager' \in [BackendNames -> Managed \cup {Absent}]
    <3>1. CASE UNCHANGED manager
      BY <3>1 DEF BackendTypes
    <3>2. CASE (\A b \in Listed(cfgBackends) : cfgBackends[b] \notin Malformed)
               /\ manager' = Enabled(cfgBackends)
      <4>1. cfgBackends \in [BackendNames -> (Settings \ Malformed) \cup {Absent}]
        BY <3>2 DEF BackendTypes, Listed
      <4> QED
        BY <3>2, <4>1, EnabledTypes
    <3> QED
      BY <1>3, <3>1, <3>2 DEF Wire
  <2> QED
    BY <2>1, <2>2 DEF BackendTypes
<1>4. CASE End
  BY <1>4 DEF End, Forgotten, tables, history, NoBackends, BackendTypes
<1>5. ASSUME NEW b \in BackendNames, ToggleBackend(b) PROVE BackendTypes'
  <2>1. UNCHANGED <<backendTable, cfgBackends, backendPage, torn, acked>>
    BY <1>5 DEF ToggleBackend
  <2>2. disabled' \in SUBSET BackendNames
    BY <1>5 DEF ToggleBackend, BackendTypes
  <2>3. manager' \in [BackendNames -> Managed \cup {Absent}]
    <3>1. CASE manager' = manager
      BY <3>1 DEF BackendTypes
    <3>2. CASE manager[b] # Absent /\ manager' = [manager EXCEPT ![b].enabled = b \in disabled]
      <4> DEFINE shown == b \in disabled
                 new == [manager[b] EXCEPT !.enabled = shown]
      <4>1. manager[b] \in Managed /\ shown \in BOOLEAN
        BY <3>2 DEF BackendTypes
      <4> HIDE DEF shown
      <4>2. new \in Managed
        BY <4>1 DEF Managed
      <4>3. manager' = [manager EXCEPT ![b] = new]
        BY <3>2 DEF shown
      <4> QED
        BY <4>2, <4>3 DEF BackendTypes
    <3> QED
      BY <1>5, <3>1, <3>2 DEF ToggleBackend
  <2> QED
    BY <2>1, <2>2, <2>3 DEF BackendTypes
<1>6. ASSUME NEW b \in BackendNames, NEW setting \in Settings \cup {Absent}, BeginBackend(b, setting)
      PROVE  BackendTypes'
  <2>1. UNCHANGED <<backendTable, cfgBackends, manager, disabled, torn>>
    BY <1>6 DEF BeginBackend, backendMemory
  <2>2. backendPage' \in BackendPage
    BY <1>6 DEF BeginBackend, BackendPage
  <2>3. acked' \in [BackendNames -> Settings \cup {Absent, Idle}]
    BY <1>6 DEF BeginBackend, BackendTypes
  <2> QED
    BY <2>1, <2>2, <2>3 DEF BackendTypes
<1>7. CASE WriteBackendRow
  <2>1. UNCHANGED <<cfgBackends, manager, disabled, torn, acked>>
    BY <1>7 DEF WriteBackendRow, backendMemory
  <2>2. backendPage \in BackendPage
    BY <1>7 DEF WriteBackendRow, AtBackends, BackendTypes
  <2>3. CASE backendPage' = Idle /\ UNCHANGED backendTable
    BY <2>1, <2>3 DEF BackendTypes
  <2>4. CASE /\ backendTable' = [backendTable EXCEPT ![backendPage.name] = backendPage.setting]
             /\ backendPage' = [backendPage EXCEPT !.pc = "memory"]
    BY <2>1, <2>2, <2>4, BackendPageIs DEF BackendTypes
  <2> QED
    BY <1>7, <2>3, <2>4 DEF WriteBackendRow
<1>8. CASE WriteBackendMemory
  <2>1. UNCHANGED <<backendTable, acked>>
    BY <1>8 DEF WriteBackendMemory
  <2>2. backendPage \in BackendPage
    BY <1>8 DEF WriteBackendMemory, AtBackends, BackendTypes
  <2> DEFINE b == backendPage.name
             setting == backendPage.setting
  <2>3. b \in BackendNames /\ setting \in Settings \cup {Absent}
    BY <2>2, BackendPageIs
  <2>4. CASE backendPage' = Idle /\ torn' = torn \cup {b} /\ UNCHANGED backendMemory
    BY <2>1, <2>3, <2>4 DEF BackendTypes, backendMemory
  <2>5. CASE /\ ~Refused(b, setting)
             /\ manager' = [manager EXCEPT ![b] = Upserted(b, setting)]
             /\ disabled' = disabled \ {b}
             /\ cfgBackends' = [cfgBackends EXCEPT ![b] = setting]
             /\ backendPage' = [backendPage EXCEPT !.pc = "reload"]
             /\ torn' = torn \ {b}
    <3>1. Upserted(b, setting) \in Managed \cup {Absent}
      BY <2>3, <2>5, UpsertedTypes DEF Refused
    <3>2. backendPage' \in BackendPage
      BY <2>2, <2>5, BackendPageIs
    <3> HIDE DEF b, setting
    <3> QED
      BY <2>1, <2>3, <2>5, <3>1, <3>2 DEF BackendTypes
  <2> QED
    BY <1>8, <2>4, <2>5 DEF WriteBackendMemory
<1>9. CASE ReloadBackends
  <2>1. UNCHANGED <<backendTable, manager, torn>> /\ backendPage' = Idle
    BY <1>9 DEF ReloadBackends
  <2>2. backendPage.name \in BackendNames /\ backendPage.setting \in Settings \cup {Absent}
    BY <1>9, BackendPageIs DEF ReloadBackends, AtBackends, BackendTypes
  <2>3. cfgBackends' \in {cfgBackends, backendTable} /\ disabled' \in SUBSET disabled
        /\ acked' \in {acked, [acked EXCEPT ![backendPage.name] = backendPage.setting]}
    BY <1>9 DEF ReloadBackends
  <2> QED
    BY <2>1, <2>2, <2>3 DEF BackendTypes
<1>10. CASE BeginReload
  BY <1>10 DEF BeginReload, backendMemory, BackendTypes
<1>11. CASE ApplyReload
  <2>1. manager' \in [BackendNames -> Managed \cup {Absent}]
    BY <1>11, FileIs, EnabledTypes DEF ApplyReload
  <2> QED
    BY <1>11, <2>1 DEF ApplyReload, BackendTypes
<1> QED
  BY <1>1, <1>2, <1>3, <1>4, <1>5, <1>6, <1>7, <1>8, <1>9, <1>10, <1>11, BackendsAlone,
     StutterAlone DEF Next, Start, BackendStep

Phases == {"down", "catalog", "seed", "discover", "prices", "wire", "serving", "failed"}

\* What a step may do to the phase, the counters and the flags.
Moves ==
  /\ phase' = phase \/ phase' \in Phases
  /\ UNCHANGED changes \/ CountChange
  /\ UNCHANGED starts \/ (starts < MaxStarts /\ starts' = starts + 1)
  /\ UNCHANGED errors \/ DBError
Flags ==
  /\ reloading' = reloading \/ reloading' = TRUE \/ reloading' = FALSE
  /\ tornModels' = tornModels \/ tornModels' = TRUE \/ tornModels' = FALSE
  /\ emptied' = emptied \/ emptied' = TRUE \/ emptied' = FALSE

\* No step does more to phase, counters and flags.
LEMMA StepMoves == [Next]_vars => Moves /\ Flags
<1> SUFFICES ASSUME [Next]_vars PROVE Moves /\ Flags
  OBVIOUS
<1>1. CASE UNCHANGED vars
  BY <1>1 DEF vars, history, bounds, Moves, Flags
<1>2. CASE LoadBackends
  BY <1>2 DEF LoadBackends, SeedBackends, Ok, DBError, Phases, Moves, Flags
<1>3. CASE LoadCatalog
  BY <1>3 DEF LoadCatalog, startUnchanged, Ok, DBError, Phases, Moves, Flags
<1>4. CASE SeedCatalog
  BY <1>4 DEF SeedCatalog, startUnchanged, Ok, DBError, Phases, Moves, Flags
<1>5. CASE Discover
  BY <1>5 DEF Discover, startUnchanged, Ok, DBError, Phases, Moves, Flags
<1>6. CASE LoadPrices
  BY <1>6 DEF LoadPrices, startUnchanged, Ok, DBError, Phases, Moves, Flags
<1>7. CASE Wire
  BY <1>7 DEF Wire, history, bounds, Ok, DBError, Phases, Moves, Flags
<1>8. CASE End
  BY <1>8 DEF End, Forgotten, history, bounds, Ok, DBError, Phases, Moves, Flags
<1>9. CASE BackendStep
  BY <1>9 DEF BackendStep, ToggleBackend, BeginBackend, WriteBackendRow, WriteBackendMemory,
     ReloadBackends, modelsUnchanged, bounds, Ok, DBError, CountChange, Moves, Flags
<1>10. CASE ModelStep
  BY <1>10 DEF ModelStep, BeginModel, SaveModel, DeleteModel, WriteModelRow, WritePrices, ReloadModels,
     ModelStored, ModelsTorn, modelStepUnchanged, backendsUnchanged, Ok, DBError, CountChange,
     Moves, Flags
<1>11. CASE BeginReload \/ ApplyReload
  BY <1>11 DEF BeginReload, ApplyReload, modelsUnchanged, bounds, CountChange, Moves, Flags
<1> QED
  BY <1>1, <1>2, <1>3, <1>4, <1>5, <1>6, <1>7, <1>8, <1>9, <1>10, <1>11 DEF Next, Start

\* Every step keeps the types of phase, counters and flags.
LEMMA RestTypesStep == RestTypes /\ [Next]_vars => RestTypes'
<1> SUFFICES ASSUME RestTypes, [Next]_vars PROVE RestTypes'
  OBVIOUS
<1>1. Moves /\ Flags
  BY StepMoves
<1>2. MaxChanges \in Nat /\ MaxStarts \in Nat /\ MaxErrors \in Nat
  BY AdministrationAssumption
<1>3. changes' \in 0..MaxChanges /\ starts' \in 0..MaxStarts /\ errors' \in 0..MaxErrors
  BY <1>1, <1>2 DEF RestTypes, Moves, CountChange, DBError
<1>4. phase' \in Phases
  BY <1>1 DEF RestTypes, Moves, Phases
<1>5. /\ reloading' \in BOOLEAN /\ tornModels' \in BOOLEAN
      /\ emptied' \in BOOLEAN
  BY <1>1, Zenon DEF RestTypes, Flags
<1>6. {reloading, tornModels, emptied}' \subseteq BOOLEAN
  BY <1>5, Zenon
<1> QED
  BY <1>3, <1>4, <1>6 DEF RestTypes, Phases

\* A list of backends asked for their models, and what becomes of the tables.
LEMMA DiscoveredTable ==
  ASSUME BackendTypes, ModelTypes,
         NEW report \in [Listed(cfgBackends) -> (SUBSET ModelNames) \cup {Unreachable}]
  PROVE  LET synced == SyncDiscoveredCatalog(modelTable, DiscoverCatalog(report))
         IN  synced \in ModelTable /\ RefsIn(ActiveCatalog(synced), Listed(cfgBackends))
<1>1. Listed(cfgBackends) \subseteq BackendNames
  BY DEF Listed
<1>2. /\ DiscoverCatalog(report) \in Catalog
      /\ RefsIn(DiscoverCatalog(report), Listed(cfgBackends))
  BY <1>1, DiscoveredIsCatalog
<1>3. modelTable \in ModelTable
  BY DEF ModelTypes
<1> QED
  BY <1>2, <1>3, SyncedTable

\* The prices that are stored.
LEMMA PricesTypes ==
  ASSUME NEW table, NEW prices \in PriceList
  PROVE  ReplaceModelPricing(table, prices) \in PriceList
BY DEF ReplaceModelPricing, PriceList

\* Saving a model keeps the types of the models.
LEMMA SavedTypes ==
  ASSUME ModelTypes, NEW price \in Prices \cup {NoPrice}, SaveModel(price)
  PROVE  ModelTypes'
<1> DEFINE n == modelPage.name
<1>0. n \in ModelNames /\ modelPage.refs \in Refs
  BY FormIs
<1>1. UNCHANGED <<modelTable, priceTable, routed, proxyPrices>>
  BY DEF SaveModel
<1>2. dashModels' \in Catalog /\ n \in DOMAIN dashModels'
  BY <1>0, SavedCatalog DEF SaveModel, ModelTypes
<1>3. cfgPrices' \in PriceList
  BY <1>0 DEF SaveModel, ModelTypes, PriceList
<1>4. ModelStored("save", n, modelPage.refs)
  BY DEF SaveModel
<1>5. modelPage' \in ModelPage \cup {Idle} /\ SavedIsThere'
  BY <1>0, <1>2, <1>4, StoredPage DEF SavedIsThere
<1> QED
  BY <1>1, <1>2, <1>3, <1>5 DEF ModelTypes

\* So does deleting one.
LEMMA DeletedTypes ==
  ASSUME ModelTypes, NEW n \in ModelNames, DeleteModel(n)
  PROVE  ModelTypes'
<1>1. UNCHANGED <<modelTable, priceTable, routed, proxyPrices>>
  BY DEF DeleteModel
<1>2. dashModels' \in Catalog
  BY DeletedCatalog DEF DeleteModel, ModelTypes
<1>3. cfgPrices' \in PriceList
  BY DEF DeleteModel, ModelTypes, PriceList
<1>4. ModelStored("delete", n, {})
  BY DEF DeleteModel
<1>5. modelPage' \in ModelPage \cup {Idle} /\ SavedIsThere'
  BY <1>4, StoredPage DEF SavedIsThere
<1> QED
  BY <1>1, <1>2, <1>3, <1>5 DEF ModelTypes

\* The models refer to backends only in the table, in the catalogs and in the row
\* that the page writes.
LEMMA WrittenRow ==
  ASSUME ModelTypes, WriteModelRow
  PROVE  /\ UNCHANGED <<priceTable, cfgPrices, proxyPrices, dashModels, routed>>
         /\ modelPage \in ModelPage
         /\ \/ modelPage' = Idle /\ tornModels' = TRUE /\ exposed' = BackendNames /\ UNCHANGED modelTable
            \/ /\ modelPage' = [modelPage EXCEPT !.pc = "prices"] /\ UNCHANGED <<tornModels, exposed>>
               /\ modelTable' \in ModelTable
               /\ \A S : RefsIn(ActiveCatalog(modelTable), S) /\ RefsIn(dashModels, S) =>
                         RefsIn(ActiveCatalog(modelTable'), S)
<1> DEFINE n == modelPage.name
<1>1. UNCHANGED <<priceTable, cfgPrices, proxyPrices, dashModels, routed>>
  BY DEF WriteModelRow, modelMemory
<1>2. modelPage \in ModelPage /\ n \in ModelNames
  BY ModelPageIs DEF WriteModelRow, AtModels, ModelTypes
<1>3. modelTable \in ModelTable
  BY DEF ModelTypes
<1>4. CASE ModelsTorn /\ UNCHANGED modelTable
  BY <1>1, <1>2, <1>4 DEF ModelsTorn
<1>5. ASSUME modelPage.op = "save", modelTable' = UpsertModel(modelTable, n, dashModels[n])
      PROVE  /\ modelTable' \in ModelTable
             /\ \A S : RefsIn(ActiveCatalog(modelTable), S) /\ RefsIn(dashModels, S) =>
                       RefsIn(ActiveCatalog(modelTable'), S)
  <2>1. n \in DOMAIN dashModels
    BY <1>2, <1>5 DEF ModelTypes, SavedIsThere, WriteModelRow, AtModels
  <2>2. dashModels[n] \in Refs
    BY <2>1, CatalogIs DEF ModelTypes
  <2>3. \A S : RefsIn(dashModels, S) => dashModels[n] \subseteq S
    BY <2>1 DEF RefsIn
  <2> QED
    BY <1>2, <1>3, <1>5, <2>2, <2>3, ChangedRow
<1>6. ASSUME modelTable[n] # NoModel, modelTable' = DeactivateModel(modelTable, n)
      PROVE  /\ modelTable' \in ModelTable
             /\ \A S : RefsIn(ActiveCatalog(modelTable), S) => RefsIn(ActiveCatalog(modelTable'), S)
  BY <1>2, <1>3, <1>6, ChangedRow
<1> QED
  BY <1>1, <1>2, <1>4, <1>5, <1>6 DEF WriteModelRow

\* A process that does not serve has nothing in hand.
Quiet == phase # "serving" =>
           backendPage = Idle /\ modelPage = Idle /\ disabled = {} /\ ~reloading

\* Every step keeps it so: a page is open only while the process serves.
LEMMA QuietStep == Quiet /\ [Next]_vars => Quiet'
<1> SUFFICES ASSUME Quiet, [Next]_vars PROVE Quiet'
  OBVIOUS
<1>1. CASE LoadBackends
  BY <1>1 DEF LoadBackends, Quiet
<1>2. CASE LoadCatalog \/ SeedCatalog \/ Discover \/ LoadPrices
  <2>1. UNCHANGED <<backendState, modelPage>> /\ (phase = "serving" <=> phase' = "serving")
    BY <1>2, BackendsAlone DEF LoadCatalog, SeedCatalog, Discover, LoadPrices, startUnchanged
  <2> QED
    BY <2>1 DEF Quiet, backendState
<1>3. CASE Wire
  BY <1>3 DEF Wire, Quiet
<1>4. CASE End
  BY <1>4 DEF End, Forgotten, Quiet
<1>5. CASE BackendStep \/ BeginReload \/ ApplyReload \/ ModelStep
  <2>1. phase' = "serving"
    BY <1>5, ModelsAlone, BackendsAlone DEF ModelStep, BeginModel, SaveModel, DeleteModel, WriteModelRow,
       WritePrices, ReloadModels, AtModels, modelStepUnchanged, backendsUnchanged
  <2> QED
    BY <2>1 DEF Quiet
<1>6. CASE UNCHANGED vars
  BY <1>6, StutterAlone DEF backendState, modelState, Quiet
<1> QED
  BY <1>1, <1>2, <1>3, <1>4, <1>5, <1>6 DEF Next, Start

\* Every step keeps the types of the models.
LEMMA ModelTypesStep == Quiet /\ BackendTypes /\ ModelTypes /\ [Next]_vars => ModelTypes'
<1> SUFFICES ASSUME Quiet, BackendTypes, ModelTypes, [Next]_vars PROVE ModelTypes'
  OBVIOUS
<1> USE DEF modelMemory
<1>1. CASE UNCHANGED modelState
  BY <1>1 DEF modelState, ModelTypes, SavedIsThere
<1>2. ActiveCatalog(modelTable) \in Catalog
  BY ActiveIsCatalog DEF ModelTypes
<1>3. CASE LoadCatalog
  <2>1. UNCHANGED <<modelTable, priceTable, cfgPrices, proxyPrices, routed>> /\ modelPage' = Idle
    BY <1>3 DEF LoadCatalog, startUnchanged, Quiet
  <2>2. dashModels' \in Catalog
    BY <1>2, <1>3, EmptyIsCatalog DEF LoadCatalog
  <2> QED
    BY <2>1, <2>2 DEF ModelTypes, SavedIsThere
<1>4. CASE SeedCatalog
  <2>1. UNCHANGED <<priceTable, cfgPrices, proxyPrices, routed>> /\ modelPage' = Idle
    BY <1>4 DEF SeedCatalog, startUnchanged, Quiet
  <2>2. YamlModels \in Catalog /\ RefsIn(YamlModels, YamlNames)
    BY AdministrationAssumption DEF RefsIn, YamlNames
  <2>3. SyncDiscoveredCatalog(modelTable, YamlModels) \in ModelTable
    BY <2>2, SyncedTable DEF ModelTypes
  <2>4. modelTable' \in ModelTable /\ dashModels' \in Catalog
    BY <1>4, <2>3, ActiveIsCatalog DEF SeedCatalog, ModelTypes
  <2> QED
    BY <2>1, <2>4 DEF ModelTypes, SavedIsThere
<1>5. CASE Discover
  <2>1. UNCHANGED <<priceTable, cfgPrices, proxyPrices, routed>> /\ modelPage' = Idle
    BY <1>5 DEF Discover, startUnchanged, Quiet
  <2>2. modelTable' \in ModelTable
    BY <1>5, DiscoveredTable DEF Discover, ModelTypes
  <2>3. dashModels' \in {dashModels, ActiveCatalog(modelTable), ActiveCatalog(modelTable')}
    BY <1>5 DEF Discover
  <2>4. dashModels' \in Catalog
    BY <1>2, <2>2, <2>3, ActiveIsCatalog DEF ModelTypes
  <2> QED
    BY <2>1, <2>2, <2>4 DEF ModelTypes, SavedIsThere
<1>6. CASE LoadPrices
  <2>1. UNCHANGED <<modelTable, proxyPrices, dashModels, routed, modelPage>>
    BY <1>6 DEF LoadPrices, startUnchanged
  <2>2. YamlPrices \in PriceList
    BY AdministrationAssumption
  <2>3. priceTable' \in PriceList /\ cfgPrices' \in PriceList
    BY <1>6, <2>2, PricesTypes DEF LoadPrices, ModelTypes
  <2> QED
    BY <2>1, <2>3 DEF ModelTypes, SavedIsThere
<1>7. CASE Wire
  BY <1>7 DEF Wire, tables, ModelTypes, SavedIsThere
<1>8. CASE End
  <2>1. NoPrices \in PriceList
    BY DEF NoPrices, PriceList
  <2> QED
    BY <1>8, <2>1, EmptyIsCatalog DEF End, Forgotten, tables, ModelTypes, SavedIsThere
<1>9. ASSUME NEW price \in Prices \cup {NoPrice}, SaveModel(price) PROVE ModelTypes'
  BY <1>9, SavedTypes
<1>15. ASSUME NEW n \in ModelNames, NEW refs \in Refs, BeginModel(n, refs) PROVE ModelTypes'
  BY <1>15, BegunPage DEF modelMemory, ModelTypes, SavedIsThere
<1>10. ASSUME NEW n \in ModelNames, DeleteModel(n) PROVE ModelTypes'
  BY <1>10, DeletedTypes
<1>11. CASE WriteModelRow
  <2>1. modelTable' \in ModelTable /\ UNCHANGED <<priceTable, cfgPrices, proxyPrices, dashModels, routed>>
    BY <1>11, WrittenRow DEF ModelTypes
  <2>2. /\ modelPage \in ModelPage /\ modelPage # Idle /\ modelPage.pc = "table"
        /\ modelPage' = Idle \/ modelPage' = [modelPage EXCEPT !.pc = "prices"]
    BY <1>11, WrittenRow DEF WriteModelRow, AtModels
  <2>3. modelPage' \in ModelPage \cup {Idle} /\ SavedIsThere'
    BY <2>1, <2>2, MovedPage DEF ModelTypes
  <2> QED
    BY <2>1, <2>3 DEF ModelTypes
<1>12. CASE WritePrices
  <2>1. UNCHANGED <<modelTable, cfgPrices, proxyPrices, dashModels, routed>>
        /\ modelPage \in ModelPage /\ modelPage # Idle /\ modelPage.pc = "prices"
    BY <1>12 DEF WritePrices, AtModels, ModelTypes
  <2>2. priceTable' \in PriceList
    BY <1>12, PricesTypes DEF WritePrices, ModelTypes
  <2>3. modelPage' = Idle \/ modelPage' = [modelPage EXCEPT !.pc = "reload"]
    BY <1>12 DEF WritePrices, ModelsTorn
  <2>4. modelPage' \in ModelPage \cup {Idle} /\ SavedIsThere'
    BY <2>1, <2>3, MovedPage DEF ModelTypes
  <2> QED
    BY <2>1, <2>2, <2>4 DEF ModelTypes
<1>13. CASE ReloadModels
  <2>1. UNCHANGED <<modelTable, priceTable>> /\ modelPage' = Idle
    BY <1>13 DEF ReloadModels, ModelsTorn
  <2>2. dashModels' \in Catalog /\ routed' \in Catalog /\ cfgPrices' \in PriceList
        /\ proxyPrices' \in PriceList
    BY <1>2, <1>13 DEF ReloadModels, RefreshCatalog, ModelTypes
  <2> QED
    BY <2>1, <2>2 DEF ModelTypes, SavedIsThere
<1> QED
  BY <1>1, <1>3, <1>4, <1>5, <1>6, <1>7, <1>8, <1>9, <1>10, <1>11, <1>12, <1>13, <1>15, ModelsAlone,
     LoadBackendsAlone, StutterAlone DEF Next, Start, ModelStep

-----------------------------------------------------------------------------
(* The backends.                                                           *)

\* The row of the page's backend is written, but not yet the memory.
InHand(b) == backendPage # Idle /\ backendPage.name = b /\ backendPage.pc = "memory"

\* After the first step of a change the table holds what the page has.
PageInTable ==
  backendPage # Idle /\ backendPage.pc # "table" =>
    backendTable[backendPage.name] = backendPage.setting

\* A confirmed change is in the table as long as no other one is under way.
AckedInTable ==
  \A b \in BackendNames : acked[b] # Idle =>
    backendTable[b] = acked[b] /\ (backendPage = Idle \/ backendPage.name # b)

EmptyKnown ==
  /\ phase # "down" /\ Listed(backendTable) = {} => emptied
  /\ reloading => emptied

Follows(b) ==
  ~InHand(b) => /\ cfgBackends[b] = backendTable[b]
                /\ phase = "serving" => SettingOf(b) = backendTable[b]
Shown(b) ==
  phase = "serving" /\ manager[b] # Absent => (b \in disabled <=> ~manager[b].enabled)
Follow ==
  phase # "down" /\ ~emptied => \A b \in BackendNames \ torn : Follows(b) /\ Shown(b)

BackendsInv == PageInTable /\ AckedInTable /\ EmptyKnown /\ Follow

\* All of it is about the backends, and about whether the process serves.
LEMMA BackendsKept ==
  ASSUME BackendsInv, UNCHANGED backendState, phase' = "serving" => phase = "serving",
         phase' # "down" => phase # "down"
  PROVE  BackendsInv'
<1>1. PageInTable' /\ AckedInTable'
  BY DEF BackendsInv, backendState, PageInTable, AckedInTable
<1>2. EmptyKnown'
  BY DEF BackendsInv, backendState, EmptyKnown, Listed
<1>3. ASSUME Follow PROVE Follow'
  BY <1>3 DEF backendState, Follow, Follows, Shown, InHand, SettingOf
<1> QED
  BY <1>1, <1>2, <1>3 DEF BackendsInv

\* A start takes the table; names for which it takes something else are torn.
LEMMA LoadBackendsStep == Quiet /\ BackendsInv /\ LoadBackends => BackendsInv'
<1> SUFFICES ASSUME Quiet, BackendsInv, LoadBackends PROVE BackendsInv'
  OBVIOUS
<1>1. /\ backendPage = Idle /\ backendPage' = Idle /\ ~reloading /\ ~reloading'
      /\ phase' = "catalog" /\ emptied' = (Listed(backendTable') = {})
  BY DEF LoadBackends, Quiet
<1>2. PageInTable'
  BY <1>1 DEF PageInTable
<1>3. \/ UNCHANGED <<backendTable, acked>>
      \/ acked' = [b \in BackendNames |-> Idle]
  BY DEF LoadBackends, SeedBackends
<1>4. AckedInTable'
  BY <1>1, <1>3 DEF BackendsInv, AckedInTable
<1>5. EmptyKnown'
  BY <1>1 DEF EmptyKnown, Listed
<1>6. emptied' \/ \A b \in BackendNames \ torn' : cfgBackends'[b] = backendTable'[b]
  BY DEF LoadBackends, StartList
<1>7. Follow'
  BY <1>1, <1>6 DEF Follow, Follows, Shown
<1> QED
  BY <1>2, <1>4, <1>5, <1>7 DEF BackendsInv

\* The manager is made of the list that follows the table.
LEMMA WireStep == Quiet /\ BackendTypes /\ BackendsInv /\ Wire => BackendsInv'
<1> SUFFICES ASSUME Quiet, BackendTypes, BackendsInv, Wire PROVE BackendsInv'
  OBVIOUS
<1>1. /\ UNCHANGED <<backendTable, cfgBackends, disabled, backendPage, reloading, torn, emptied, acked>>
      /\ phase = "wire" /\ backendPage = Idle /\ disabled = {}
  BY DEF Wire, tables, history, Quiet
<1>2. CASE UNCHANGED manager /\ phase' = "failed"
  <2>1. UNCHANGED backendState
    BY <1>1, <1>2 DEF backendState
  <2> QED
    BY <1>1, <1>2, <2>1, BackendsKept
<1>3. CASE /\ \A b \in Listed(cfgBackends) : cfgBackends[b] \notin Malformed
           /\ manager' = Enabled(cfgBackends) /\ phase' = "serving"
  <2>1. cfgBackends \in [BackendNames -> (Settings \ Malformed) \cup {Absent}]
    BY <1>3 DEF BackendTypes, Listed
  <2>2. \A b \in BackendNames :
          /\ manager'[b] = Absent <=> cfgBackends[b] = Absent
          /\ cfgBackends[b] # Absent =>
               manager'[b].setting = cfgBackends[b] /\ manager'[b].enabled = TRUE
    BY <1>3, <2>1, EnabledTypes
  <2>3. \A b \in BackendNames : SettingOf(b)' = cfgBackends[b]
    BY <2>2 DEF SettingOf
  <2>4. PageInTable' /\ AckedInTable' /\ EmptyKnown'
    BY <1>1 DEF BackendsInv, PageInTable, AckedInTable, EmptyKnown, Listed
  <2>5. ASSUME NEW b \in BackendNames \ torn, ~emptied
        PROVE  Follows(b)' /\ Shown(b)'
    <3>1. cfgBackends[b] = backendTable[b]
      BY <1>1, <2>5 DEF BackendsInv, Follow, Follows, InHand
    <3>2. Follows(b)'
      BY <1>1, <2>3, <3>1 DEF Follows
    <3>3. Shown(b)'
      BY <1>1, <2>2 DEF Shown
    <3> QED
      BY <3>2, <3>3
  <2>6. Follow'
    BY <1>1, <2>5 DEF Follow
  <2> QED
    BY <2>4, <2>6 DEF BackendsInv
<1> QED
  BY <1>2, <1>3 DEF Wire

\* The end of the process leaves the tables and what was confirmed.
LEMMA EndStep == BackendsInv /\ End => BackendsInv'
BY DEF End, Forgotten, tables, history, BackendsInv, PageInTable, AckedInTable, EmptyKnown, Follow

\* A toggle changes what the page shows and the manager alike.
LEMMA ToggleStep ==
  ASSUME BackendTypes, BackendsInv, NEW b \in BackendNames, ToggleBackend(b)
  PROVE  BackendsInv'
<1>1. /\ UNCHANGED <<backendTable, cfgBackends, backendPage, reloading, torn, emptied, acked>>
      /\ phase = "serving" /\ phase' = "serving"
  BY DEF ToggleBackend, modelsUnchanged
<1>2. PageInTable' /\ AckedInTable' /\ EmptyKnown'
  BY <1>1 DEF BackendsInv, PageInTable, AckedInTable, EmptyKnown, Listed
<1>3. \A c \in BackendNames \ {b} : manager'[c] = manager[c] /\ (c \in disabled' <=> c \in disabled)
  BY DEF ToggleBackend, BackendTypes
<1>4. /\ manager'[b] = Absent <=> manager[b] = Absent
      /\ manager[b] # Absent =>
           /\ manager'[b].setting = manager[b].setting
           /\ manager'[b].enabled = (b \in disabled)
  <2>1. CASE manager[b] = Absent
    BY <2>1 DEF ToggleBackend
  <2>2. CASE manager[b] # Absent
    <3> DEFINE shown == b \in disabled
               new == [manager[b] EXCEPT !.enabled = shown]
    <3>1. manager[b] \in Managed /\ shown \in BOOLEAN
      BY <2>2 DEF BackendTypes
    <3>2. manager' = [manager EXCEPT ![b] = new]
      BY <2>2 DEF ToggleBackend
    <3> HIDE DEF shown
    <3>3. new \in Managed /\ new.setting = manager[b].setting /\ new.enabled = shown
      BY <3>1 DEF Managed
    <3>4. manager'[b] = new /\ new # Absent
      BY <3>2, <3>3, AdministrationAssumption DEF BackendTypes
    <3> QED
      BY <2>2, <3>3, <3>4 DEF shown
  <2> QED
    BY <2>1, <2>2
<1>5. b \in disabled' <=> b \notin disabled
  BY DEF ToggleBackend
<1>6. ASSUME NEW c \in BackendNames, Follows(c), Shown(c) PROVE Follows(c)' /\ Shown(c)'
  <2>1. SettingOf(c)' = SettingOf(c)
    BY <1>3, <1>4 DEF SettingOf
  <2>2. Follows(c)'
    BY <1>1, <1>6, <2>1 DEF Follows, InHand
  <2>3. Shown(c)'
    BY <1>1, <1>3, <1>4, <1>5, <1>6 DEF Shown
  <2> QED
    BY <2>2, <2>3
<1>7. Follow'
  BY <1>1, <1>6 DEF BackendsInv, Follow
<1> QED
  BY <1>2, <1>7 DEF BackendsInv

\* A change that begins takes back what was confirmed of its backend.
LEMMA BeginStep ==
  ASSUME BackendTypes, BackendsInv, NEW b \in BackendNames, NEW setting \in Settings \cup {Absent},
         BeginBackend(b, setting)
  PROVE  BackendsInv'
<1>1. /\ UNCHANGED <<backendTable, cfgBackends, manager, disabled, reloading, torn, emptied>>
      /\ phase = "serving" /\ phase' = "serving" /\ backendPage = Idle
      /\ backendPage' = [pc |-> "table", name |-> b, setting |-> setting]
      /\ acked' = [acked EXCEPT ![b] = Idle]
  BY DEF BeginBackend, modelsUnchanged, backendMemory
<1>2. backendPage'.pc = "table" /\ backendPage'.name = b
  BY <1>1
<1>3. PageInTable' /\ EmptyKnown'
  BY <1>1, <1>2 DEF BackendsInv, PageInTable, EmptyKnown, Listed
<1>4. AckedInTable'
  BY <1>1, <1>2 DEF BackendsInv, BackendTypes, AckedInTable
<1>5. Follow'
  BY <1>1, <1>2 DEF BackendsInv, Follow, Follows, Shown, InHand, SettingOf
<1> QED
  BY <1>3, <1>4, <1>5 DEF BackendsInv

\* The row is written before the memory: until then the name is in hand.
LEMMA WriteRowStep == BackendTypes /\ BackendsInv /\ WriteBackendRow => BackendsInv'
<1> SUFFICES ASSUME BackendTypes, BackendsInv, WriteBackendRow PROVE BackendsInv'
  OBVIOUS
<1>1. /\ UNCHANGED <<cfgBackends, manager, disabled, reloading, torn, acked>>
      /\ phase = "serving" /\ phase' = "serving"
      /\ backendPage \in BackendPage /\ backendPage # Idle /\ backendPage.pc = "table"
  BY DEF WriteBackendRow, AtBackends, modelsUnchanged, backendMemory, BackendTypes
<1>2. CASE backendPage' = Idle /\ UNCHANGED <<backendTable, emptied>>
  BY <1>1, <1>2 DEF BackendsInv, PageInTable, AckedInTable, EmptyKnown, Follow, Follows, Shown,
     InHand, SettingOf, Listed
<1>3. CASE /\ backendTable' = [backendTable EXCEPT ![backendPage.name] = backendPage.setting]
           /\ emptied' = (emptied \/ Listed(backendTable') = {})
           /\ backendPage' = [backendPage EXCEPT !.pc = "memory"]
  <2> DEFINE b == backendPage.name
  <2>1. b \in BackendNames /\ backendPage'.name = b /\ backendPage'.setting = backendPage.setting
        /\ backendPage'.pc = "memory" /\ backendPage' # Idle
    BY <1>1, <1>3, BackendPageIs
  <2>2. /\ backendTable'[b] = backendPage.setting
        /\ \A c \in BackendNames \ {b} : backendTable'[c] = backendTable[c]
    BY <1>3, <2>1 DEF BackendTypes
  <2>3. PageInTable' /\ EmptyKnown'
    BY <1>1, <1>3, <2>1, <2>2 DEF BackendsInv, PageInTable, EmptyKnown, Listed
  <2>4. AckedInTable'
    BY <1>1, <2>1, <2>2 DEF BackendsInv, AckedInTable
  <2>5. Follow'
    BY <1>1, <1>3, <2>1, <2>2 DEF BackendsInv, Follow, Follows, Shown, InHand, SettingOf
  <2> QED
    BY <2>3, <2>4, <2>5 DEF BackendsInv
<1> QED
  BY <1>2, <1>3 DEF WriteBackendRow

\* The memory takes what the row has, or is left behind.
LEMMA WriteMemoryStep == BackendTypes /\ BackendsInv /\ WriteBackendMemory => BackendsInv'
<1> SUFFICES ASSUME BackendTypes, BackendsInv, WriteBackendMemory PROVE BackendsInv'
  OBVIOUS
<1>1. /\ UNCHANGED <<backendTable, reloading, emptied, acked>>
      /\ phase = "serving" /\ phase' = "serving"
      /\ backendPage \in BackendPage /\ backendPage # Idle /\ backendPage.pc = "memory"
  BY DEF WriteBackendMemory, AtBackends, modelsUnchanged, BackendTypes
<1>2. PICK b \in BackendNames, setting \in Settings \cup {Absent} :
        b = backendPage.name /\ setting = backendPage.setting /\ backendTable[b] = setting
  <2>1. backendPage.name \in BackendNames /\ backendPage.setting \in Settings \cup {Absent}
    BY <1>1, BackendPageIs
  <2>2. backendTable[backendPage.name] = backendPage.setting
    BY <1>1 DEF BackendsInv, PageInTable
  <2> QED
    BY <2>1, <2>2
<1>3. EmptyKnown'
  BY <1>1 DEF BackendsInv, EmptyKnown, Listed
<1>4. CASE backendPage' = Idle /\ torn' = torn \cup {b} /\ UNCHANGED backendMemory
  <2>1. PageInTable' /\ AckedInTable'
    BY <1>1, <1>4 DEF BackendsInv, PageInTable, AckedInTable
  <2>2. Follow'
    BY <1>1, <1>2, <1>4 DEF BackendsInv, backendMemory, Follow, Follows, Shown, InHand, SettingOf
  <2> QED
    BY <1>3, <2>1, <2>2 DEF BackendsInv
<1>5. CASE /\ ~Refused(b, setting)
           /\ manager' = [manager EXCEPT ![b] = Upserted(b, setting)]
           /\ disabled' = disabled \ {b}
           /\ cfgBackends' = [cfgBackends EXCEPT ![b] = setting]
           /\ backendPage' = [backendPage EXCEPT !.pc = "reload"]
           /\ torn' = torn \ {b}
  <2>1. /\ Upserted(b, setting) = Absent <=> setting = Absent
        /\ setting # Absent =>
             Upserted(b, setting).setting = setting /\ Upserted(b, setting).enabled = TRUE
    BY <1>2, <1>5, UpsertedTypes DEF Refused
  <2>2. backendPage'.name = b /\ backendPage'.setting = setting /\ backendPage'.pc = "reload"
        /\ backendPage' # Idle
    BY <1>1, <1>2, <1>5, BackendPageIs
  <2>3. manager'[b] = Upserted(b, setting) /\ cfgBackends'[b] = setting /\ b \notin disabled'
    BY <1>2, <1>5 DEF BackendTypes
  <2>4. \A c \in BackendNames \ {b} :
          manager'[c] = manager[c] /\ cfgBackends'[c] = cfgBackends[c]
          /\ (c \in disabled' <=> c \in disabled) /\ (c \in torn' <=> c \in torn)
    BY <1>5 DEF BackendTypes
  <2>5. PageInTable'
    BY <1>1, <1>2, <2>2 DEF PageInTable
  <2>6. AckedInTable'
    BY <1>1, <1>2, <2>2 DEF BackendsInv, AckedInTable
  <2>7. SettingOf(b)' = setting
    BY <2>1, <2>3 DEF SettingOf
  <2>8. Follows(b)' /\ Shown(b)'
    BY <1>1, <1>2, <2>1, <2>3, <2>7 DEF Follows, Shown
  <2>9. ASSUME NEW c \in BackendNames \ {b}, Follows(c), Shown(c) PROVE Follows(c)' /\ Shown(c)'
    BY <1>1, <1>2, <2>2, <2>4, <2>9 DEF Follows, Shown, InHand, SettingOf
  <2>10. Follow'
    BY <1>1, <2>4, <2>8, <2>9 DEF BackendsInv, Follow
  <2> QED
    BY <1>3, <2>5, <2>6, <2>10 DEF BackendsInv
<1> QED
  BY <1>2, <1>4, <1>5 DEF WriteBackendMemory

\* Reading the table again puts the list right, and drops from the disabled names
\* those that are no backends, which the manager does not have either.
LEMMA ReloadStep == BackendTypes /\ BackendsInv /\ ReloadBackends => BackendsInv'
<1> SUFFICES ASSUME BackendTypes, BackendsInv, ReloadBackends PROVE BackendsInv'
  OBVIOUS
<1>1. /\ UNCHANGED <<backendTable, manager, reloading, torn, emptied>>
      /\ phase = "serving" /\ phase' = "serving" /\ backendPage' = Idle
      /\ backendPage \in BackendPage /\ backendPage # Idle /\ backendPage.pc = "reload"
  BY DEF ReloadBackends, AtBackends, modelsUnchanged, BackendTypes
<1>2. PageInTable' /\ EmptyKnown'
  BY <1>1 DEF BackendsInv, PageInTable, EmptyKnown, Listed
<1>3. CASE UNCHANGED <<cfgBackends, disabled, acked>>
  BY <1>1, <1>2, <1>3 DEF BackendsInv, AckedInTable, Follow, Follows, Shown, InHand, SettingOf
<1>4. CASE /\ cfgBackends' = backendTable
           /\ disabled' = disabled \cap Listed(backendTable)
           /\ acked' = [acked EXCEPT ![backendPage.name] = backendPage.setting]
  <2>1. backendTable[backendPage.name] = backendPage.setting
    BY <1>1 DEF BackendsInv, PageInTable
  <2>2. AckedInTable'
    BY <1>1, <1>4, <2>1 DEF BackendsInv, BackendTypes, AckedInTable
  <2>3. ASSUME NEW b \in BackendNames, Follows(b), Shown(b) PROVE Follows(b)' /\ Shown(b)'
    <3>1. SettingOf(b) = backendTable[b]
      BY <1>1, <2>3 DEF Follows, InHand
    <3>2. ASSUME manager[b] # Absent PROVE b \in Listed(backendTable)
      <4>1. manager[b].setting # Absent
        BY <3>2, AdministrationAssumption DEF BackendTypes, Managed
      <4> QED
        BY <3>1, <3>2, <4>1 DEF SettingOf, Listed
    <3>3. Follows(b)'
      BY <1>1, <1>4, <3>1 DEF Follows, SettingOf
    <3>4. Shown(b)'
      BY <1>1, <1>4, <2>3, <3>2 DEF Shown
    <3> QED
      BY <3>3, <3>4
  <2>4. Follow'
    BY <1>1, <2>3 DEF BackendsInv, Follow
  <2> QED
    BY <1>2, <2>2, <2>4 DEF BackendsInv
<1> QED
  BY <1>3, <1>4 DEF ReloadBackends

\* The file is applied only after the table was found empty.
LEMMA FileStep == BackendsInv /\ (BeginReload \/ ApplyReload) => BackendsInv'
<1> SUFFICES ASSUME BackendsInv, BeginReload \/ ApplyReload PROVE BackendsInv'
  OBVIOUS
<1>1. CASE BeginReload
  <2>1. /\ UNCHANGED <<backendTable, cfgBackends, manager, disabled, backendPage, torn, emptied, acked>>
        /\ phase = "serving" /\ phase' = "serving" /\ Listed(backendTable) = {}
    BY <1>1 DEF BeginReload, MayApply, modelsUnchanged, backendMemory
  <2>2. PageInTable' /\ AckedInTable'
    BY <2>1 DEF BackendsInv, PageInTable, AckedInTable
  <2>3. emptied /\ emptied'
    BY <2>1 DEF BackendsInv, EmptyKnown
  <2> QED
    BY <2>2, <2>3 DEF BackendsInv, EmptyKnown, Follow
<1>2. CASE ApplyReload
  <2>1. /\ UNCHANGED <<backendTable, backendPage, emptied, acked>>
        /\ reloading
    BY <1>2 DEF ApplyReload
  <2>2. PageInTable' /\ AckedInTable'
    BY <2>1 DEF BackendsInv, PageInTable, AckedInTable
  <2>3. emptied /\ emptied'
    BY <2>1 DEF BackendsInv, EmptyKnown
  <2> QED
    BY <2>2, <2>3 DEF BackendsInv, EmptyKnown, Follow
<1> QED
  BY <1>1, <1>2

\* Every step keeps the backends together.
LEMMA BackendsStep == Quiet /\ BackendTypes /\ BackendsInv /\ [Next]_vars => BackendsInv'
<1> SUFFICES ASSUME Quiet, BackendTypes, BackendsInv, [Next]_vars PROVE BackendsInv'
  OBVIOUS
<1>1. CASE LoadCatalog \/ SeedCatalog \/ Discover \/ LoadPrices \/ ModelStep
  BY <1>1, BackendsAlone, BackendsKept
<1>2. CASE UNCHANGED vars
  <2>1. UNCHANGED backendState /\ UNCHANGED phase
    BY <1>2, StutterAlone
  <2> QED
    BY <2>1, BackendsKept
<1>3. CASE BackendStep
  BY <1>3, ToggleStep, BeginStep, WriteRowStep, WriteMemoryStep, ReloadStep DEF BackendStep
<1> QED
  BY <1>1, <1>2, <1>3, LoadBackendsStep, WireStep, EndStep, FileStep DEF Next, Start

-----------------------------------------------------------------------------
(* The models.                                                             *)

\* While a start goes well, its copies are those of the tables.
Built == phase \in {"prices", "wire"} => dashModels = ActiveCatalog(modelTable)
Priced == phase = "wire" => \A n \in DOMAIN dashModels : cfgPrices[n] = priceTable[n]
Copied ==
  phase = "serving" /\ modelPage = Idle =>
    /\ routed = ActiveCatalog(modelTable) /\ dashModels = routed
    /\ \A n \in DOMAIN routed : proxyPrices[n] = priceTable[n] /\ cfgPrices[n] = priceTable[n]
ModelsInv == ~tornModels => Built /\ Priced /\ Copied

\* While the page has a change in hand, or one was left half done, nothing is claimed.
LEMMA UnderWay == phase' = "serving" /\ (tornModels' = TRUE \/ modelPage' # Idle) => ModelsInv'
BY DEF ModelsInv, Built, Priced, Copied

\* Each step of the page leaves it with a change in hand or half done, but the last.
LEMMA ModelStepUnderWay ==
  ModelTypes /\ ModelStep =>
    \/ tornModels' = TRUE /\ exposed' = BackendNames
    \/ modelPage' # Idle
    \/ ReloadModels
<1> SUFFICES ASSUME ModelTypes, ModelStep
             PROVE  \/ tornModels' = TRUE /\ exposed' = BackendNames
                    \/ modelPage' # Idle
                    \/ ReloadModels
  OBVIOUS
<1>1. Idle \notin ModelPage
  BY AdministrationAssumption
<1>2. ASSUME NEW n \in ModelNames, NEW op \in {"save", "delete"}, NEW refs, ModelStored(op, n, refs)
      PROVE  (tornModels' = TRUE /\ exposed' = BackendNames) \/ modelPage' # Idle
  BY <1>2, StoredPage
<1>3. ASSUME WriteModelRow \/ WritePrices
      PROVE  (tornModels' = TRUE /\ exposed' = BackendNames) \/ modelPage' # Idle
  <2>1. modelPage \in ModelPage
    BY <1>3 DEF WriteModelRow, WritePrices, AtModels, ModelTypes
  <2> QED
    BY <1>3, <2>1, ModelPageIs DEF WriteModelRow, WritePrices, ModelsTorn
<1>4. ASSUME NEW n \in ModelNames, NEW refs \in Refs, BeginModel(n, refs) PROVE modelPage' # Idle
  BY <1>4, BegunPage
<1>5. ASSUME NEW price \in Prices \cup {NoPrice}, SaveModel(price)
      PROVE  (tornModels' = TRUE /\ exposed' = BackendNames) \/ modelPage' # Idle
  <2>1. modelPage.name \in ModelNames /\ ModelStored("save", modelPage.name, modelPage.refs)
    BY <1>5, FormIs DEF SaveModel
  <2> QED
    BY <1>2, <2>1
<1> QED
  BY <1>2, <1>3, <1>4, <1>5 DEF ModelStep, DeleteModel

\* The prices of models in use are stored as they are in memory.
LEMMA LoadPricesStep == ModelsInv /\ LoadPrices => ModelsInv'
<1> SUFFICES ASSUME ModelsInv, LoadPrices, ~tornModels' PROVE ModelsInv'
  BY DEF ModelsInv
<1>1. /\ UNCHANGED <<modelTable, dashModels, tornModels>>
      /\ phase = "prices" /\ phase' = "wire"
      /\ \/ cfgPrices' = YamlPrices /\ priceTable' = ReplaceModelPricing(modelTable, YamlPrices)
         \/ cfgPrices' = priceTable /\ priceTable' = priceTable
  BY DEF LoadPrices
<1>2. dashModels = ActiveCatalog(modelTable)
  BY <1>1 DEF ModelsInv, Built
<1>3. \A n \in DOMAIN dashModels : n \in ModelNames /\ modelTable[n] # NoModel
  BY <1>2 DEF ActiveCatalog
<1>4. Priced'
  BY <1>1, <1>3 DEF Priced, ReplaceModelPricing
<1> QED
  BY <1>1, <1>2, <1>4 DEF ModelsInv, Built, Copied

\* Every step keeps the models together.
LEMMA ModelsStep == ModelTypes /\ ModelsInv /\ [Next]_vars => ModelsInv'
<1> SUFFICES ASSUME ModelTypes, ModelsInv, [Next]_vars PROVE ModelsInv'
  OBVIOUS
<1>1. CASE phase' \in {"down", "catalog", "seed", "discover", "failed"}
  BY <1>1 DEF ModelsInv, Built, Priced, Copied
<1>2. CASE UNCHANGED <<modelState, phase>>
  BY <1>2 DEF modelState, ModelsInv, Built, Priced, Copied
<1>3. CASE Discover /\ phase' = "prices"
  BY <1>3 DEF Discover, ModelsInv, Built, Priced, Copied
<1>4. CASE LoadPrices
  BY <1>4, LoadPricesStep
<1>5. CASE Wire /\ phase' = "serving"
  <2>1. /\ UNCHANGED <<modelTable, priceTable, cfgPrices, dashModels, tornModels>>
        /\ phase = "wire" /\ routed' = dashModels /\ proxyPrices' = cfgPrices
    BY <1>5 DEF Wire, tables, history
  <2> QED
    BY <1>5, <2>1 DEF ModelsInv, Built, Priced, Copied
<1>6. CASE ModelStep /\ ~ReloadModels
  <2>1. phase' = "serving"
    BY <1>6 DEF ModelStep, BeginModel, SaveModel, DeleteModel, WriteModelRow, WritePrices, ReloadModels,
       AtModels, modelStepUnchanged, backendsUnchanged
  <2> QED
    BY <1>6, <2>1, ModelStepUnderWay, UnderWay
<1>7. CASE ReloadModels
  <2>1. UNCHANGED <<modelTable, priceTable>> /\ phase' = "serving"
    BY <1>7 DEF ReloadModels, AtModels, modelStepUnchanged, backendsUnchanged
  <2>2. CASE tornModels' = TRUE
    BY <2>1, <2>2, UnderWay
  <2>3. CASE /\ dashModels' = ActiveCatalog(modelTable) /\ RefreshCatalog(dashModels')
             /\ cfgPrices' = priceTable /\ proxyPrices' = cfgPrices'
    BY <2>1, <2>3 DEF RefreshCatalog, ModelsInv, Built, Priced, Copied
  <2> QED
    BY <1>7, <2>2, <2>3 DEF ReloadModels, ModelsTorn
<1>8. LoadBackends \/ LoadCatalog \/ SeedCatalog \/ End =>
        phase' \in {"down", "catalog", "seed", "discover", "failed"}
  BY DEF LoadBackends, LoadCatalog, SeedCatalog, End
<1>9. Discover \/ Wire => phase' \in {"failed", "prices", "serving"} /\ (Discover => phase' # "serving")
                        /\ (Wire => phase' # "prices")
  BY DEF Discover, Wire
<1>10. BackendStep \/ BeginReload \/ ApplyReload \/ UNCHANGED vars => UNCHANGED <<modelState, phase>>
  BY ModelsAlone, StutterAlone
<1> QED
  BY <1>1, <1>2, <1>3, <1>4, <1>5, <1>6, <1>7, <1>8, <1>9, <1>10 DEF Next, Start

-----------------------------------------------------------------------------
(* References.                                                             *)

\* The backends a model may refer to, and the page's removal of one.
There == Listed(backendTable) \cup exposed
Removing(b, pc) ==
  backendPage # Idle /\ backendPage.name = b /\ backendPage.setting = Absent /\ backendPage.pc = pc
Clear(catalog, b) == \A n \in DOMAIN catalog : b \notin catalog[n]

TableRefers == RefsIn(ActiveCatalog(modelTable), There)
PageRefers == phase = "serving" => RefsIn(dashModels, There)

\* What the page offers as backends is in the table, or has just left it.
ListInTable ==
  phase # "down" => \A b \in Listed(cfgBackends) : b \in There \/ Removing(b, "memory")

\* No model is sent to a backend that is about to be removed.
Unreferenced ==
  \A b \in BackendNames \ exposed :
    Removing(b, "table") => Clear(dashModels, b) /\ Clear(ActiveCatalog(modelTable), b)

\* The page's catalog and the table differ at most in the model being changed.
BeingWritten(n) == modelPage # Idle /\ modelPage.name = n /\ modelPage.pc = "table"
SameModel(n) ==
  /\ n \in DOMAIN dashModels <=> n \in DOMAIN ActiveCatalog(modelTable)
  /\ n \in DOMAIN dashModels => dashModels[n] = ActiveCatalog(modelTable)[n]
PageIsTable ==
  phase = "serving" =>
    \A n \in ModelNames :
      /\ ~BeingWritten(n) => SameModel(n)
      /\ BeingWritten(n) /\ modelPage.op = "delete" => n \notin DOMAIN dashModels

Exposing == exposed \in SUBSET BackendNames /\ (tornModels => exposed = BackendNames)
Sound == TableRefers /\ ListInTable /\ PageRefers /\ Unreferenced
RefsInv == Exposing /\ Sound /\ (~tornModels => PageIsTable)

\* A catalog that refers to a set refers to any larger one.
LEMMA RefersToMore ==
  ASSUME NEW catalog, NEW S, NEW T, S \subseteq T, RefsIn(catalog, S)
  PROVE  RefsIn(catalog, T)
BY DEF RefsIn

\* What is excused once stays so, and after a half-done change of a model all is.
LEMMA ExposingStep ==
  BackendTypes /\ Exposing /\ [Next]_vars => Exposing' /\ exposed \subseteq exposed'
<1> SUFFICES ASSUME BackendTypes, Exposing, [Next]_vars
             PROVE  Exposing' /\ exposed \subseteq exposed'
  OBVIOUS
<1>1. CASE LoadBackends
  <2>1. UNCHANGED tornModels /\ torn' \in SUBSET BackendNames
    BY <1>1 DEF LoadBackends
  <2>2. exposed' = exposed \cup torn' \cup (IF emptied' THEN Listed(FromYaml) ELSE {})
    BY <1>1 DEF LoadBackends
  <2> QED
    BY <2>1, <2>2 DEF Exposing, Listed
<1>2. CASE LoadCatalog \/ SeedCatalog
  <2>1. UNCHANGED tornModels
    BY <1>2 DEF LoadCatalog, SeedCatalog
  <2>2. exposed' = exposed \/ exposed' = exposed \cup (Listed(FromYaml) \ Listed(backendTable))
    BY <1>2 DEF LoadCatalog, SeedCatalog
  <2>3. Listed(FromYaml) \subseteq BackendNames
    BY DEF Listed
  <2> QED
    BY <2>1, <2>2, <2>3 DEF Exposing
<1>3. CASE Discover
  <2>1. exposed' = IF tornModels' THEN BackendNames ELSE exposed
    BY <1>3 DEF Discover
  <2> QED
    BY <2>1 DEF Exposing
<1>4. CASE LoadPrices
  <2>1. UNCHANGED <<tornModels, exposed>> \/ (tornModels' = TRUE /\ exposed' = BackendNames)
    BY <1>4 DEF LoadPrices
  <2> QED
    BY <2>1 DEF Exposing
<1>5. CASE Wire \/ End \/ UNCHANGED vars
  BY <1>5 DEF Wire, End, history, vars, Exposing
<1>6. CASE BackendStep
  <2>1. UNCHANGED tornModels
    BY <1>6, ModelsAlone DEF modelState
  <2>2. ASSUME NEW b \in BackendNames, NEW setting \in Settings \cup {Absent}, BeginBackend(b, setting)
        PROVE  \E c \in BackendNames : exposed' \in {exposed, exposed \cup {c}}
    BY <2>2 DEF BeginBackend
  <2>3. ASSUME WriteBackendMemory
        PROVE  \E c \in BackendNames : exposed' \in {exposed, exposed \cup {c}}
    <3>1. backendPage.name \in BackendNames
      BY <2>3, BackendPageIs DEF WriteBackendMemory, AtBackends, BackendTypes
    <3>2. exposed' \in {exposed, exposed \cup {backendPage.name}}
      BY <2>3 DEF WriteBackendMemory
    <3> QED
      BY <3>1, <3>2
  <2>4. ASSUME NEW b \in BackendNames, ToggleBackend(b) PROVE UNCHANGED exposed
    BY <2>4 DEF ToggleBackend
  <2>5. WriteBackendRow \/ ReloadBackends => UNCHANGED exposed
    BY DEF WriteBackendRow, ReloadBackends
  <2>6. exposed' = exposed \/ \E c \in BackendNames : exposed' \in {exposed, exposed \cup {c}}
    BY <1>6, <2>2, <2>3, <2>4, <2>5 DEF BackendStep
  <2> QED
    BY <2>1, <2>6 DEF Exposing
<1>7. CASE BeginReload \/ ApplyReload
  BY <1>7 DEF BeginReload, ApplyReload, modelsUnchanged, Exposing
<1>8. CASE ModelStep
  <2>1. Leaving \subseteq BackendNames
    BY DEF Leaving
  <2>2. ASSUME NEW op, NEW n, NEW refs, ModelStored(op, n, refs)
        PROVE  Exposing' /\ exposed \subseteq exposed'
    <3>1. \/ tornModels' = TRUE /\ exposed' = BackendNames
          \/ UNCHANGED tornModels /\ exposed' = exposed \cup (Leaving \cap refs)
      BY <2>2 DEF ModelStored
    <3> QED
      BY <2>1, <3>1 DEF Exposing
  <2>3. ASSUME WriteModelRow \/ WritePrices \/ ReloadModels
        PROVE  Exposing' /\ exposed \subseteq exposed'
    <3>1. \/ tornModels' = TRUE /\ exposed' = BackendNames
          \/ UNCHANGED exposed /\ (tornModels' => tornModels)
      BY <2>3 DEF WriteModelRow, WritePrices, ReloadModels, ModelsTorn
    <3> QED
      BY <3>1 DEF Exposing
  <2>4. ASSUME NEW n \in ModelNames, NEW refs \in Refs, BeginModel(n, refs)
        PROVE  Exposing' /\ exposed \subseteq exposed'
    BY <2>4, BegunPage DEF Exposing
  <2>5. ASSUME NEW price \in Prices \cup {NoPrice}, SaveModel(price)
        PROVE  Exposing' /\ exposed \subseteq exposed'
    <3>1. ModelStored("save", modelPage.name, modelPage.refs)
      BY <2>5 DEF SaveModel
    <3> QED
      BY <2>2, <3>1
  <2>6. ASSUME NEW n \in ModelNames, DeleteModel(n) PROVE Exposing' /\ exposed \subseteq exposed'
    <3>1. ModelStored("delete", n, {})
      BY <2>6 DEF DeleteModel
    <3> QED
      BY <2>2, <3>1
  <2> QED
    BY <1>8, <2>2, <2>3, <2>4, <2>5, <2>6 DEF ModelStep
<1> QED
  BY <1>1, <1>2, <1>3, <1>4, <1>5, <1>6, <1>7, <1>8 DEF Next, Start

\* The page's catalog is the table's when the gateway begins to serve, and again when
\* the page has read it; a change differs from it in its own model until it is stored.
LEMMA PageIsTableStep ==
  Quiet /\ ModelTypes /\ ModelsInv /\ (~tornModels => PageIsTable) /\ [Next]_vars =>
    (~tornModels' => PageIsTable')
<1> SUFFICES ASSUME Quiet, ModelTypes, ModelsInv, ~tornModels => PageIsTable, [Next]_vars,
                    ~tornModels'
             PROVE  PageIsTable'
  OBVIOUS
<1>1. CASE phase' # "serving"
  BY <1>1 DEF PageIsTable
<1>2. CASE UNCHANGED <<modelState, phase>>
  BY <1>2 DEF modelState, PageIsTable, BeingWritten, SameModel
<1>3. CASE Wire /\ phase' = "serving"
  <2>1. UNCHANGED <<modelTable, dashModels, modelPage, tornModels>> /\ phase = "wire" /\ modelPage = Idle
    BY <1>3 DEF Wire, tables, history, Quiet
  <2>2. dashModels = ActiveCatalog(modelTable)
    BY <2>1 DEF ModelsInv, Built
  <2> QED
    BY <2>1, <2>2 DEF PageIsTable, BeingWritten, SameModel
<1>4. ASSUME NEW n \in ModelNames, NEW op \in {"save", "delete"}, NEW refs,
             phase = "serving", modelPage = Idle \/ modelPage.pc = "store", UNCHANGED modelTable,
             ModelStored(op, n, refs),
             \A m \in ModelNames \ {n} :
               /\ m \in DOMAIN dashModels' <=> m \in DOMAIN dashModels
               /\ m \in DOMAIN dashModels => dashModels'[m] = dashModels[m],
             op = "delete" => n \notin DOMAIN dashModels'
      PROVE  PageIsTable'
  <2>1. UNCHANGED tornModels /\ modelPage' # Idle
    BY <1>4, StoredPage
  <2>2. modelPage'.name = n /\ modelPage'.op = op /\ modelPage'.pc = "table"
    BY <1>4, StoredPage
  <2>5. \A m \in ModelNames : SameModel(m)
    BY <1>4, <2>1 DEF PageIsTable, BeingWritten
  <2>6. \A m \in ModelNames : BeingWritten(m)' <=> m = n
    BY <2>1, <2>2 DEF BeingWritten
  <2>7. ASSUME NEW m \in ModelNames \ {n} PROVE SameModel(m)'
    BY <1>4, <2>5 DEF SameModel
  <2> QED
    BY <1>4, <2>2, <2>6, <2>7 DEF PageIsTable
<1>5. ASSUME NEW price \in Prices \cup {NoPrice}, SaveModel(price) PROVE PageIsTable'
  <2> DEFINE n == modelPage.name
  <2>1. /\ phase = "serving" /\ modelPage.pc = "store" /\ UNCHANGED modelTable
        /\ ModelStored("save", n, modelPage.refs)
        /\ dashModels' = [m \in DOMAIN dashModels \cup {n} |->
                           IF m = n THEN modelPage.refs ELSE dashModels[m]]
    BY <1>5 DEF SaveModel, AtModels
  <2>2. n \in ModelNames
    BY <1>5, FormIs
  <2> QED
    BY <1>4, <2>1, <2>2
<1>12. ASSUME NEW n \in ModelNames, NEW refs \in Refs, BeginModel(n, refs) PROVE PageIsTable'
  <2>1. /\ UNCHANGED <<modelTable, dashModels, phase, tornModels>>
        /\ \A m \in ModelNames : ~BeingWritten(m) /\ ~BeingWritten(m)'
    BY <1>12, BegunPage DEF BeingWritten, modelMemory, backendsUnchanged
  <2> QED
    BY <2>1 DEF PageIsTable, SameModel
<1>6. ASSUME NEW n \in ModelNames, DeleteModel(n) PROVE PageIsTable'
  <2>1. /\ phase = "serving" /\ modelPage = Idle /\ UNCHANGED modelTable
        /\ ModelStored("delete", n, {})
        /\ dashModels' = [m \in DOMAIN dashModels \ {n} |-> dashModels[m]]
    BY <1>6 DEF DeleteModel
  <2> QED
    BY <1>4, <2>1
<1>7. CASE WriteModelRow
  <2> DEFINE n == modelPage.name
  <2>1. /\ UNCHANGED <<dashModels, phase, tornModels>> /\ modelPage \in ModelPage /\ n \in ModelNames
        /\ modelPage # Idle /\ modelPage.pc = "table" /\ phase = "serving"
        /\ modelPage' = [modelPage EXCEPT !.pc = "prices"]
        /\ modelTable' = IF modelPage.op = "save" THEN UpsertModel(modelTable, n, dashModels[n])
                         ELSE DeactivateModel(modelTable, n)
        /\ modelPage.op = "save" \/ modelTable[n] # NoModel
    BY <1>7, ModelPageIs DEF WriteModelRow, ModelsTorn, modelStepUnchanged, backendsUnchanged,
       modelMemory, AtModels, ModelTypes
  <2>2. modelPage'.pc = "prices"
    BY <2>1 DEF ModelPage
  <2>3. \A m \in ModelNames : ~BeingWritten(m)'
    BY <2>2 DEF BeingWritten
  <2>4. modelTable \in ModelTable /\ modelPage.op \in {"save", "delete"}
    BY <2>1, ModelPageIs DEF ModelTypes
  <2>5. ASSUME NEW m \in ModelNames \ {n} PROVE SameModel(m)'
    <3>1. SameModel(m)
      BY <2>1 DEF PageIsTable, BeingWritten
    <3>2. modelTable'[m] = modelTable[m]
      BY <2>1, <2>4 DEF UpsertModel, DeactivateModel, ModelTable
    <3> QED
      BY <2>1, <3>1, <3>2 DEF SameModel, ActiveCatalog
  <2>6. SameModel(n)'
    <3>1. CASE modelPage.op = "save"
      <4>1. n \in DOMAIN dashModels
        BY <2>1, <3>1 DEF ModelTypes, SavedIsThere
      <4>2. modelTable'[n] = [active |-> TRUE, refs |-> dashModels[n]]
        BY <2>1, <2>4, <3>1 DEF UpsertModel, ModelTable
      <4>3. dashModels[n] \in Refs
        BY <4>1, CatalogIs DEF ModelTypes
      <4>4. [active |-> TRUE, refs |-> dashModels[n]] \in ModelRow /\ NoModel \notin ModelRow
        BY <4>3, AdministrationAssumption DEF ModelRow
      <4>5. modelTable'[n].active /\ modelTable'[n].refs = dashModels[n] /\ modelTable'[n] # NoModel
        <5>1. modelTable'[n].active /\ modelTable'[n].refs = dashModels[n]
          BY <4>2
        <5>2. modelTable'[n] # NoModel
          BY <4>2, <4>4, Zenon
        <5> QED
          BY <5>1, <5>2
      <4>6. n \in DOMAIN ActiveCatalog(modelTable)' /\ ActiveCatalog(modelTable)'[n] = dashModels[n]
        BY <2>1, <4>5 DEF ActiveCatalog
      <4> QED
        BY <2>1, <4>1, <4>6 DEF SameModel
    <3>2. CASE modelPage.op = "delete"
      <4>1. n \notin DOMAIN dashModels
        BY <2>1, <3>2 DEF PageIsTable, BeingWritten
      <4>2. modelTable[n] \in ModelRow
        BY <2>1, <2>4, <3>2 DEF ModelTable
      <4>3. modelTable'[n] = [modelTable[n] EXCEPT !.active = FALSE]
        BY <2>1, <2>4, <3>2 DEF DeactivateModel, ModelTable
      <4>4. modelTable'[n].active = FALSE
        BY <4>2, <4>3 DEF ModelRow
      <4>5. n \notin DOMAIN ActiveCatalog(modelTable)'
        BY <4>4 DEF ActiveCatalog
      <4> QED
        BY <2>1, <4>1, <4>5 DEF SameModel
    <3> QED
      BY <2>4, <3>1, <3>2
  <2> QED
    BY <2>1, <2>3, <2>5, <2>6 DEF PageIsTable
<1>8. CASE WritePrices
  <2>1. /\ UNCHANGED <<modelTable, dashModels, phase, tornModels>> /\ modelPage \in ModelPage
        /\ modelPage.pc = "prices" /\ modelPage' = [modelPage EXCEPT !.pc = "reload"]
    BY <1>8 DEF WritePrices, ModelsTorn, modelStepUnchanged, backendsUnchanged, modelMemory,
       AtModels, ModelTypes
  <2>2. modelPage'.pc = "reload"
    BY <2>1 DEF ModelPage
  <2>3. \A n \in ModelNames : ~BeingWritten(n) /\ ~BeingWritten(n)'
    BY <2>1, <2>2 DEF BeingWritten
  <2> QED
    BY <2>1, <2>3 DEF PageIsTable, SameModel
<1>9. CASE ReloadModels
  <2>1. UNCHANGED modelTable /\ modelPage' = Idle /\ dashModels' = ActiveCatalog(modelTable)
    BY <1>9 DEF ReloadModels, ModelsTorn
  <2> QED
    BY <2>1 DEF PageIsTable, BeingWritten, SameModel
<1>10. LoadBackends \/ LoadCatalog \/ SeedCatalog \/ Discover \/ LoadPrices \/ End => phase' # "serving"
  BY DEF LoadBackends, LoadCatalog, SeedCatalog, Discover, LoadPrices, End
<1>11. BackendStep \/ BeginReload \/ ApplyReload \/ UNCHANGED vars => UNCHANGED <<modelState, phase>>
  BY ModelsAlone, StutterAlone
<1> QED
  BY <1>1, <1>2, <1>3, <1>5, <1>6, <1>7, <1>8, <1>9, <1>10, <1>11, <1>12 DEF Next, Start, ModelStep

\* A start reads the list from the table; what it seeds refers to the file's
\* backends, what it discovers to those of the list.
LEMMA StartRefers ==
  Quiet /\ BackendTypes /\ ModelTypes /\ ModelsInv /\ RefsInv /\ Start => Sound'
<1> SUFFICES ASSUME Quiet, BackendTypes, ModelTypes, ModelsInv, RefsInv, Start, [Next]_vars
             PROVE  Sound'
  BY DEF Next
<1>1. exposed \subseteq exposed' /\ exposed' \in SUBSET BackendNames /\ Sound
  BY ExposingStep DEF RefsInv, Exposing
<1>2. phase # "serving" /\ backendPage = Idle /\ backendPage' = Idle
  BY DEF Start, LoadBackends, LoadCatalog, SeedCatalog, Discover, LoadPrices, Wire, Quiet,
     startUnchanged
<1>3. Unreferenced'
  BY <1>2 DEF Unreferenced, Removing
<1>4. ASSUME phase # "down" PROVE Listed(cfgBackends) \subseteq There
  BY <1>1, <1>2, <1>4 DEF Sound, ListInTable, Removing
<1>5. CASE LoadBackends
  <2>1. /\ phase' = "catalog" /\ UNCHANGED modelTable
        /\ \A b \in BackendNames : cfgBackends'[b] # backendTable'[b] /\ cfgBackends'[b] # Absent
                                     => b \in exposed'
    BY <1>5 DEF LoadBackends, StartList, Listed
  <2>2. Listed(backendTable) = {} \/ UNCHANGED backendTable
    BY <1>5 DEF LoadBackends, SeedBackends
  <2>3. There \subseteq There'
    BY <1>1, <2>2 DEF There, Listed
  <2>4. TableRefers'
    BY <1>1, <2>1, <2>3, RefersToMore DEF Sound, TableRefers
  <2>5. ListInTable'
    BY <2>1 DEF ListInTable, Listed, There
  <2> QED
    BY <1>3, <2>1, <2>4, <2>5 DEF Sound, PageRefers
<1>6. ASSUME UNCHANGED <<backendTable, cfgBackends>>, phase # "down", phase' # "serving",
             RefsIn(ActiveCatalog(modelTable'), There')
      PROVE  Sound'
  <2>1. TableRefers' /\ PageRefers'
    BY <1>6 DEF TableRefers, PageRefers
  <2>2. ListInTable'
    BY <1>1, <1>4, <1>6 DEF ListInTable, There, Listed
  <2> QED
    BY <1>3, <2>1, <2>2 DEF Sound
<1>7. ASSUME UNCHANGED backendTable PROVE There \subseteq There'
  BY <1>1, <1>7 DEF There, Listed
<1>8. ASSUME UNCHANGED <<backendTable, modelTable>>
      PROVE  RefsIn(ActiveCatalog(modelTable'), There')
  BY <1>1, <1>7, <1>8, RefersToMore DEF Sound, TableRefers
<1>9. CASE LoadCatalog
  BY <1>6, <1>8, <1>9 DEF LoadCatalog, startUnchanged, backendMemory
<1>10. CASE SeedCatalog
  <2>1. UNCHANGED <<backendTable, cfgBackends>> /\ phase = "seed" /\ phase' = "discover"
    BY <1>10 DEF SeedCatalog, startUnchanged, backendMemory
  <2>2. CASE UNCHANGED modelTable
    BY <1>6, <1>8, <2>1, <2>2
  <2>3. CASE /\ modelTable' = SyncDiscoveredCatalog(modelTable, YamlModels)
             /\ exposed' = exposed \cup (Listed(FromYaml) \ Listed(backendTable))
    <3>1. YamlModels \in Catalog /\ RefsIn(YamlModels, YamlNames)
      BY AdministrationAssumption DEF RefsIn, YamlNames
    <3>2. RefsIn(ActiveCatalog(modelTable'), YamlNames)
      BY <2>3, <3>1, SyncedTable DEF ModelTypes
    <3>3. Listed(FromYaml) = YamlNames
      BY FileIs
    <3>4. YamlNames \subseteq There'
      BY <2>1, <2>3, <3>3 DEF There, Listed
    <3> QED
      BY <1>6, <2>1, <3>2, <3>4, RefersToMore
  <2> QED
    BY <1>10, <2>2, <2>3 DEF SeedCatalog
<1>11. CASE Discover
  <2>1. UNCHANGED <<backendTable, cfgBackends>> /\ phase = "discover" /\ phase' # "serving"
    BY <1>11 DEF Discover, startUnchanged, backendMemory
  <2>2. \/ UNCHANGED modelTable
        \/ \E report \in [Listed(cfgBackends) -> (SUBSET ModelNames) \cup {Unreachable}] :
             modelTable' = SyncDiscoveredCatalog(modelTable, DiscoverCatalog(report))
    BY <1>11 DEF Discover
  <2>3. CASE UNCHANGED modelTable
    BY <1>6, <1>8, <2>1, <2>3
  <2>4. ASSUME NEW report \in [Listed(cfgBackends) -> (SUBSET ModelNames) \cup {Unreachable}],
               modelTable' = SyncDiscoveredCatalog(modelTable, DiscoverCatalog(report))
        PROVE  Sound'
    <3>1. RefsIn(ActiveCatalog(modelTable'), Listed(cfgBackends))
      BY <2>4, DiscoveredTable
    <3>2. Listed(cfgBackends) \subseteq There'
      BY <1>4, <1>7, <2>1
    <3> QED
      BY <1>6, <2>1, <3>1, <3>2, RefersToMore
  <2> QED
    BY <2>2, <2>3, <2>4
<1>12. CASE LoadPrices
  BY <1>6, <1>8, <1>12 DEF LoadPrices, startUnchanged, backendMemory
<1>13. CASE Wire
  <2>1. /\ UNCHANGED <<backendTable, cfgBackends, modelTable, dashModels, exposed, tornModels>>
        /\ phase = "wire"
    BY <1>13 DEF Wire, tables, history
  <2>2. There' = There
    BY <2>1 DEF There, Listed
  <2>3. TableRefers'
    BY <1>1, <2>1, <2>2 DEF Sound, TableRefers
  <2>4. PageRefers'
    <3>1. CASE tornModels
      <4>1. BackendNames \subseteq There
        BY <3>1 DEF RefsInv, Exposing, There
      <4>2. RefsIn(dashModels, BackendNames)
        BY CatalogIs DEF ModelTypes, RefsIn, Refs
      <4> QED
        BY <2>1, <2>2, <4>1, <4>2, RefersToMore DEF PageRefers
    <3>2. CASE ~tornModels
      <4>1. dashModels = ActiveCatalog(modelTable)
        BY <2>1, <3>2 DEF ModelsInv, Built
      <4> QED
        BY <1>1, <2>1, <2>2, <4>1 DEF Sound, TableRefers, PageRefers
    <3> QED
      BY <3>1, <3>2
  <2>5. ListInTable'
    BY <1>4, <2>1, <2>2 DEF ListInTable, Listed
  <2> QED
    BY <1>3, <2>3, <2>4, <2>5 DEF Sound
<1> QED
  BY <1>5, <1>9, <1>10, <1>11, <1>12, <1>13 DEF Start

\* The backend page removes only what no model in use refers to.  Its catalog says so
\* for all models but the one that the model page is changing, whose row counts.
LEMMA BackendStepRefers ==
  BackendTypes /\ ModelTypes /\ BackendsInv /\ RefsInv /\ BackendStep => Sound'
<1> SUFFICES ASSUME BackendTypes, ModelTypes, BackendsInv, RefsInv, BackendStep, [Next]_vars
             PROVE  Sound'
  BY DEF Next
<1>1. Exposing' /\ exposed \subseteq exposed' /\ Sound /\ Exposing /\ (~tornModels => PageIsTable)
  BY ExposingStep DEF RefsInv
<1>2. UNCHANGED <<modelTable, dashModels, modelPage, tornModels>>
      /\ phase = "serving" /\ phase' = "serving"
  BY ModelsAlone DEF modelState
<1>3. ASSUME There \subseteq There' PROVE TableRefers' /\ PageRefers'
  BY <1>1, <1>2, <1>3, RefersToMore DEF Sound, TableRefers, PageRefers
<1>4. ASSUME UNCHANGED backendTable PROVE There \subseteq There'
  BY <1>1, <1>4 DEF There, Listed
<1>5. ASSUME NEW b \in BackendNames, ToggleBackend(b) PROVE Sound'
  <2>1. UNCHANGED <<backendTable, cfgBackends, backendPage>>
    BY <1>5 DEF ToggleBackend
  <2> QED
    BY <1>1, <1>2, <1>3, <1>4, <2>1 DEF Sound, ListInTable, Listed, Removing, Unreferenced
<1>6. ASSUME NEW b \in BackendNames, NEW setting \in Settings \cup {Absent}, BeginBackend(b, setting)
      PROVE  Sound'
  <2>1. /\ UNCHANGED <<backendTable, cfgBackends>> /\ backendPage = Idle
        /\ backendPage' = [pc |-> "table", name |-> b, setting |-> setting]
        /\ setting = Absent => Referencing(b) = {}
        /\ setting = Absent /\ b \in Unwritten => b \in exposed'
    BY <1>6 DEF BeginBackend, backendMemory
  <2>2. backendPage'.pc = "table" /\ backendPage'.name = b /\ backendPage'.setting = setting
    BY <2>1
  <2>3. \A c \in BackendNames : Removing(c, "table")' => c = b /\ setting = Absent
    BY <2>2 DEF Removing
  <2>4. ListInTable'
    BY <1>1, <1>2, <1>4, <2>1 DEF Sound, ListInTable, Listed, Removing
  <2>5. ASSUME setting = Absent, b \notin exposed'
        PROVE  Clear(dashModels, b) /\ Clear(ActiveCatalog(modelTable), b)
    <3>1. Clear(dashModels, b) /\ b \notin Unwritten
      BY <2>1, <2>5 DEF Referencing, Clear
    <3>2. PageIsTable
      BY <1>1, <1>2, <2>5 DEF Exposing
    <3>3. ASSUME NEW n \in DOMAIN ActiveCatalog(modelTable)
          PROVE  b \notin ActiveCatalog(modelTable)[n]
      <4>1. n \in ModelNames /\ ActiveCatalog(modelTable)[n] = modelTable[n].refs
        BY DEF ActiveCatalog
      <4>2. CASE BeingWritten(n)
        BY <3>1, <4>1, <4>2 DEF Unwritten, BeingWritten
      <4>3. CASE ~BeingWritten(n)
        BY <1>2, <3>1, <3>2, <4>1, <4>3 DEF PageIsTable, SameModel, Clear
      <4> QED
        BY <4>2, <4>3
    <3> QED
      BY <3>1, <3>3 DEF Clear
  <2>6. Unreferenced'
    BY <1>2, <2>3, <2>5 DEF Unreferenced
  <2> QED
    BY <1>3, <1>4, <2>1, <2>4, <2>6 DEF Sound
<1>7. CASE WriteBackendRow
  <2>1. /\ UNCHANGED <<cfgBackends, exposed>>
        /\ backendPage \in BackendPage /\ backendPage # Idle /\ backendPage.pc = "table"
    BY <1>7 DEF WriteBackendRow, AtBackends, backendMemory, BackendTypes
  <2>2. CASE backendPage' = Idle /\ UNCHANGED backendTable
    <3>1. Unreferenced'
      BY <2>2 DEF Unreferenced, Removing
    <3>2. ListInTable'
      BY <1>1, <1>2, <2>1, <2>2 DEF Sound, ListInTable, Listed, Removing, There
    <3> QED
      BY <1>3, <1>4, <2>2, <3>1, <3>2 DEF Sound
  <2>3. CASE /\ backendTable' = [backendTable EXCEPT ![backendPage.name] = backendPage.setting]
             /\ backendPage' = [backendPage EXCEPT !.pc = "memory"]
    <3>1. PICK b \in BackendNames : b = backendPage.name
      BY <2>1, BackendPageIs
    <3>2. /\ backendPage'.name = b /\ backendPage'.pc = "memory" /\ backendPage' # Idle
          /\ backendPage'.setting = backendPage.setting
      BY <2>1, <2>3, <3>1, BackendPageIs
    <3>3. /\ backendTable'[b] = backendPage.setting
          /\ \A c \in BackendNames \ {b} : backendTable'[c] = backendTable[c]
      BY <2>3, <3>1 DEF BackendTypes
    <3>4. \A c \in There : c # b => c \in There'
      BY <2>1, <3>3 DEF There, Listed
    <3>5. Unreferenced'
      BY <3>2 DEF Unreferenced, Removing
    <3>6. CASE backendPage.setting # Absent
      <4>1. There \subseteq There'
        BY <3>1, <3>3, <3>4, <3>6 DEF There, Listed
      <4>2. ListInTable'
        BY <1>1, <1>2, <2>1, <4>1 DEF Sound, ListInTable, Listed, Removing
      <4> QED
        BY <1>3, <3>5, <4>1, <4>2 DEF Sound
    <3>7. CASE backendPage.setting = Absent
      <4>1. Removing(b, "table") /\ Removing(b, "memory")'
        BY <2>1, <3>1, <3>2, <3>7 DEF Removing
      <4>2. ListInTable'
        BY <1>1, <1>2, <2>1, <3>4, <4>1 DEF Sound, ListInTable, Listed, Removing
      <4>3. b \in There' \/ (Clear(dashModels, b) /\ Clear(ActiveCatalog(modelTable), b))
        BY <1>1, <2>1, <4>1 DEF Sound, Unreferenced, There
      <4>4. TableRefers'
        BY <1>1, <1>2, <3>4, <4>3 DEF Sound, TableRefers, RefsIn, Clear
      <4>5. PageRefers'
        BY <1>1, <1>2, <3>4, <4>3 DEF Sound, PageRefers, RefsIn, Clear
      <4> QED
        BY <3>5, <4>2, <4>4, <4>5 DEF Sound
    <3> QED
      BY <3>6, <3>7
  <2> QED
    BY <1>7, <2>2, <2>3 DEF WriteBackendRow
<1>8. CASE WriteBackendMemory
  <2>1. /\ UNCHANGED backendTable
        /\ backendPage \in BackendPage /\ backendPage # Idle /\ backendPage.pc = "memory"
    BY <1>8 DEF WriteBackendMemory, AtBackends, BackendTypes
  <2>2. PICK b \in BackendNames : b = backendPage.name
    BY <2>1, BackendPageIs
  <2>3. backendTable[b] = backendPage.setting
    BY <2>1, <2>2 DEF BackendsInv, PageInTable
  <2>4. \A c \in BackendNames : ~Removing(c, "table")'
    <3>1. backendPage' = Idle \/ backendPage' = [backendPage EXCEPT !.pc = "reload"]
      BY <1>8 DEF WriteBackendMemory
    <3>2. backendPage' = Idle \/ backendPage'.pc = "reload"
      BY <2>1, <3>1 DEF BackendPage
    <3> QED
      BY <3>2 DEF Removing
  <2>5. Unreferenced'
    BY <2>4 DEF Unreferenced
  <2>6. CASE UNCHANGED cfgBackends /\ (backendPage.setting = Absent => b \in exposed')
    <3>1. ASSUME NEW c \in Listed(cfgBackends) PROVE c \in There'
      <4>1. c \in There \/ Removing(c, "memory")
        BY <1>1, <1>2 DEF Sound, ListInTable
      <4>2. Removing(c, "memory") => c = b /\ b \in exposed'
        BY <2>2, <2>6 DEF Removing
      <4> QED
        BY <1>4, <2>1, <4>1, <4>2 DEF There
    <3>2. ListInTable'
      BY <2>6, <3>1 DEF ListInTable, Listed
    <3> QED
      BY <1>3, <1>4, <2>1, <2>5, <3>2 DEF Sound
  <2>7. CASE cfgBackends' = [cfgBackends EXCEPT ![backendPage.name] = backendPage.setting]
    <3>1. /\ cfgBackends'[b] = backendPage.setting
          /\ \A c \in BackendNames \ {b} : cfgBackends'[c] = cfgBackends[c]
      BY <2>2, <2>7 DEF BackendTypes
    <3>2. ASSUME NEW c \in BackendNames, cfgBackends'[c] # Absent PROVE c \in There'
      <4>1. CASE c = b
        BY <1>4, <2>1, <2>3, <3>1, <3>2, <4>1 DEF There, Listed
      <4>2. CASE c # b
        <5>1. c \in There
          BY <1>1, <1>2, <2>2, <3>1, <3>2, <4>2 DEF Sound, ListInTable, Listed, Removing
        <5> QED
          BY <1>4, <2>1, <5>1
      <4> QED
        BY <4>1, <4>2
    <3>3. ListInTable'
      BY <3>2 DEF ListInTable, Listed
    <3> QED
      BY <1>3, <1>4, <2>1, <2>5, <3>3 DEF Sound
  <2> QED
    BY <1>8, <2>2, <2>6, <2>7 DEF WriteBackendMemory, backendMemory
<1>9. CASE ReloadBackends
  <2>1. /\ UNCHANGED backendTable /\ backendPage' = Idle /\ backendPage.pc = "reload"
        /\ cfgBackends' \in {cfgBackends, backendTable}
    BY <1>9 DEF ReloadBackends, AtBackends
  <2>2. Unreferenced'
    BY <2>1 DEF Unreferenced, Removing
  <2>3. ListInTable'
    BY <1>1, <1>2, <1>4, <2>1 DEF Sound, ListInTable, Listed, Removing, There
  <2> QED
    BY <1>3, <1>4, <2>1, <2>2, <2>3 DEF Sound
<1> QED
  BY <1>5, <1>6, <1>7, <1>8, <1>9 DEF BackendStep

\* The model page refers to backends that the list had, and exposes those among them
\* that are leaving when it stores them; it writes what it has put in memory.
LEMMA ModelStepRefers ==
  BackendTypes /\ ModelTypes /\ RefsInv /\ ModelStep => Sound'
<1> SUFFICES ASSUME BackendTypes, ModelTypes, RefsInv, ModelStep, [Next]_vars PROVE Sound'
  BY DEF Next
<1>1. Exposing' /\ exposed \subseteq exposed' /\ Sound
  BY ExposingStep DEF RefsInv
<1>2. /\ UNCHANGED <<backendTable, cfgBackends, backendPage>>
      /\ phase = "serving" /\ phase' = "serving"
  <2>1. UNCHANGED backendState
    BY BackendsAlone
  <2>2. phase = "serving" /\ phase' = "serving"
    BY DEF ModelStep, BeginModel, SaveModel, DeleteModel, WriteModelRow, WritePrices, ReloadModels, AtModels,
       modelStepUnchanged, backendsUnchanged
  <2> QED
    BY <2>1, <2>2 DEF backendState
<1>3. There \subseteq There'
  BY <1>1, <1>2 DEF There, Listed
<1>4. ListInTable'
  BY <1>1, <1>2, <1>3 DEF Sound, ListInTable, Listed, Removing
<1>5. /\ RefsIn(ActiveCatalog(modelTable), There')
      /\ RefsIn(dashModels, There')
  BY <1>1, <1>2, <1>3, RefersToMore DEF Sound, TableRefers, PageRefers
<1>6. ASSUME NEW b \in BackendNames \ exposed', Removing(b, "table")
      PROVE  Clear(dashModels, b) /\ Clear(ActiveCatalog(modelTable), b)
  BY <1>1, <1>6 DEF Sound, Unreferenced
<1>7. ASSUME RefsIn(ActiveCatalog(modelTable'), There'), RefsIn(dashModels', There'),
             \A b \in BackendNames \ exposed' : Removing(b, "table") =>
               Clear(dashModels', b) /\ Clear(ActiveCatalog(modelTable'), b)
      PROVE  Sound'
  <2>1. TableRefers' /\ PageRefers'
    BY <1>7 DEF TableRefers, PageRefers
  <2>2. Unreferenced'
    BY <1>2, <1>7 DEF Unreferenced, Removing
  <2> QED
    BY <1>4, <2>1, <2>2 DEF Sound
<1>8. ASSUME NEW price \in Prices \cup {NoPrice}, SaveModel(price) PROVE Sound'
  <2> DEFINE n == modelPage.name  refs == modelPage.refs
  <2>0. refs \subseteq BackendNames
    BY <1>8, FormIs
  <2>1. /\ UNCHANGED modelTable
        /\ dashModels' = [m \in DOMAIN dashModels \cup {n} |-> IF m = n THEN refs ELSE dashModels[m]]
        /\ ModelStored("save", n, refs)
    BY <1>8 DEF SaveModel
  <2> HIDE DEF n, refs
  <2>2. Leaving \cap refs \subseteq exposed'
    <3>1. exposed' = BackendNames \/ exposed' = exposed \cup (Leaving \cap refs)
      BY <2>1 DEF ModelStored
    <3> QED
      BY <2>0, <3>1
  <2>3. ASSUME NEW b \in refs, NEW pc, Removing(b, pc) PROVE b \in exposed'
    BY <2>0, <2>2, <2>3 DEF Leaving, Removing
  <2>4. refs \subseteq There'
    <3> SUFFICES ASSUME NEW b \in refs PROVE b \in There'
      OBVIOUS
    <3>1. CASE b \in Listed(cfgBackends)
      <4>1. b \in There \/ Removing(b, "memory")
        BY <1>1, <1>2, <3>1 DEF Sound, ListInTable
      <4> QED
        BY <1>3, <2>3, <4>1 DEF There
    <3>2. CASE b \notin Listed(cfgBackends)
      BY <2>0, <2>2, <3>2 DEF Leaving, Listed, There
    <3> QED
      BY <3>1, <3>2
  <2>5. RefsIn(dashModels', There')
    BY <1>5, <2>1, <2>4 DEF RefsIn
  <2>6. ASSUME NEW b \in BackendNames \ exposed', Removing(b, "table") PROVE Clear(dashModels', b)
    <3>1. b \notin refs
      BY <2>3, <2>6
    <3> QED
      BY <1>6, <2>1, <2>6, <3>1 DEF Clear
  <2> QED
    BY <1>5, <1>6, <1>7, <2>1, <2>5, <2>6
<1>14. ASSUME NEW n \in ModelNames, NEW refs \in Refs, BeginModel(n, refs) PROVE Sound'
  <2>1. UNCHANGED <<modelTable, dashModels>>
    BY <1>14 DEF BeginModel, modelMemory
  <2> QED
    BY <1>5, <1>6, <1>7, <2>1
<1>9. ASSUME NEW n \in ModelNames, DeleteModel(n) PROVE Sound'
  <2>1. UNCHANGED modelTable /\ dashModels' = [m \in DOMAIN dashModels \ {n} |-> dashModels[m]]
    BY <1>9 DEF DeleteModel
  <2>2. RefsIn(dashModels', There')
    BY <1>5, <2>1 DEF RefsIn
  <2>3. \A b \in BackendNames : Clear(dashModels, b) => Clear(dashModels', b)
    BY <2>1 DEF Clear
  <2> QED
    BY <1>5, <1>6, <1>7, <2>1, <2>2, <2>3
<1>10. CASE WriteModelRow
  <2>1. /\ UNCHANGED dashModels
        /\ \A S : RefsIn(ActiveCatalog(modelTable), S) /\ RefsIn(dashModels, S) =>
                  RefsIn(ActiveCatalog(modelTable'), S)
    BY <1>10, WrittenRow
  <2>2. RefsIn(ActiveCatalog(modelTable'), There') /\ RefsIn(dashModels', There')
    BY <1>5, <2>1
  <2>3. ASSUME NEW b \in BackendNames \ exposed', Removing(b, "table")
        PROVE  Clear(ActiveCatalog(modelTable'), b)
    <3>1. RefsIn(ActiveCatalog(modelTable), There' \ {b}) /\ RefsIn(dashModels, There' \ {b})
      BY <1>5, <1>6, <2>3 DEF RefsIn, Clear
    <3>2. RefsIn(ActiveCatalog(modelTable'), There' \ {b})
      BY <2>1, <3>1
    <3> QED
      BY <3>2 DEF RefsIn, Clear
  <2> QED
    BY <1>6, <1>7, <2>1, <2>2, <2>3
<1>11. CASE WritePrices
  BY <1>5, <1>6, <1>7, <1>11 DEF WritePrices, modelMemory
<1>12. CASE ReloadModels
  <2>1. UNCHANGED modelTable /\ dashModels' \in {dashModels, ActiveCatalog(modelTable)}
    BY <1>12 DEF ReloadModels
  <2> QED
    BY <1>5, <1>6, <1>7, <2>1
<1> QED
  BY <1>8, <1>9, <1>10, <1>11, <1>12, <1>14 DEF ModelStep

\* Every step keeps the references sound.
LEMMA RefsStep ==
  Quiet /\ BackendTypes /\ ModelTypes /\ BackendsInv /\ ModelsInv /\ RefsInv /\ [Next]_vars => RefsInv'
<1> SUFFICES ASSUME Quiet, BackendTypes, ModelTypes, BackendsInv, ModelsInv, RefsInv, [Next]_vars
             PROVE  RefsInv'
  OBVIOUS
<1>1. Exposing' /\ exposed \subseteq exposed' /\ Sound
  BY ExposingStep DEF RefsInv
<1>2. ~tornModels' => PageIsTable'
  BY PageIsTableStep DEF RefsInv
<1> SUFFICES Sound'
  BY <1>1, <1>2 DEF RefsInv
<1>3. CASE Start
  BY <1>3, StartRefers
<1>4. CASE BackendStep
  BY <1>4, BackendStepRefers
<1>5. CASE ModelStep
  BY <1>5, ModelStepRefers
<1>6. CASE BeginReload \/ ApplyReload
  <2>1. UNCHANGED <<backendTable, cfgBackends, backendPage, exposed>>
    BY <1>6 DEF BeginReload, ApplyReload, backendMemory
  <2>2. UNCHANGED <<modelTable, dashModels>> /\ phase = "serving" /\ phase' = "serving"
    BY <1>6, ModelsAlone DEF modelState
  <2> QED
    BY <1>1, <2>1, <2>2 DEF Sound, TableRefers, ListInTable, PageRefers, Unreferenced, There,
       Removing, Listed
<1>7. CASE End
  <2>1. /\ UNCHANGED <<backendTable, modelTable, exposed>> /\ phase' = "down" /\ backendPage' = Idle
    BY <1>7 DEF End, Forgotten, tables, history
  <2> QED
    BY <1>1, <2>1 DEF Sound, TableRefers, ListInTable, PageRefers, Unreferenced, There, Removing,
       Listed
<1>8. CASE UNCHANGED vars
  <2>1. UNCHANGED <<backendState, modelState, phase, exposed>>
    BY <1>8, StutterAlone
  <2>2. UNCHANGED <<backendTable, cfgBackends, backendPage, modelTable, dashModels, phase, exposed>>
    BY <2>1 DEF backendState, modelState
  <2> QED
    BY <1>1, <2>2 DEF Sound, TableRefers, ListInTable, PageRefers, Unreferenced, There, Removing,
       Listed
<1> QED
  BY <1>3, <1>4, <1>5, <1>6, <1>7, <1>8 DEF Next

-----------------------------------------------------------------------------
(* The inductive invariant, and what it shows.                             *)

IInv ==
  BackendTypes /\ ModelTypes /\ RestTypes /\ Quiet /\ BackendsInv /\ ModelsInv /\ RefsInv

\* It holds before the first start,
LEMMA IInvAtFirst == Init => IInv
<1> SUFFICES ASSUME Init PROVE IInv
  OBVIOUS
<1>1. Quiet
  BY DEF Init, Quiet
<1>2. BackendsInv
  BY DEF Init, BackendsInv, PageInTable, AckedInTable, EmptyKnown, Follow
<1>3. ModelsInv
  BY DEF Init, ModelsInv, Built, Priced, Copied
<1>4. RefsInv
  <2>1. DOMAIN ActiveCatalog(modelTable) = {}
    BY DEF Init, ActiveCatalog
  <2>2. Sound
    BY <2>1 DEF Init, Sound, TableRefers, RefsIn, ListInTable, PageRefers, Unreferenced, Removing
  <2>3. Exposing /\ PageIsTable
    BY DEF Init, Exposing, PageIsTable
  <2> QED
    BY <2>2, <2>3 DEF RefsInv
<1> QED
  BY <1>1, <1>2, <1>3, <1>4, TypesAtFirst DEF IInv

\* every step keeps it,
LEMMA IInvStep == IInv /\ [Next]_vars => IInv'
BY BackendTypesStep, ModelTypesStep, RestTypesStep, QuietStep, BackendsStep, ModelsStep, RefsStep
   DEF IInv

\* so it always holds.
LEMMA Invariance == Spec => []IInv
<1> QED
  BY IInvAtFirst, IInvStep, PTL DEF Spec

\* Tables, memory and what the pages hold are of their types, whatever fails and
\* whenever the process ends (dashboard/handler.go, cmd/gateway/main.go).
THEOREM TypesHold == Spec => []TypeOK
<1>1. IInv => TypeOK
  BY TypesAre DEF IInv, RefsInv, Exposing
<1> QED
  BY <1>1, Invariance, PTL

\* Table, list and manager agree on every backend whose change is not under way
\* and was not refused half way (dashboard/handler.go:1444).
THEOREM BackendsAgree == Spec => []BackendsFollowTable
<1>1. ASSUME IInv, phase = "serving", ~emptied, NEW b \in BackendNames, Settled(b)
      PROVE  cfgBackends[b] = backendTable[b] /\ SettingOf(b) = backendTable[b]
  BY <1>1 DEF IInv, BackendsInv, Follow, Follows, InHand, Settled
<1>2. IInv => BackendsFollowTable
  BY <1>1 DEF BackendsFollowTable
<1> QED
  BY <1>2, Invariance, PTL

\* A confirmed change is what the gateway runs with, also after a crash and a
\* restart (dashboard/handler.go:1463).
THEOREM ConfirmedLast == Spec => []ConfirmedChangesLast
<1>1. ASSUME IInv, phase = "serving", ~emptied, NEW b \in BackendNames, Settled(b), acked[b] # Idle
      PROVE  SettingOf(b) = acked[b]
  BY <1>1 DEF IInv, BackendsInv, AckedInTable, Follow, Follows, InHand, Settled
<1>2. IInv => ConfirmedChangesLast
  BY <1>1 DEF ConfirmedChangesLast
<1> QED
  BY <1>2, Invariance, PTL

\* The page and the manager agree on what is disabled (dashboard/handler.go:1304).
THEOREM PageShowsDisabled == Spec => []DisabledAgrees
<1>1. ASSUME IInv, phase = "serving", ~emptied, NEW b \in BackendNames, Settled(b), manager[b] # Absent
      PROVE  b \in disabled <=> ~manager[b].enabled
  BY <1>1 DEF IInv, BackendsInv, Follow, Shown, Settled
<1>2. IInv => DisabledAgrees
  BY <1>1 DEF DisabledAgrees
<1> QED
  BY <1>2, Invariance, PTL

\* Resolver, proxy and model page work with the tables' models and prices once a
\* change or a start has gone through (dashboard/handler.go:1915).
THEOREM ModelsAgree == Spec => []ModelsFollowTables
<1>1. IInv => ModelsFollowTables
  BY DEF IInv, ModelsInv, Copied, ModelsFollowTables
<1> QED
  BY <1>1, Invariance, PTL

\* Models in use refer to backends that exist, but for those that a change of the
\* other page, a failure or a start has exposed (dashboard/handler.go:1504).
THEOREM ReferencesExist == Spec => []RefsExist
<1>1. IInv => RefsExist
  BY DEF IInv, RefsInv, Sound, TableRefers, RefsIn, RefsExist, There, ActiveCatalog
<1> QED
  BY <1>1, Invariance, PTL

=============================================================================
