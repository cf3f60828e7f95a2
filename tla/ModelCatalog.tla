---------------------------- MODULE ModelCatalog ----------------------------
(***************************************************************************)
(* The tables of models and prices (internal/models/store.go) and what the *)
(* backends' answers are made into (discovery.go, normalize.go).  A        *)
(* catalog gives some names the backends they can be sent to; of a         *)
(* reference the backend is kept and the weight left out, of a model its   *)
(* display name is left out.  Each operator is one transaction.            *)
(***************************************************************************)
EXTENDS Naturals

CONSTANTS
  BackendNames,  \* names of backends
  ModelNames,    \* names of models, as written by backends or administrators
  Canonical,     \* NormalizeModelName, as a function
  Prices,        \* prices other than zero
  NoPrice, NoModel, Unreachable  \* model values outside the sets above

ASSUME CatalogAssumption ==
  /\ Canonical \in [ModelNames -> ModelNames]
  /\ \A n \in ModelNames : Canonical[Canonical[n]] = Canonical[n]
  /\ NoPrice \notin Prices

Refs == (SUBSET BackendNames) \ {{}}
Catalog == UNION {[S -> Refs] : S \in SUBSET ModelNames}
ModelRow == [active : BOOLEAN, refs : Refs]
PriceList == [ModelNames -> Prices \cup {NoPrice}]
NoPrices == [n \in ModelNames |-> NoPrice]
EmptyCatalog == [n \in {} |-> {}]

\* LoadActiveCatalog: the active rows, joined with their references.
ActiveCatalog(table) ==
  [n \in {m \in ModelNames : table[m] # NoModel /\ table[m].active} |-> table[n].refs]

\* DiscoverCatalogFromBackendsWithStats: what each backend listed, merged under
\* canonical names.  A backend that did not answer is skipped.
Answering(report) == {b \in DOMAIN report : report[b] # Unreachable}
Lists(report, b, n) == \E raw \in report[b] : Canonical[raw] = n
DiscoverCatalog(report) ==
  [n \in {Canonical[raw] : raw \in UNION {report[b] : b \in Answering(report)}} |->
     {b \in Answering(report) : Lists(report, b, n)}]
DiscoverFailed(report) == Answering(report) # DOMAIN report \/ Answering(report) = {}

\* NormalizeCatalog: the references of names that are one are put together.
NormalizeCatalog(catalog) ==
  [n \in {Canonical[raw] : raw \in DOMAIN catalog} |->
     UNION {catalog[raw] : raw \in {r \in DOMAIN catalog : Canonical[r] = n}}]

\* SyncDiscoveredCatalog: the catalog's models are written, every other one is
\* taken out of use.
SyncDiscoveredCatalog(table, catalog) ==
  LET found == NormalizeCatalog(catalog)
  IN  [n \in ModelNames |->
         IF n \in DOMAIN found THEN [active |-> TRUE, refs |-> found[n]]
         ELSE IF table[n] # NoModel THEN [table[n] EXCEPT !.active = FALSE]
         ELSE NoModel]

\* UpsertModel, under the name as given.
UpsertModel(table, n, refs) == [table EXCEPT ![n] = [active |-> TRUE, refs |-> refs]]

\* DeactivateModel; it fails only for a model without a row.
DeactivateModel(table, n) == [table EXCEPT ![n].active = FALSE]

\* ReplaceModelPricing: the whole table, without models that have no row.
ReplaceModelPricing(table, prices) ==
  [n \in ModelNames |-> IF table[n] # NoModel THEN prices[n] ELSE NoPrice]

=============================================================================
