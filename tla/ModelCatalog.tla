--------------------------- MODULE ModelCatalog ---------------------------
(***************************************************************************)
(* The catalog of models and their endpoints                               *)
(* (app/services/openrouter_sync.py, provider_models_sync.py,              *)
(* model_endpoints.py, app/api/v1/dashboard/provider_models.py, cron.py).  *)
(*                                                                         *)
(* Scheduled synchronisations write the models of a provider in one        *)
(* transaction, row by row; administrators add models, and endpoints that  *)
(* keep a row of the older tables for what still refers to it.  Nothing    *)
(* locks the catalog: the unique names decide between writers.             *)
(***************************************************************************)
EXTENDS Naturals, FiniteSets

CONSTANTS
    Writer,         \* requests that change the catalog
    Name,           \* names of models
    Vendor,         \* providers
    Synced,         \* the one whose models a synchronisation fetches
    MaxBreakdowns   \* transactions lost in a run

ASSUME SyncedAssumption == Synced \in Vendor
ASSUME MaxBreakdownsAssumption == MaxBreakdowns \in Nat

VARIABLES
    catalog,     \* ai_models, by name
    legacy,      \* tts_models and media_models, by name
    endpoints,   \* model_endpoints: a model and a type
    writing,     \* what each writer does
    breakdowns

catalogVars == <<catalog, legacy, endpoints, writing, breakdowns>>

Type == {"tts", "image", "video"}
Table(type) == IF type = "tts" THEN "tts_models" ELSE "media_models"
Absent == [there |-> FALSE, provider |-> Synced, active |-> FALSE]
NoLegacy == [there |-> FALSE, provider |-> Synced, type |-> "tts"]
NotWriting == [does |-> "none", at |-> "idle", names |-> {}, left |-> {}, wrote |-> {},
               next |-> {}, row |-> Absent, type |-> "tts"]

\* Rows of the older tables may be left from before there was a catalog.
CatalogInit ==
    /\ catalog = [n \in Name |-> Absent]
    /\ \E old \in {NoLegacy} \cup [there : {TRUE}, provider : Vendor, type : {"image"}] :
          legacy = [table \in {"tts_models", "media_models"} |->
                       [n \in Name |-> IF table = "media_models" THEN old ELSE NoLegacy]]
    /\ endpoints = {}
    /\ writing = [w \in Writer |-> NotWriting]
    /\ breakdowns = 0

Stage(w, does, at) == writing[w].does = does /\ writing[w].at = at
Now(w, work) == writing' = [writing EXCEPT ![w] = work]
Stops(w, at) == Now(w, [writing[w] EXCEPT !.at = at, !.next = {}])

\* A row that was written belongs to its transaction until that ends.
Locked(w, n) == \E v \in Writer \ {w} : writing[v].at \in {"select", "flush"} /\ n \in writing[v].wrote

-----------------------------------------------------------------------------
\* The models that a provider, or the list for when it cannot be reached, names.
BeginSync(w, names) ==
    /\ writing[w].at = "idle"
    /\ names # {}
    /\ Now(w, [NotWriting EXCEPT !.does = "sync", !.at = "select", !.names = names, !.left = names])
    /\ UNCHANGED <<catalog, legacy, endpoints, breakdowns>>

\* The row of the next name is read; what it needs is written before the next is read.
SelectModel(w, n) ==
    /\ Stage(w, "sync", "select")
    /\ n \in writing[w].left
    /\ Now(w, [writing[w] EXCEPT !.at = "flush", !.left = @ \ {n}, !.next = {n}, !.row = catalog[n]])
    /\ UNCHANGED <<catalog, legacy, endpoints, breakdowns>>

SyncedRow == [there |-> TRUE, provider |-> Synced, active |-> TRUE]

\* A row that is as it should be is not written; one that appeared since is an error,
\* and nothing of the transaction remains.
FlushModel(w, n) ==
    /\ Stage(w, "sync", "flush")
    /\ n \in writing[w].next
    /\ \/ writing[w].row = SyncedRow /\ Now(w, [writing[w] EXCEPT !.at = "select", !.next = {}])
       \/ /\ writing[w].row # SyncedRow
          /\ ~Locked(w, n)
          /\ IF catalog[n].there /\ ~writing[w].row.there
             THEN Stops(w, "failed")
             ELSE Now(w, [writing[w] EXCEPT !.at = "select", !.next = {}, !.wrote = @ \cup {n}])
    /\ UNCHANGED <<catalog, legacy, endpoints, breakdowns>>

\* Mutant: the commit is part of the loop, and so is the answer.
WrittenSoFar(w) == Stage(w, "sync", "select")

\* The commit after the last name.
AllWritten(w) == Stage(w, "sync", "select") /\ writing[w].left = {}

CommitSync(w) ==
    /\ AllWritten(w)
    /\ catalog' = [n \in Name |-> IF n \in writing[w].wrote THEN SyncedRow ELSE catalog[n]]
    /\ Stops(w, "success")
    /\ UNCHANGED <<legacy, endpoints, breakdowns>>

\* Two that wait for each other's rows: the database ends one of them.
WaitsFor(w, v) == writing[w].at = "flush" /\ writing[w].row # SyncedRow /\ writing[w].next \cap writing[v].wrote # {}

BreakDeadlock(w) ==
    /\ \E v \in Writer \ {w} : WaitsFor(w, v) /\ WaitsFor(v, w)
    /\ Stops(w, "failed")
    /\ UNCHANGED <<catalog, legacy, endpoints, breakdowns>>

\* A connection is lost before the commit.
BreakDown(w) ==
    /\ writing[w].at \in {"select", "flush"}
    /\ breakdowns < MaxBreakdowns
    /\ breakdowns' = breakdowns + 1
    /\ Stops(w, "failed")
    /\ UNCHANGED <<catalog, legacy, endpoints>>

-----------------------------------------------------------------------------
\* create_model, of a provider that has a key: a name that exists is a conflict.
CreateModel(w, n, provider, active) ==
    /\ writing[w].at = "idle"
    /\ ~Locked(w, n)
    /\ LET row == [there |-> TRUE, provider |-> provider, active |-> active]
       IN IF catalog[n].there
          THEN Now(w, [NotWriting EXCEPT !.does = "create", !.at = "failed"]) /\ UNCHANGED catalog
          ELSE /\ Now(w, [NotWriting EXCEPT !.does = "create", !.at = "success", !.wrote = {n}])
               /\ catalog' = [catalog EXCEPT ![n] = row]
    /\ UNCHANGED <<legacy, endpoints, breakdowns>>

\* save_model_endpoint reads the model, and ensure_legacy_link the row of the older table.
ReadModel(w, n, type) ==
    /\ writing[w].at = "idle"
    /\ catalog[n].there
    /\ LET old == legacy[Table(type)][n]
           fits == old.there => old.provider = catalog[n].provider /\ old.type = type
       IN Now(w, [NotWriting EXCEPT !.does = IF old.there THEN "link" ELSE "shell",
                                    !.at = IF fits THEN "linking" ELSE "failed",
                                    !.next = {n}, !.row = catalog[n], !.type = type])
    /\ UNCHANGED <<catalog, legacy, endpoints, breakdowns>>

\* A new endpoint, or the change of one.  A row of the older table that appeared since,
\* or an endpoint of this model and type, is a conflict.
SaveEndpoint(w, n, change) ==
    /\ writing[w].at = "linking"
    /\ n \in writing[w].next
    /\ LET type == writing[w].type
           shell == [there |-> TRUE, provider |-> writing[w].row.provider, type |-> type]
           saved == <<n, type>> \in endpoints
           appeared == writing[w].does = "shell" /\ legacy[Table(type)][n].there
       IN IF appeared \/ (saved /\ ~change) \/ (change /\ ~saved)
          THEN Now(w, [writing[w] EXCEPT !.at = "failed"]) /\ UNCHANGED <<legacy, endpoints>>
          ELSE /\ Now(w, [writing[w] EXCEPT !.at = "success"])
               /\ endpoints' = endpoints \cup {<<n, type>>}
               /\ legacy' = IF writing[w].does = "link" THEN legacy
                            ELSE [legacy EXCEPT ![Table(type)][n] = shell]
    /\ UNCHANGED <<catalog, breakdowns>>

CatalogNext ==
    \/ \E w \in Writer :
          \/ \E names \in SUBSET Name : BeginSync(w, names)
          \/ \E n \in Name :
                \/ SelectModel(w, n) \/ FlushModel(w, n)
                \/ \E provider \in Vendor, active \in BOOLEAN : CreateModel(w, n, provider, active)
                \/ \E type \in Type : ReadModel(w, n, type)
                \/ \E change \in BOOLEAN : SaveEndpoint(w, n, change)
          \/ CommitSync(w) \/ BreakDeadlock(w) \/ BreakDown(w)

CatalogSpec == CatalogInit /\ [][CatalogNext]_catalogVars

-----------------------------------------------------------------------------
CatalogRow == [there : BOOLEAN, provider : Vendor, active : BOOLEAN]
LegacyRow == [there : BOOLEAN, provider : Vendor, type : Type]

CatalogTypeOK ==
    /\ catalog \in [Name -> CatalogRow]
    /\ legacy \in [{"tts_models", "media_models"} -> [Name -> LegacyRow]]
    /\ endpoints \subseteq Name \X Type
    /\ writing \in [Writer -> [does : {"none", "sync", "create", "link", "shell"},
                               at : {"idle", "select", "flush", "linking", "success", "failed"},
                               names : SUBSET Name, left : SUBSET Name, wrote : SUBSET Name, next : SUBSET Name,
                               row : CatalogRow, type : Type]]
    /\ breakdowns \in 0..MaxBreakdowns

(***************************************************************************)
(* A synchronisation is whole: every model that one which succeeded was to *)
(* write is active, and the catalog has nothing of one that failed or is   *)
(* not done.  An endpoint has a row of the older table of its own type,    *)
(* which no other type shares, and of the provider of its model unless a   *)
(* synchronisation has claimed the model since.                            *)
(***************************************************************************)
CatalogIsWhole ==
    /\ \A w \in Writer : Stage(w, "sync", "success") => \A n \in writing[w].names : catalog[n] = SyncedRow
    /\ \A n \in Name : catalog[n].there =>
          \E w \in Writer : writing[w].at = "success" /\ n \in writing[w].wrote
    /\ \A e \in endpoints :
          LET row == legacy[Table(e[2])][e[1]]
          IN /\ catalog[e[1]].there /\ row.there /\ row.type = e[2]
             /\ row.provider = catalog[e[1]].provider
                \/ \E w \in Writer : Stage(w, "sync", "success") /\ e[1] \in writing[w].wrote
=============================================================================
