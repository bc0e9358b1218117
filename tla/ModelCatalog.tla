----------------------------- MODULE ModelCatalog -----------------------------
(***************************************************************************)
(* The rows of the models of one provider, beside ModelRouting, which uses *)
(* them: what operators edit, the capability checks that await the         *)
(* provider, and the synchronisation with the provider's catalogue, which  *)
(* is previewed first and applied later.                                   *)
(*                                                                         *)
(* A row is named by its place in the order of creation.  The credential   *)
(* is left out: a check compares it as it compares the address, but a new  *)
(* key keeps a capability that was stored with the old one.  Names, tiers, *)
(* priorities and quotas are left out.                                     *)
(***************************************************************************)
EXTENDS Naturals, FiniteSets

CONSTANTS Model,       \* the names of the provider's models
          CatalogKind, \* the purpose of a model in the catalogue
          Url,         \* addresses of the provider, the first is DashScope's
          DashScope,
          MaxRows,     \* bound on the rows created
          MaxSteps,    \* bound on the operators' edits
          MaxRenames,  \* bound on those that rename a row
          MaxPreviews  \* bound on the previews

Purpose == {"vision", "text"}

ASSUME CatalogAssumption == /\ IsFiniteSet(Model)
                            /\ CatalogKind \in [Model -> Purpose]
                            /\ DashScope \in Url
                            /\ {MaxRows, MaxSteps, MaxRenames, MaxPreviews} \subseteq Nat

VARIABLES
  conf,      \* conf[n]: the row of model_configs, for the rows that exist
  created,   \* how many rows were ever created
  prov,      \* the provider's row
  checks,    \* checks[n]: the check of row n that is awaited (runningChecks)
  preview,   \* the stored previews
  steps, renames, drawn,   \* edits, renames and previews so far
  kept       \* (history) rows whose last pool decision is an operator's removal

catVars == <<conf, created, prov, checks, preview, steps, renames, drawn, kept>>

\* What a check measures: the model behind an address, for a purpose.
Measured == [url : Url, model : Model, purpose : Purpose, passed : BOOLEAN]
NotChecked == [passed |-> FALSE]

\* removed: pool_removed_at and its reason; cap: the stored capability.
Conf == [model : Model, purpose : Purpose, on : BOOLEAN, pool : BOOLEAN,
         removed : {"no", "operator", "sync"}, managed : BOOLEAN, default : BOOLEAN,
         cap : Measured \cup {NotChecked}]

CatInit == /\ conf = [n \in {} |-> NotChecked]
           /\ created = 0
           /\ prov = [url |-> DashScope, on |-> TRUE]
           /\ checks = [n \in {} |-> NotChecked]
           /\ preview = {}
           /\ steps = 0 /\ renames = 0 /\ drawn = 0
           /\ kept = {}

Existing == DOMAIN conf
----------------------------------------------------------------------------
(* Edits of operators. *)

Edited == steps < MaxSteps /\ steps' = steps + 1

\* f with a further row
With(f, n, v) == [k \in (DOMAIN f) \cup {n} |-> IF k = n THEN v ELSE f[k]]
Without(f, n) == [k \in (DOMAIN f) \ {n} |-> f[k]]

NewRow(model, purpose, managed) ==
  [model |-> model, purpose |-> purpose, on |-> TRUE, pool |-> FALSE, removed |-> "no",
   managed |-> managed, default |-> FALSE, cap |-> NotChecked]

CreateModelConfig(model, purpose) ==
  /\ Edited /\ created < MaxRows
  /\ created' = created + 1
  /\ conf' = With(conf, created', NewRow(model, purpose, FALSE))
  /\ UNCHANGED <<prov, checks, preview, renames, drawn, kept>>

\* updateModelConfig: a row that measures something else loses its capability.
Reconfigured(r, model, purpose, on) ==
  [r EXCEPT !.model = model, !.purpose = purpose, !.on = on,
            !.cap = IF (model # r.model) \/ (purpose # r.purpose) THEN NotChecked ELSE @]

UpdateModelConfig(n, model, purpose, on) ==
  /\ Edited
  /\ renames' = IF <<model, purpose>> = <<conf[n].model, conf[n].purpose>>
                THEN renames ELSE renames + 1
  /\ renames' <= MaxRenames
  /\ conf' = [conf EXCEPT ![n] = Reconfigured(@, model, purpose, on)]
  /\ UNCHANGED <<created, prov, checks, preview, drawn, kept>>

\* updateModelProvider: a new address invalidates what was measured.
UpdateModelProvider(url, on) ==
  /\ Edited
  /\ prov' = [url |-> url, on |-> on]
  /\ conf' = IF url = prov.url THEN conf
             ELSE [n \in Existing |-> [conf[n] EXCEPT !.cap = NotChecked]]
  /\ UNCHANGED <<created, checks, preview, renames, drawn, kept>>

\* The rows c with n as the only default of the purpose.
WithDefault(c, n, purpose) ==
  [k \in DOMAIN c |-> [c[k] EXCEPT !.default = IF k = n THEN TRUE ELSE @ /\ c[k].purpose # purpose]]

SetDefaultModel(n) ==
  /\ Edited /\ conf[n].on
  /\ conf' = WithDefault(conf, n, conf[n].purpose)
  /\ UNCHANGED <<created, prov, checks, preview, renames, drawn, kept>>

ClearDefaultModel(purpose) ==
  /\ Edited
  /\ conf' = [n \in Existing |-> [conf[n] EXCEPT !.default = @ /\ conf[n].purpose # purpose]]
  /\ UNCHANGED <<created, prov, checks, preview, renames, drawn, kept>>

\* The newest enabled row of its purpose replaces a default.
DeleteModelConfig(n) ==
  /\ Edited
  /\ LET rest == Without(conf, n)
         heirs == {k \in DOMAIN rest : rest[k].on /\ rest[k].purpose = conf[n].purpose}
     IN conf' = IF conf[n].default /\ heirs # {}
                THEN WithDefault(rest, CHOOSE k \in heirs : \A h \in heirs : h <= k, conf[n].purpose)
                ELSE rest
  /\ kept' = kept \ {n}
  /\ UNCHANGED <<created, prov, checks, preview, renames, drawn>>

\* updatePoolMember leaves the mark of a removal in place.
UpdatePoolMember(n, on, pool) ==
  /\ Edited
  /\ conf' = [conf EXCEPT ![n].on = on, ![n].pool = pool]
  /\ kept' = IF pool THEN kept \ {n} ELSE kept
  /\ UNCHANGED <<created, prov, checks, preview, renames, drawn>>

\* A check that will enable the row when it has passed.
Enabling(n) == n \in DOMAIN checks /\ checks[n].enable

RemovePoolMember(n) ==
  /\ Edited
  /\ conf' = [conf EXCEPT ![n].pool = FALSE, ![n].removed = "operator"]
  /\ kept' = IF Enabling(n) THEN kept ELSE kept \cup {n}
  /\ UNCHANGED <<created, prov, checks, preview, renames, drawn>>

RestorePoolMember(n) ==
  /\ Edited
  /\ conf' = [conf EXCEPT ![n].pool = TRUE, ![n].removed = "no"]
  /\ kept' = kept \ {n}
  /\ UNCHANGED <<created, prov, checks, preview, renames, drawn>>
----------------------------------------------------------------------------
(* Capability checks. *)

Config(n) == [url |-> prov.url, model |-> conf[n].model, purpose |-> conf[n].purpose]

\* A check joins one of the same row that is under way; verifyPoolMembers may
\* ask for the row to be enabled.
Verify(n, enable) ==
  /\ Edited
  /\ n \in DOMAIN checks \/ (conf[n].on /\ prov.on)
  /\ checks' = IF n \in DOMAIN checks
               THEN [checks EXCEPT ![n].enable = @ \/ enable]
               ELSE With(checks, n, [of |-> Config(n), enable |-> enable])
  /\ kept' = IF enable THEN kept \ {n} ELSE kept
  /\ UNCHANGED <<conf, created, prov, preview, renames, drawn>>

\* (mutant) only the model is compared
StillSameModel(n) == /\ n \in Existing /\ conf[n].on /\ prov.on
                     /\ conf[n].model = checks[n].of.model

\* The configuration the answers came from is the one of the row.
StillSame(n) == /\ n \in Existing /\ conf[n].on /\ prov.on
                /\ Config(n) = checks[n].of

CheckEnds(n, passed) ==
  /\ n \in DOMAIN checks
  /\ checks' = Without(checks, n)
  /\ conf' = IF ~StillSame(n) THEN conf
             ELSE LET of == checks[n].of
                      cap == [url |-> of.url, model |-> of.model, purpose |-> of.purpose,
                              passed |-> passed]
                  IN IF passed /\ checks[n].enable
                     THEN [conf EXCEPT ![n].cap = cap, ![n].pool = TRUE, ![n].removed = "no"]
                     ELSE [conf EXCEPT ![n].cap = cap]
  /\ UNCHANGED <<created, prov, preview, steps, renames, drawn, kept>>
----------------------------------------------------------------------------
(* Synchronisation with the catalogue of the provider. *)

ManagedRows == {n \in Existing : conf[n].managed /\ ~conf[n].default}

\* A row a catalogue model may be matched with.
Is(n, model) == conf[n].model = model /\ conf[n].purpose = CatalogKind[model]

NoDuplicates == \A n, k \in ManagedRows : (conf[n].model = conf[k].model) => (n = k)

\* Configured by hand, as a default or not.
NoCollision(models) == \A n \in Existing, model \in models : conf[n].managed \/ ~Is(n, model)

NoOtherPurpose(models) ==
  \A n \in Existing, model \in models :
    (conf[n].model = model /\ ~conf[n].default) => (conf[n].purpose = CatalogKind[model])

Matches(models) == {n \in ManagedRows : \E model \in models : Is(n, model)}

\* poolFingerprint: the provider and every row but the defaults.
Fingerprint == <<prov, [n \in {k \in Existing : ~conf[k].default} |-> conf[n]]>>

\* buildPlan, for the models a snapshot of the catalogue allows.
PreviewPool(models) ==
  /\ drawn < MaxPreviews
  /\ prov.on /\ prov.url = DashScope
  /\ NoDuplicates /\ NoCollision(models) /\ NoOtherPurpose(models)
  /\ drawn' = drawn + 1
  /\ LET update == Matches(models)
     IN preview' = preview \cup
          {[models |-> models, print |-> Fingerprint, update |-> update,
            disable |-> ManagedRows \ update,
            create |-> {model \in models : \A n \in update : conf[n].model # model}]}
  /\ UNCHANGED <<conf, created, prov, checks, steps, renames, kept>>

\* A row that is offered again stays out of the pool, and removed.
Updated(r) == [r EXCEPT !.managed = TRUE]
DisabledBySync(r) == [r EXCEPT !.pool = FALSE, !.removed = IF @ = "no" THEN "sync" ELSE @]

\* (mutant) the plan is carried out on whatever there is
AnyState(p) == prov.on

\* assertPreview: nothing has changed since.
Fresh(p) == prov.on /\ prov.url = DashScope /\ p.print = Fingerprint

\* New rows in the order of the models; the bound counts them.
Applied(p) ==
  LET place == CHOOSE f \in [p.create -> (created + 1) .. (created + Cardinality(p.create))] :
                 \A a, b \in p.create : (f[a] = f[b]) => (a = b)
      fresh == {place[model] : model \in p.create}
  IN [n \in Existing \cup fresh |->
        IF n \in fresh
        THEN LET model == CHOOSE a \in p.create : place[a] = n
             IN NewRow(model, CatalogKind[model], TRUE)
        ELSE IF n \in p.update THEN Updated(conf[n])
        ELSE IF n \in p.disable THEN DisabledBySync(conf[n])
        ELSE conf[n]]

\* The preview is consumed.
ApplyPool(p) ==
  /\ Fresh(p)
  /\ NoDuplicates /\ NoCollision({conf[n].model : n \in p.update \cap Existing} \cup p.create)
  /\ created + Cardinality(p.create) <= MaxRows
  /\ created' = created + Cardinality(p.create)
  /\ conf' = Applied(p)
  /\ preview' = preview \ {p}
  /\ UNCHANGED <<prov, checks, steps, renames, drawn, kept>>

\* After five minutes, with the process, or pushed out by a twentieth one.
DropPreview(p) == /\ preview' = preview \ {p}
                  /\ UNCHANGED <<conf, created, prov, checks, steps, renames, drawn, kept>>

CatNext ==
  \/ \E model \in Model, purpose \in Purpose : CreateModelConfig(model, purpose)
  \/ \E url \in Url, on \in BOOLEAN : UpdateModelProvider(url, on)
  \/ \E purpose \in Purpose : ClearDefaultModel(purpose)
  \/ \E n \in Existing : \/ \E model \in Model, purpose \in Purpose, on \in BOOLEAN :
                              UpdateModelConfig(n, model, purpose, on)
                         \/ SetDefaultModel(n)
                         \/ DeleteModelConfig(n)
                         \/ \E on, pool \in BOOLEAN : UpdatePoolMember(n, on, pool)
                         \/ RemovePoolMember(n)
                         \/ RestorePoolMember(n)
                         \/ \E enable \in BOOLEAN : Verify(n, enable)
  \/ \E n \in DOMAIN checks, passed \in BOOLEAN : CheckEnds(n, passed)
  \/ \E models \in SUBSET Model : PreviewPool(models)
  \/ \E p \in preview : ApplyPool(p) \/ DropPreview(p)

CatSpec == CatInit /\ [][CatNext]_catVars
----------------------------------------------------------------------------
CatTypeOK ==
  /\ created \in 0 .. MaxRows
  /\ Existing \subseteq 1 .. created
  /\ \A n \in Existing : conf[n] \in Conf
  /\ prov \in [url : Url, on : BOOLEAN]
  /\ DOMAIN checks \subseteq 1 .. created
  /\ \A n \in DOMAIN checks :
       checks[n] \in [of : [url : Url, model : Model, purpose : Purpose], enable : BOOLEAN]
  /\ kept \subseteq Existing

\* What was measured is what the row is configured for: a capability is stored
\* for the model, the purpose and the address the row has now, whatever was
\* edited while the check awaited its answers (runCapabilityCheck,
\* updateModelConfig, updateModelProvider, the synchronisation).
CapabilityIsMeasured ==
  /\ CatTypeOK
  /\ \A n \in Existing : LET r == conf[n]
                         IN (r.cap # NotChecked) => /\ r.cap.url = prov.url
                                                    /\ r.cap.model = r.model
                                                    /\ r.cap.purpose = r.purpose

\* A row an operator has removed stays out of the pool until an operator puts
\* it back or has it verified in order to enable it; the synchronisation never
\* does, unless a check that enables it was under way at its removal
\* (removePoolMembers, verifyPoolMembers, applyBailianFreePool).
RemovalStands == \A n \in kept : ~conf[n].pool

\* Whatever overlaps in the administration, the rows keep what was measured and
\* what was decided of them.
CatalogStands == CapabilityIsMeasured /\ RemovalStands

\* Of the managed rows c has of a model, one is maintained for the catalogue's
\* purpose; each other was a managed default before.
OneMaintained(c, model) ==
  LET rows == {n \in DOMAIN c : c[n].managed /\ c[n].model = model}
  IN \E n \in rows : /\ ~c[n].default /\ c[n].purpose = CatalogKind[model]
                    /\ \A k \in rows \ {n} : k \in Existing /\ conf[k].default

\* Applying a preview, after any edits since, leaves exactly one managed row that
\* is no default for each model of the snapshot, in the catalogue's purpose, no
\* such row of another model in the pool, and every default as it was
\* (applyBailianFreePool, managedRows).  A managed row an operator has made a
\* default is not counted: managedRows does not read it, and the
\* synchronisation makes a second managed row of its model beside it.
AppliedIsPlanned ==
  [][\A p \in preview :
       (p \notin preview' /\ conf' # conf) =>
          /\ \A model \in p.models : OneMaintained(conf', model)
          /\ \A n \in DOMAIN conf' :
               (conf'[n].managed /\ ~conf'[n].default /\ conf'[n].pool) => conf'[n].model \in p.models
          /\ \A n \in Existing : conf[n].default => n \in DOMAIN conf' /\ conf'[n] = conf[n]
    ]_catVars

=============================================================================
