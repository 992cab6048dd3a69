----------------------------- MODULE ModelRouting -----------------------------
(***************************************************************************)
(* Which model backends a run may ask: the [model_routing] section of the   *)
(* configuration (load_config), the routing a web UI request asks for       *)
(* (_resolve_run_routing), the routing of a matrix case, and the registry a *)
(* driver builds from what the run's row holds.  Only the names of backends *)
(* are kept; catalog ids, labels and request settings are left out.         *)
(***************************************************************************)
CONSTANTS
  Backends,   \* names of the configured backends
  Enabled,    \* those that are enabled
  Catalog,    \* catalog id -> [backend, enabled]
  Section,    \* the [model_routing] section
  Case,       \* the backends a matrix case names, by side
  AdhocName,  \* the name of the ad-hoc backend a request defines in a field
  Broken,     \* the outcome of a reference that raises
  NoBackend   \* a reference or a field that is not given

Sides == {"red", "blue"}
Links == {"primary", "fallback"}

\* The fields of a routing request, by side and link; "both" is the shared one.
Fields == (Sides \cup {"both"}) \X Links

Adhoc   == {AdhocName[f] : f \in Fields}
Named   == Backends \cup Adhoc
Routes  == {r \in [Sides -> [Links -> Named \cup {NoBackend}]] :
              \A s \in Sides : r[s]["primary"] # NoBackend}

\* What the row of a run holds: the routing and the backends defined for it.
Routings == [route : Routes, scoped : SUBSET Adhoc]

-------------------------------------------------------------------------------
(* The configuration. *)

\* resolve_backend_reference: a catalog entry shadows a backend of its name.
Reference(name) ==
  IF name = NoBackend THEN NoBackend
  ELSE IF name \in DOMAIN Catalog
       THEN IF Catalog[name].enabled /\ Catalog[name].backend \in Enabled
            THEN Catalog[name].backend ELSE Broken
       ELSE IF name \in Enabled THEN name ELSE Broken

Or(first, second) == IF first = NoBackend THEN second ELSE first

\* The shared-default form is in use as soon as one of its fields is.
SharedForm ==
  \/ Section.default.primary # NoBackend
  \/ \E s \in Sides : Section.override[s].primary # NoBackend

ConfigRoute ==
  [s \in Sides |->
     IF SharedForm
     THEN [k \in Links |-> Or(Reference(Section.override[s][k]),
                              Reference(Section.default[k]))]
     ELSE [k \in Links |-> Reference(Section.legacy[s][k])]]

\* Whether load_config accepts the section: every reference it looks at resolves,
\* and both sides have a primary backend.
ConfigLoads ==
  /\ SharedForm => /\ Section.default.primary # NoBackend
                   /\ \A k \in Links : Reference(Section.default[k]) # Broken
  /\ \A s \in Sides :
       /\ ConfigRoute[s]["primary"] # NoBackend
       /\ \A k \in Links : ConfigRoute[s][k] # Broken

\* A run made by the command line; nothing is defined for it alone.
ConfigRouting == [route |-> ConfigRoute, scoped |-> {}]

\* A run of the matrix: the backends of the case, the fallbacks of the section.
CaseRouting ==
  [route  |-> [s \in Sides |->
                 [k \in Links |-> IF k = "primary" THEN Case[s]
                                  ELSE ConfigRoute[s]["fallback"]]],
   scoped |-> {}]

-------------------------------------------------------------------------------
(* A request of the web UI: same (one choice for both sides), and for each field
   what is picked by name and whether an ad-hoc backend is defined. *)

\* A picked name.  Unlike Reference, an enabled entry is taken whatever its
\* backend, and a disabled one does not shadow a backend.
Listed(name) ==
  IF name \in DOMAIN Catalog /\ Catalog[name].enabled THEN Catalog[name].backend
  ELSE IF name \in Enabled THEN name ELSE Broken

\* resolve_selector.
Selected(p, f, default) ==
  IF p.adhoc[f] # NoBackend THEN IF p.adhoc[f] = "valid" THEN AdhocName[f] ELSE Broken
  ELSE IF p.pick[f] # NoBackend THEN Listed(p.pick[f])
       ELSE IF default = NoBackend /\ f[2] = "primary" THEN Broken ELSE default

\* What both sides get unless they choose; the configured choice of red stands in
\* for a field that is not given.
Shared(p) == [k \in Links |-> Selected(p, <<"both", k>>, ConfigRoute["red"][k])]

RequestedRoute(p) ==
  [s \in Sides |-> IF p.same THEN Shared(p)
                   ELSE [k \in Links |-> Selected(p, <<s, k>>, Shared(p)[k])]]

\* The fields _resolve_run_routing looks at.
Consulted(p) == {f \in Fields : f[1] = "both" \/ ~p.same}

RequestRaises(p) ==
  \/ \E k \in Links : Shared(p)[k] = Broken
  \/ \E s \in Sides, k \in Links : RequestedRoute(p)[s][k] = Broken

MutScopedPerSide(p) ==
  [route  |-> RequestedRoute(p),
   scoped |-> {AdhocName[f] : f \in {g \in Consulted(p) :
                                      g[1] # "both" /\ p.adhoc[g] # NoBackend}}]

\* What create_run and update_run_routing store.
Requested(p) ==
  [route  |-> RequestedRoute(p),
   scoped |-> {AdhocName[f] : f \in {g \in Consulted(p) : p.adhoc[g] # NoBackend}}]

-------------------------------------------------------------------------------
(* A driver's registry. *)

\* build_model_registry: an adapter for every configured backend, enabled or not,
\* and for every backend defined for the run.
Adapters(routing) == Backends \cup routing.scoped

\* resolve_backend_chain: who is asked for a side, a fallback after the primary.
Chain(routing, s) ==
  {routing.route[s][k] : k \in Links} \ {NoBackend}
===============================================================================
