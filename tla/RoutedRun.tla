------------------------------- MODULE RoutedRun -------------------------------
(***************************************************************************)
(* The lifecycle of a run composed with its routing: web UI requests that    *)
(* patch the routing of a created run, and drivers that read it once, when   *)
(* they are launched, before they look at the status.  A patch checks the    *)
(* status on one connection and stores the routing on another.               *)
(***************************************************************************)
EXTENDS RunLifecycle, ModelRouting

CONSTANTS
  Patchers,    \* concurrent web UI requests that patch the routing
  Requests,    \* what they may ask for
  MaxPatches   \* bound on the patches of a behaviour

VARIABLES
  routing,     \* runs.routing_json and runs.run_scoped_backends_json
  patch,       \* the routing a patch has resolved and not stored yet
  registry,    \* the routing a driver's registry was built from
  patches      \* patches asked for so far

routingVars == <<routing, patch, registry, patches>>
routedVars  == <<vars, routingVars>>

ASSUME RoutedAssumption ==
  /\ Enabled \subseteq Backends
  /\ \A i \in DOMAIN Catalog : Catalog[i].backend \in Backends
  /\ Case \in [Sides -> Backends]
  /\ ConfigLoads
  /\ NoBackend \notin Named
  /\ None \notin Routings
  /\ Broken \notin Named
  /\ Patchers \cap Procs = {}
  /\ MaxPatches \in Nat

\* create_run_from_scenario, called by the matrix, the command line or the web UI.
FirstRoutings ==
  IF MatrixLoops # {} THEN {CaseRouting}
  ELSE {ConfigRouting} \cup {Requested(p) : p \in {q \in Requests : ~RequestRaises(q)}}

RoutedInit ==
  /\ Init
  /\ routing \in FirstRoutings
  /\ patch = [w \in Patchers |-> None]
  /\ registry = [l \in Loops |-> None]
  /\ patches = 0

\* The loop's process is gone and its registry closed.
RegistriesClose ==
  registry' = [l \in Loops |-> IF phase'[l] = "exited" THEN None ELSE registry[l]]

\* A loop of the command line reads the row before its gate does; the matrix
\* builds the registry from the configuration of the case.
LaunchRouted(l) ==
  /\ Launch(l)
  /\ registry' = [registry EXCEPT ![l] = IF l \in MatrixLoops THEN CaseRouting
                                         ELSE routing]
  /\ UNCHANGED <<routing, patch, patches>>

MutCheckPatchAnyStatus(w, p) ==
  /\ patch[w] = None
  /\ patches < MaxPatches
  /\ patches' = patches + 1
  /\ IF ~RequestRaises(p)
     THEN patch' = [patch EXCEPT ![w] = Requested(p)]
     ELSE UNCHANGED patch
  /\ UNCHANGED <<vars, routing, registry>>

\* WebUiService.update_run_routing: a run that is no longer created, and a request
\* that does not resolve, are refused.
CheckPatch(w, p) ==
  /\ patch[w] = None
  /\ patches < MaxPatches
  /\ patches' = patches + 1
  /\ IF status = "created" /\ ~RequestRaises(p)
     THEN patch' = [patch EXCEPT ![w] = Requested(p)]
     ELSE UNCHANGED patch
  /\ UNCHANGED <<vars, routing, registry>>

\* SQLiteStateStore.update_run_routing: the UPDATE, whatever the status is by now.
StorePatch(w) ==
  /\ patch[w] # None
  /\ routing' = patch[w]
  /\ patch' = [patch EXCEPT ![w] = None]
  /\ UNCHANGED <<vars, registry, patches>>

\* The request's thread dies before the UPDATE.
LosePatch(w) ==
  /\ patch[w] # None
  /\ patch' = [patch EXCEPT ![w] = None]
  /\ UNCHANGED <<vars, routing, registry, patches>>

RoutedNext ==
  \/ /\ \/ \E p \in Procs : Call(p) \/ Killed(p)
        \/ \E o \in Operators, s \in {"running", "paused", "stopped"} : Issue(o, s)
        \/ \E l \in Loops : LoopStep(l)
     /\ RegistriesClose
     /\ UNCHANGED <<routing, patch, patches>>
  \/ \E l \in Loops : LaunchRouted(l)
  \/ \E w \in Patchers, p \in Requests : CheckPatch(w, p)
  \/ \E w \in Patchers : StorePatch(w) \/ LosePatch(w)
  \/ Finished /\ UNCHANGED routingVars

RoutedSpec     == RoutedInit /\ [][RoutedNext]_routedVars
FairRoutedSpec == RoutedSpec /\ Fairness

-------------------------------------------------------------------------------
(* Properties. *)

\* Types; a loop has a registry exactly while its process lives.
RoutedTypeOK ==
  /\ TypeOK
  /\ routing \in Routings
  /\ patch \in [Patchers -> Routings \cup {None}]
  /\ registry \in [Loops -> Routings \cup {None}]
  /\ patches \in 0..MaxPatches
  /\ \A l \in Loops : registry[l] = None <=> phase[l] \in {"off", "exited"}

Served(r) == \A s \in Sides : Chain(r, s) \subseteq Adapters(r)

\* Whatever was configured, requested and patched meanwhile, every backend a
\* driver may ask is in its registry: resolve_backend_chain never looks up a name
\* that nobody defined (a KeyError there would fail the run).
EveryChainIsServed ==
  \A l \in Loops : registry[l] # None => Served(registry[l])

Settled == status # "created" /\ \A w \in Patchers : patch[w] = None

\* Once a run has left "created" and no patch is on its way, its routing is final:
\* no later request and no transition can change which models it is compared by.
RoutingSettles == [][Settled => Settled' /\ routing' = routing]_routedVars
===============================================================================
