--------------------------- MODULE HarnessLifecycle ---------------------------
(***************************************************************************)
(* One research profile: ResearchHarness.boot and HarnessSession.close     *)
(* (src/discoveryos/harness/plugins.py), ResearchContext.extend            *)
(* (context.py), and HarnessSearchRuntime.build, run and close             *)
(* (runtime.py).                                                           *)
(*                                                                         *)
(* Any plugin code, and any write to the ledger, may raise.  A service is  *)
(* told apart by who made the object it is bound to: a plugin or "root".   *)
(***************************************************************************)
EXTENDS Naturals, Sequences, Functions

CONSTANTS
  Plugins,
  Profile,       \* the plugins of the profile in their order
  Services,
  Authority,     \* services no plugin may replace
  RootServices,  \* services the root context binds
  Requires,      \* per plugin, from its manifest
  Provides,
  Needed,        \* services build takes from the session
  MaxCloses      \* bound: calls of close by the runtime's user

ASSUME HarnessAssumption ==
  /\ Profile \in Seq(Plugins)
  /\ \A i, j \in 1..Len(Profile) : Profile[i] = Profile[j] => i = j
  /\ "root" \notin Plugins /\ "none" \notin Plugins
  /\ RootServices \subseteq Services /\ Authority \subseteq Services /\ Needed \subseteq Services
  /\ Requires \in [Plugins -> SUBSET Services]
  /\ Provides \in [Plugins -> SUBSET Services]
  /\ MaxCloses \in Nat

VARIABLES
  phase,
  context,       \* context[s]: whose object get(s) returns in the innermost scope
  offered,       \* services of the activation under scrutiny
  activations,   \* plugins boot has accepted, in order
  live,          \* plugins activated and not disposed of
  uses,          \* uses[p][s]: whose object p found under a service it requires
  left,          \* teardown: activations still to dispose of
  closed, ran, closes

vars == <<phase, context, offered, activations, live, uses, left, closed, ran, closes>>
bootVars == <<context, offered, activations, live, uses>>
userVars == <<closed, ran, closes>>

Teardowns == {"rollback", "unwinding", "closing"}
Phases == Teardowns \cup
          {"idle", "loading", "checking", "registering", "ready", "built", "running", "failed"}

Owners == Plugins \cup {"root"}
Nothing == [s \in {} |-> "root"]
Bound == {s \in Services : context[s] # "none"}

\* The plugin boot is at.
Current == Profile[Len(activations) + 1]

Goto(p) == phase' = p

\* A teardown takes the activations from the last to the first.
BeginTeardown(p) == Goto(p) /\ left' = Len(activations)

Init ==
  /\ phase = "idle"
  /\ context = [s \in Services |-> IF s \in RootServices THEN "root" ELSE "none"]
  /\ offered = Nothing
  /\ activations = <<>>
  /\ live = {}
  /\ uses = [p \in Plugins |-> [s \in Services |-> "none"]]
  /\ left = 0
  /\ closed = FALSE /\ ran = FALSE /\ closes = 0

-----------------------------------------------------------------------------
(* Boot *)

\* The profile's node, edge and event come before the try block.
Boot ==
  /\ phase = "idle"
  /\ phase' \in {"loading", "failed"}
  /\ UNCHANGED <<bootVars, left, userVars>>

\* The activation may offer its own objects or pass on what it found, under
\* any service, declared or not.
Activate ==
  /\ phase = "loading" /\ Len(activations) < Len(Profile)
  /\ Requires[Current] \subseteq Bound
  /\ \E S \in SUBSET Services :
       offered' \in {o \in [S -> Owners] :
                       \A s \in S : o[s] \in {Current, context[s]}}
  /\ live' = live \cup {Current}
  /\ uses' = [uses EXCEPT ![Current] =
                [s \in Services |-> IF s \in Requires[Current] THEN context[s] ELSE "none"]]
  /\ Goto("checking")
  /\ UNCHANGED <<context, activations, left, userVars>>

\* Unknown plugin, another manifest digest, missing services, or an exception
\* inside activate.
RefusePlugin ==
  /\ phase = "loading" /\ Len(activations) < Len(Profile)
  /\ BeginTeardown("rollback")
  /\ UNCHANGED <<bootVars, userVars>>

Overrides == {s \in DOMAIN offered \cap Authority :
                context[s] # "none" /\ offered[s] # context[s]}

\* Mutant: the layer is added without looking at authority services.
AcceptActivationUnchecked ==
  /\ phase = "checking"
  /\ DOMAIN offered \subseteq Provides[Current]
  /\ context' = [s \in Services |-> IF s \in DOMAIN offered THEN offered[s] ELSE context[s]]
  /\ activations' = Append(activations, Current)
  /\ offered' = Nothing
  /\ Goto("registering")
  /\ UNCHANGED <<live, uses, left, userVars>>

\* The manifest's capabilities and services, then extend; only now the
\* activation is on the list.
AcceptActivation ==
  /\ phase = "checking"
  /\ DOMAIN offered \subseteq Provides[Current]
  /\ Overrides = {}
  /\ context' = [s \in Services |-> IF s \in DOMAIN offered THEN offered[s] ELSE context[s]]
  /\ activations' = Append(activations, Current)
  /\ offered' = Nothing
  /\ Goto("registering")
  /\ UNCHANGED <<live, uses, left, userVars>>

\* Capabilities other than the manifest's, or an object of the wrong type, are
\* refused whatever else the activation offers.
RejectActivation ==
  /\ phase = "checking"
  /\ offered' = Nothing
  /\ BeginTeardown("rollback")
  /\ UNCHANGED <<context, activations, live, uses, userVars>>

\* The plugin's node, edge and event.
Register ==
  /\ phase = "registering"
  /\ \/ Goto("loading") /\ UNCHANGED left
     \/ BeginTeardown("rollback")
  /\ UNCHANGED <<bootVars, userVars>>

\* Mutant: ready with one plugin to go.
ReadyEarly ==
  /\ phase = "loading" /\ Len(activations) + 1 >= Len(Profile)
  /\ phase' \in {"ready", "failed"}
  /\ UNCHANGED <<bootVars, left, userVars>>

\* The event comes after the try block: if it cannot be written nothing is
\* rolled back.
Ready ==
  /\ phase = "loading" /\ Len(activations) = Len(Profile)
  /\ phase' \in {"ready", "failed"}
  /\ UNCHANGED <<bootVars, left, userVars>>

-----------------------------------------------------------------------------
(* Teardown: rollback, close by build, close by run or by the user *)

After(p) == IF p = "closing" THEN "built" ELSE "failed"

\* Mutant: providers first.
DisposePluginForward ==
  /\ phase \in Teardowns /\ left > 0
  /\ live' = live \ {activations[Len(activations) - left + 1]}
  /\ left' = left - 1
  /\ UNCHANGED <<phase, context, offered, activations, uses, userVars>>

DisposePlugin ==
  /\ phase \in Teardowns /\ left > 0
  /\ live' = live \ {activations[left]}
  /\ left' = left - 1
  /\ UNCHANGED <<phase, context, offered, activations, uses, userVars>>

\* dispose raises, having released the plugin or not, or its event cannot be
\* written: the plugins before it are left as they are.
DisposeRaises ==
  /\ phase \in Teardowns /\ left > 0
  /\ live' \in {live, live \ {activations[left]}}
  /\ left' = 0
  /\ Goto(After(phase))
  /\ UNCHANGED <<context, offered, activations, uses, userVars>>

\* The last event may fail to be written, and then the session is not closed.
EndTeardown ==
  /\ phase \in Teardowns /\ left = 0
  /\ closed' \in IF phase = "rollback" THEN {FALSE} ELSE {TRUE, FALSE}
  /\ Goto(After(phase))
  /\ UNCHANGED <<bootVars, left, ran, closes>>

-----------------------------------------------------------------------------
(* The runtime *)

Build ==
  /\ phase = "ready"
  /\ \/ Needed \subseteq Bound /\ Goto("built") /\ UNCHANGED left
     \/ BeginTeardown("unwinding")
  /\ UNCHANGED <<bootVars, userVars>>

\* closes = 0 is the user's part: every caller runs the search before closing,
\* and run does not ask.  If the first event cannot be written the search does
\* not run and nothing is closed.
Run ==
  /\ phase = "built" /\ ~ran /\ closes = 0
  /\ ran' = TRUE
  /\ phase' \in {"running", "built"}
  /\ UNCHANGED <<bootVars, left, closed, closes>>

\* However the search ends, its finally clause closes the session.
EndRun ==
  /\ phase = "running"
  /\ BeginTeardown("closing")
  /\ UNCHANGED <<bootVars, userVars>>

\* Mutant: the flag is set before the work is done.
CloseMarkedFirst ==
  /\ phase = "built" /\ closes < MaxCloses
  /\ closes' = closes + 1
  /\ IF closed THEN UNCHANGED <<phase, left, closed>>
               ELSE BeginTeardown("closing") /\ closed' = TRUE
  /\ UNCHANGED <<bootVars, ran>>

Close ==
  /\ phase = "built" /\ closes < MaxCloses
  /\ closes' = closes + 1
  /\ IF closed THEN UNCHANGED <<phase, left>> ELSE BeginTeardown("closing")
  /\ UNCHANGED <<bootVars, closed, ran>>

-----------------------------------------------------------------------------

Next ==
  \/ Boot \/ Activate \/ RefusePlugin \/ AcceptActivation \/ RejectActivation
  \/ Register \/ Ready
  \/ DisposePlugin \/ DisposeRaises \/ EndTeardown
  \/ Build \/ Run \/ EndRun \/ Close

HarnessSpec == Init /\ [][Next]_vars

-----------------------------------------------------------------------------
(* Properties *)

HarnessTypeOK ==
  /\ phase \in Phases
  /\ context \in [Services -> Owners \cup {"none"}]
  /\ DOMAIN offered \subseteq Services /\ \A s \in DOMAIN offered : offered[s] \in Owners
  /\ activations \in Seq(Plugins) /\ Len(activations) <= Len(Profile)
  /\ live \subseteq Plugins
  /\ uses \in [Plugins -> [Services -> Owners \cup {"none"}]]
  /\ left \in 0..Len(activations)
  /\ closed \in BOOLEAN /\ ran \in BOOLEAN /\ closes \in 0..MaxCloses

\* "Tears it down in reverse order": while a plugin the profile has loaded is
\* active, so is every plugin whose objects it was given, in boot, rollback,
\* close, and after a dispose that raised and a second close.
ProvidersOutliveUsers ==
  \A p \in live \cap Range(activations) :
    \A s \in Requires[p] : uses[p][s] \in live \cup {"root"}

\* A closed session has nothing active, though a close may raise half way and
\* be called again.
ClosedMeansDisposed == closed => live = {}

\* The authority services are the root's own objects for every plugin and for
\* the search, whatever the plugins before offered.
AuthorityIsRoots ==
  \A s \in Authority \cap RootServices :
    /\ context[s] = "root"
    /\ \A p \in Range(activations) :
         s \in Requires[p] => uses[p][s] = "root"

\* The search runs on the whole profile: every plugin is active, and so is the
\* owner of every service it can get.
SearchHasItsPlugins ==
  phase = "running" =>
    /\ live = Range(Profile)
    /\ \A s \in Services : context[s] \in live \cup {"root", "none"}

\* docs/RESEARCH_HARNESS_V0.md: if activation fails, the plugins already
\* started are disposed of.
FailedBootLeavesNothing == phase = "failed" => live = {}
=============================================================================
