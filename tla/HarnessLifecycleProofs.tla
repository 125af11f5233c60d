------------------------ MODULE HarnessLifecycleProofs ------------------------
(***************************************************************************)
(* The safety properties of HarnessLifecycle for every profile, set of     *)
(* services and manifest.  The heart of the inductive invariant is that    *)
(* the active plugins among the accepted ones are always an initial piece  *)
(* of the profile, and that a plugin was given objects of earlier ones.    *)
(***************************************************************************)
EXTENDS HarnessLifecycle, TLAPS

Count == Len(activations)

Before == {"idle", "loading", "checking", "registering"}
Complete == {"ready", "built", "running", "unwinding", "closing"}

\* boot takes the profile in order; after it the profile is complete.
InOrder ==
  /\ \A i \in 1..Count : activations[i] = Profile[i]
  /\ phase = "idle" => Count = 0
  /\ phase = "checking" => Count < Len(Profile)
  /\ phase \in Complete => Count = Len(Profile)

\* Nobody has torn anything down yet.
Untouched ==
  \/ phase \in Before \cup {"ready", "running"}
  \/ phase = "built" /\ ~ran /\ closes = 0

\* What is active: an initial piece of the accepted plugins, all of them until
\* a teardown begins, and none that the teardown has passed.
ActiveOnes ==
  /\ \A i, j \in 1..Count : i < j /\ activations[j] \in live => activations[i] \in live
  /\ Untouched => \A i \in 1..Count : activations[i] \in live
  /\ phase = "checking" => Current \in live
  /\ phase \in Teardowns => \A i \in 1..Count : activations[i] \in live => i <= left

\* Nobody else is, but the plugin under scrutiny, until boot rejects one.
OnlyAccepted ==
  /\ phase \in Complete \cup {"idle", "loading", "registering"} =>
       \A p \in live : \E i \in 1..Count : p = activations[i]
  /\ phase = "checking" =>
       \A p \in live : p = Current \/ \E i \in 1..Count : p = activations[i]

ClosedRight ==
  /\ phase = "closing" => ran \/ closes > 0
  /\ phase = "running" => ran
  /\ closed => /\ live = {}
               /\ phase = "failed" \/ (phase = "built" /\ (ran \/ closes > 0))

\* Objects come from the root or from accepted plugins.
Origins ==
  /\ \A s \in Services :
       context[s] \in {"none", "root"} \/ \E i \in 1..Count : context[s] = activations[i]
  /\ phase = "checking" =>
       \A s \in DOMAIN offered : offered[s] \in {Current, context[s]}

\* A plugin was given objects of the root or of plugins before it.
Given ==
  /\ \A i \in 1..Count : \A s \in Requires[activations[i]] :
       \/ uses[activations[i]][s] = "root"
       \/ \E j \in 1..Count : j < i /\ uses[activations[i]][s] = activations[j]
  /\ phase = "checking" => \A s \in Requires[Current] :
       uses[Current][s] = "root" \/ \E j \in 1..Count : uses[Current][s] = activations[j]

RootsOwn ==
  \A s \in Authority \cap RootServices :
    /\ context[s] = "root"
    /\ \A i \in 1..Count : s \in Requires[activations[i]] => uses[activations[i]][s] = "root"
    /\ phase = "checking" /\ s \in Requires[Current] => uses[Current][s] = "root"

Inv == HarnessTypeOK /\ InOrder /\ ActiveOnes /\ OnlyAccepted /\ ClosedRight
       /\ Origins /\ Given /\ RootsOwn

-----------------------------------------------------------------------------

LEMMA InitInv == Init => Inv
<1> SUFFICES ASSUME Init PROVE Inv
  OBVIOUS
<1> USE HarnessAssumption
<1>1. HarnessTypeOK
  <2>1. activations \in Seq(Plugins) /\ Len(activations) = 0 /\ Len(Profile) \in Nat
    BY DEF Init
  <2>2. context \in [Services -> Owners \cup {"none"}]
    BY DEF Init, Owners
  <2>3. DOMAIN offered = {}
    BY DEF Init, Nothing
  <2>4. uses \in [Plugins -> [Services -> Owners \cup {"none"}]]
    BY DEF Init
  <2>5. left \in 0..Len(activations) /\ closes \in 0..MaxCloses /\ Len(activations) <= Len(Profile)
    BY <2>1 DEF Init
  <2>6. phase \in Phases /\ live \subseteq Plugins /\ closed \in BOOLEAN /\ ran \in BOOLEAN
    BY DEF Init, Phases
  <2>7. QED
    BY <2>1, <2>2, <2>3, <2>4, <2>5, <2>6 DEF HarnessTypeOK
<1>2. InOrder /\ ActiveOnes /\ OnlyAccepted /\ ClosedRight
  BY DEF Init, InOrder, ActiveOnes, OnlyAccepted, ClosedRight, Count, Complete, Teardowns
<1>3. Origins /\ Given /\ RootsOwn
  BY DEF Init, Origins, Given, RootsOwn, Count
<1>4. QED
  BY <1>1, <1>2, <1>3 DEF Inv

\* Steps that add no layer leave the objects where they are.
LEMMA SameLayers ==
  ASSUME Inv, UNCHANGED <<context, activations, uses>>, phase' # "checking"
  PROVE  Origins' /\ Given' /\ RootsOwn'
<1>1. Origins'
  BY DEF Inv, Origins, Count
<1>2. Given'
  BY DEF Inv, Given, Count
<1>3. RootsOwn'
  BY DEF Inv, RootsOwn, Count
<1>4. QED
  BY <1>1, <1>2, <1>3

(* One lemma per action: it preserves each part of the invariant. *)

LEMMA BootKeeps == ASSUME Inv, Boot PROVE Inv'
<1> USE HarnessAssumption
<1>1. HarnessTypeOK'
  BY DEF Inv, HarnessTypeOK, Boot, Phases, Teardowns, bootVars, userVars
<1>2. InOrder'
  BY DEF Inv, HarnessTypeOK, InOrder, Boot, Complete, Teardowns, Count, bootVars, userVars
<1>3. ActiveOnes'
  BY DEF Inv, HarnessTypeOK, ActiveOnes, Untouched, Before, InOrder, Boot, Teardowns, Count,
     bootVars, userVars
<1>4. OnlyAccepted'
  BY DEF Inv, HarnessTypeOK, OnlyAccepted, Boot, Complete, Teardowns, Count, bootVars, userVars
<1>5. ClosedRight'
  BY DEF Inv, HarnessTypeOK, ClosedRight, Boot, Teardowns, bootVars, userVars
<1>6. Origins' /\ Given' /\ RootsOwn'
  BY SameLayers DEF Boot, Teardowns, bootVars, userVars
<1>7. QED
  BY <1>1, <1>2, <1>3, <1>4, <1>5, <1>6 DEF Inv

LEMMA RefusePluginKeeps == ASSUME Inv, RefusePlugin PROVE Inv'
<1> USE HarnessAssumption
<1>1. HarnessTypeOK'
  BY DEF Inv, HarnessTypeOK, RefusePlugin, Goto, BeginTeardown, Phases, Teardowns, bootVars,
     userVars
<1>2. InOrder'
  BY DEF Inv, HarnessTypeOK, InOrder, RefusePlugin, Goto, BeginTeardown, Complete, Teardowns,
     Count, bootVars, userVars
<1>3. ActiveOnes'
  BY DEF Inv, HarnessTypeOK, ActiveOnes, Untouched, Before, InOrder, RefusePlugin, Goto,
     BeginTeardown, Teardowns, Count, bootVars, userVars
<1>4. OnlyAccepted'
  BY DEF Inv, HarnessTypeOK, OnlyAccepted, RefusePlugin, Goto, BeginTeardown, Complete,
     Teardowns, Count, bootVars, userVars
<1>5. ClosedRight'
  BY DEF Inv, HarnessTypeOK, ClosedRight, RefusePlugin, Goto, BeginTeardown, Teardowns,
     bootVars, userVars
<1>6. Origins' /\ Given' /\ RootsOwn'
  BY SameLayers DEF RefusePlugin, Goto, BeginTeardown, Teardowns, bootVars, userVars
<1>7. QED
  BY <1>1, <1>2, <1>3, <1>4, <1>5, <1>6 DEF Inv

LEMMA RejectActivationKeeps == ASSUME Inv, RejectActivation PROVE Inv'
<1> USE HarnessAssumption
<1>1. HarnessTypeOK'
  BY DEF Inv, HarnessTypeOK, RejectActivation, Goto, BeginTeardown, Phases, Teardowns, userVars,
     Nothing, Owners
<1>2. InOrder'
  BY DEF Inv, HarnessTypeOK, InOrder, RejectActivation, Goto, BeginTeardown, Complete,
     Teardowns, Count, userVars, Nothing, Owners
<1>3. ActiveOnes'
  BY DEF Inv, HarnessTypeOK, ActiveOnes, Untouched, Before, InOrder, RejectActivation, Goto,
     BeginTeardown, Teardowns, Count, userVars, Nothing, Owners
<1>4. OnlyAccepted'
  BY DEF Inv, HarnessTypeOK, OnlyAccepted, RejectActivation, Goto, BeginTeardown, Complete,
     Teardowns, Count, userVars, Nothing, Owners
<1>5. ClosedRight'
  BY DEF Inv, HarnessTypeOK, ClosedRight, RejectActivation, Goto, BeginTeardown, Teardowns,
     userVars, Nothing, Owners
<1>6. Origins' /\ Given' /\ RootsOwn'
  BY SameLayers DEF RejectActivation, Goto, BeginTeardown, Teardowns, userVars, Nothing, Owners
<1>7. QED
  BY <1>1, <1>2, <1>3, <1>4, <1>5, <1>6 DEF Inv

LEMMA RegisterKeeps == ASSUME Inv, Register PROVE Inv'
<1> USE HarnessAssumption
<1>1. HarnessTypeOK'
  BY DEF Inv, HarnessTypeOK, Register, Goto, BeginTeardown, Phases, Teardowns, bootVars,
     userVars
<1>2. InOrder'
  BY DEF Inv, HarnessTypeOK, InOrder, Register, Goto, BeginTeardown, Complete, Teardowns, Count,
     bootVars, userVars
<1>3. ActiveOnes'
  BY DEF Inv, HarnessTypeOK, ActiveOnes, Untouched, Before, InOrder, Register, Goto,
     BeginTeardown, Teardowns, Count, bootVars, userVars
<1>4. OnlyAccepted'
  BY DEF Inv, HarnessTypeOK, OnlyAccepted, Register, Goto, BeginTeardown, Complete, Teardowns,
     Count, bootVars, userVars
<1>5. ClosedRight'
  BY DEF Inv, HarnessTypeOK, ClosedRight, Register, Goto, BeginTeardown, Teardowns, bootVars,
     userVars
<1>6. Origins' /\ Given' /\ RootsOwn'
  BY SameLayers DEF Register, Goto, BeginTeardown, Teardowns, bootVars, userVars
<1>7. QED
  BY <1>1, <1>2, <1>3, <1>4, <1>5, <1>6 DEF Inv

LEMMA ReadyKeeps == ASSUME Inv, Ready PROVE Inv'
<1> USE HarnessAssumption
<1>1. HarnessTypeOK'
  BY DEF Inv, HarnessTypeOK, Ready, Phases, Teardowns, bootVars, userVars
<1>2. InOrder'
  BY DEF Inv, HarnessTypeOK, InOrder, Ready, Complete, Teardowns, Count, bootVars, userVars
<1>3. ActiveOnes'
  BY DEF Inv, HarnessTypeOK, ActiveOnes, Untouched, Before, InOrder, Ready, Teardowns, Count,
     bootVars, userVars
<1>4. OnlyAccepted'
  BY DEF Inv, HarnessTypeOK, OnlyAccepted, Ready, Complete, Teardowns, Count, bootVars, userVars
<1>5. ClosedRight'
  BY DEF Inv, HarnessTypeOK, ClosedRight, Ready, Teardowns, bootVars, userVars
<1>6. Origins' /\ Given' /\ RootsOwn'
  BY SameLayers DEF Ready, Teardowns, bootVars, userVars
<1>7. QED
  BY <1>1, <1>2, <1>3, <1>4, <1>5, <1>6 DEF Inv

LEMMA BuildKeeps == ASSUME Inv, Build PROVE Inv'
<1> USE HarnessAssumption
<1>1. HarnessTypeOK'
  BY DEF Inv, HarnessTypeOK, Build, Goto, BeginTeardown, Phases, Teardowns, bootVars, userVars
<1>2. InOrder'
  BY DEF Inv, HarnessTypeOK, InOrder, Build, Goto, BeginTeardown, Complete, Teardowns, Count,
     bootVars, userVars
<1>3. ActiveOnes'
  BY DEF Inv, HarnessTypeOK, ActiveOnes, Untouched, Before, InOrder, Build, Goto, BeginTeardown,
     Teardowns, Count, bootVars, userVars
<1>4. OnlyAccepted'
  BY DEF Inv, HarnessTypeOK, OnlyAccepted, Build, Goto, BeginTeardown, Complete, Teardowns,
     Count, bootVars, userVars
<1>5. ClosedRight'
  BY DEF Inv, HarnessTypeOK, ClosedRight, Build, Goto, BeginTeardown, Teardowns, bootVars,
     userVars
<1>6. Origins' /\ Given' /\ RootsOwn'
  BY SameLayers DEF Build, Goto, BeginTeardown, Teardowns, bootVars, userVars
<1>7. QED
  BY <1>1, <1>2, <1>3, <1>4, <1>5, <1>6 DEF Inv

LEMMA RunKeeps == ASSUME Inv, Run PROVE Inv'
<1> USE HarnessAssumption
<1>1. HarnessTypeOK'
  BY DEF Inv, HarnessTypeOK, Run, Phases, Teardowns, bootVars
<1>2. InOrder'
  BY DEF Inv, HarnessTypeOK, InOrder, Run, Complete, Teardowns, Count, bootVars
<1>3. ActiveOnes'
  BY DEF Inv, HarnessTypeOK, ActiveOnes, Untouched, Before, InOrder, Run, Teardowns, Count,
     bootVars
<1>4. OnlyAccepted'
  BY DEF Inv, HarnessTypeOK, OnlyAccepted, Run, Complete, Teardowns, Count, bootVars
<1>5. ClosedRight'
  BY DEF Inv, HarnessTypeOK, ClosedRight, Run, Teardowns, bootVars
<1>6. Origins' /\ Given' /\ RootsOwn'
  BY SameLayers DEF Run, Teardowns, bootVars
<1>7. QED
  BY <1>1, <1>2, <1>3, <1>4, <1>5, <1>6 DEF Inv

LEMMA EndRunKeeps == ASSUME Inv, EndRun PROVE Inv'
<1> USE HarnessAssumption
<1>1. HarnessTypeOK'
  BY DEF Inv, HarnessTypeOK, EndRun, Goto, BeginTeardown, Phases, Teardowns, bootVars, userVars
<1>2. InOrder'
  BY DEF Inv, HarnessTypeOK, InOrder, EndRun, Goto, BeginTeardown, Complete, Teardowns, Count,
     bootVars, userVars
<1>3. ActiveOnes'
  BY DEF Inv, HarnessTypeOK, ActiveOnes, Untouched, Before, InOrder, EndRun, Goto,
     BeginTeardown, Teardowns, Count, bootVars, userVars
<1>4. OnlyAccepted'
  BY DEF Inv, HarnessTypeOK, OnlyAccepted, EndRun, Goto, BeginTeardown, Complete, Teardowns,
     Count, bootVars, userVars
<1>5. ClosedRight'
  BY DEF Inv, HarnessTypeOK, ClosedRight, EndRun, Goto, BeginTeardown, Teardowns, bootVars,
     userVars
<1>6. Origins' /\ Given' /\ RootsOwn'
  BY SameLayers DEF EndRun, Goto, BeginTeardown, Teardowns, bootVars, userVars
<1>7. QED
  BY <1>1, <1>2, <1>3, <1>4, <1>5, <1>6 DEF Inv

LEMMA CloseKeeps == ASSUME Inv, Close PROVE Inv'
<1> USE HarnessAssumption
<1>1. HarnessTypeOK'
  BY DEF Inv, HarnessTypeOK, Close, Goto, BeginTeardown, Phases, Teardowns, bootVars
<1>2. InOrder'
  BY DEF Inv, HarnessTypeOK, InOrder, Close, Goto, BeginTeardown, Complete, Teardowns, Count,
     bootVars
<1>3. ActiveOnes'
  BY DEF Inv, HarnessTypeOK, ActiveOnes, Untouched, Before, InOrder, Close, Goto, BeginTeardown,
     Teardowns, Count, bootVars
<1>4. OnlyAccepted'
  BY DEF Inv, HarnessTypeOK, OnlyAccepted, Close, Goto, BeginTeardown, Complete, Teardowns,
     Count, bootVars
<1>5. ClosedRight'
  BY DEF Inv, HarnessTypeOK, ClosedRight, Close, Goto, BeginTeardown, Teardowns, bootVars
<1>6. Origins' /\ Given' /\ RootsOwn'
  BY SameLayers DEF Close, Goto, BeginTeardown, Teardowns, bootVars
<1>7. QED
  BY <1>1, <1>2, <1>3, <1>4, <1>5, <1>6 DEF Inv

LEMMA DisposePluginKeeps == ASSUME Inv, DisposePlugin PROVE Inv'
<1> USE HarnessAssumption
<1>1. HarnessTypeOK'
  BY DEF Inv, HarnessTypeOK, DisposePlugin, Phases, Teardowns, userVars
<1>2. InOrder'
  BY DEF Inv, HarnessTypeOK, InOrder, DisposePlugin, Complete, Teardowns, Count, userVars
<1>3. ActiveOnes'
  <2>1. \A i, j \in 1..Count : activations[i] = activations[j] => i = j
    BY DEF Inv, InOrder, HarnessTypeOK, Count
  <2>2. left \in 1..Count /\ Count' = Count /\ activations' = activations /\ live' = live \ {activations[left]}
    BY DEF Inv, HarnessTypeOK, Count, DisposePlugin
  <2>3. \A i \in 1..Count : activations[i] \in live => i <= left
    BY DEF Inv, ActiveOnes, DisposePlugin
  <2>4. \A i, j \in 1..Count : i < j /\ activations[j] \in live => activations[i] \in live
    BY DEF Inv, ActiveOnes
  <2>5. ~Untouched' /\ phase' # "checking"
    BY DEF Inv, ClosedRight, DisposePlugin, Untouched, Before, Teardowns, userVars
  <2>6. \A i, j \in 1..Count : i < j /\ activations[j] \in live' => activations[i] \in live'
    BY <2>1, <2>2, <2>3, <2>4
  <2>7. phase' \in Teardowns => \A i \in 1..Count : activations[i] \in live' => i <= left'
    BY <2>1, <2>2, <2>3 DEF DisposePlugin, Teardowns
  <2>8. QED
    BY <2>2, <2>5, <2>6, <2>7 DEF ActiveOnes
<1>4. OnlyAccepted'
  BY DEF Inv, HarnessTypeOK, OnlyAccepted, DisposePlugin, Complete, Teardowns, Count, userVars
<1>5. ClosedRight'
  BY DEF Inv, HarnessTypeOK, ClosedRight, DisposePlugin, Teardowns, userVars
<1>6. Origins' /\ Given' /\ RootsOwn'
  BY SameLayers DEF DisposePlugin, Teardowns, userVars
<1>7. QED
  BY <1>1, <1>2, <1>3, <1>4, <1>5, <1>6 DEF Inv

LEMMA DisposeRaisesKeeps == ASSUME Inv, DisposeRaises PROVE Inv'
<1> USE HarnessAssumption
<1>1. HarnessTypeOK'
  BY DEF Inv, HarnessTypeOK, DisposeRaises, Goto, After, Phases, Teardowns, userVars
<1>2. InOrder'
  BY DEF Inv, HarnessTypeOK, InOrder, DisposeRaises, Goto, After, Complete, Teardowns, Count,
     userVars
<1>3. ActiveOnes'
  <2>1. \A i, j \in 1..Count : activations[i] = activations[j] => i = j
    BY DEF Inv, InOrder, HarnessTypeOK, Count
  <2>2. left \in 1..Count /\ Count' = Count /\ activations' = activations /\ live' \in {live, live \ {activations[left]}}
    BY DEF Inv, HarnessTypeOK, Count, DisposeRaises
  <2>3. \A i \in 1..Count : activations[i] \in live => i <= left
    BY DEF Inv, ActiveOnes, DisposeRaises
  <2>4. \A i, j \in 1..Count : i < j /\ activations[j] \in live => activations[i] \in live
    BY DEF Inv, ActiveOnes
  <2>5. ~Untouched' /\ phase' # "checking"
    BY DEF Inv, ClosedRight, DisposeRaises, Untouched, Before, Goto, After, Teardowns, userVars
  <2>6. \A i, j \in 1..Count : i < j /\ activations[j] \in live' => activations[i] \in live'
    BY <2>1, <2>2, <2>3, <2>4
  <2>7. phase' \in Teardowns => \A i \in 1..Count : activations[i] \in live' => i <= left'
    BY <2>1, <2>2, <2>3 DEF DisposeRaises, Goto, After, Teardowns
  <2>8. QED
    BY <2>2, <2>5, <2>6, <2>7 DEF ActiveOnes
<1>4. OnlyAccepted'
  BY DEF Inv, HarnessTypeOK, OnlyAccepted, DisposeRaises, Goto, After, Complete, Teardowns,
     Count, userVars
<1>5. ClosedRight'
  BY DEF Inv, HarnessTypeOK, ClosedRight, DisposeRaises, Goto, After, Teardowns, userVars
<1>6. Origins' /\ Given' /\ RootsOwn'
  BY SameLayers DEF DisposeRaises, Goto, After, Teardowns, userVars
<1>7. QED
  BY <1>1, <1>2, <1>3, <1>4, <1>5, <1>6 DEF Inv

LEMMA EndTeardownKeeps == ASSUME Inv, EndTeardown PROVE Inv'
<1> USE HarnessAssumption
<1>1. HarnessTypeOK'
  BY DEF Inv, HarnessTypeOK, EndTeardown, Goto, After, Phases, Teardowns, bootVars
<1>2. InOrder'
  BY DEF Inv, HarnessTypeOK, InOrder, EndTeardown, Goto, After, Complete, Teardowns, Count,
     bootVars
<1>3. ActiveOnes'
  <2>1. ~Untouched' /\ phase' \notin Teardowns /\ phase' # "checking"
    BY DEF Inv, ClosedRight, EndTeardown, Untouched, Before, Goto, After, Teardowns
  <2>2. QED
    BY <2>1 DEF Inv, ActiveOnes, EndTeardown, Count, bootVars
<1>4. OnlyAccepted'
  BY DEF Inv, HarnessTypeOK, OnlyAccepted, EndTeardown, Goto, After, Complete, Teardowns, Count,
     bootVars
<1>5. ClosedRight'
  <2>1. phase # "rollback" => live = {}
    BY DEF Inv, HarnessTypeOK, ActiveOnes, OnlyAccepted, EndTeardown, Teardowns, Complete, Count
  <2>2. QED
    BY <2>1 DEF Inv, HarnessTypeOK, ClosedRight, EndTeardown, Goto, After, Teardowns, bootVars
<1>6. Origins' /\ Given' /\ RootsOwn'
  BY SameLayers DEF EndTeardown, Goto, After, Teardowns, bootVars
<1>7. QED
  BY <1>1, <1>2, <1>3, <1>4, <1>5, <1>6 DEF Inv

LEMMA ActivateKeeps == ASSUME Inv, Activate PROVE Inv'
<1> USE HarnessAssumption
<1>1. /\ phase = "loading" /\ phase' = "checking" /\ Count \in Nat /\ Count < Len(Profile)
      /\ Count' = Count /\ Current' = Current /\ Current = Profile[Count + 1]
      /\ Current \in Plugins
      /\ UNCHANGED <<context, activations, left, userVars>>
  BY DEF Inv, HarnessTypeOK, Activate, Count, Current, Goto
<1>2. /\ DOMAIN offered' \subseteq Services
      /\ \A s \in DOMAIN offered' : offered'[s] \in Owners /\ offered'[s] \in {Current, context[s]}
  BY DEF Activate
<1>3. \A i \in 1..Count : activations[i] # Current /\ activations[i] \in Plugins
  BY <1>1 DEF Inv, HarnessTypeOK, InOrder, Count
<1>4. \A p \in Plugins : p # Current => uses'[p] = uses[p]
  BY DEF Activate, Inv, HarnessTypeOK
<1>5. \A s \in Requires[Current] :
        s \in Services /\ uses'[Current][s] = context[s] /\ context[s] # "none"
  BY <1>1 DEF Activate, Bound, Inv, HarnessTypeOK
<1>6. HarnessTypeOK'
  <2>1. uses' \in [Plugins -> [Services -> Owners \cup {"none"}]]
    BY <1>1 DEF Activate, Inv, HarnessTypeOK
  <2>2. live' \subseteq Plugins
    BY <1>1 DEF Activate, Inv, HarnessTypeOK
  <2>3. QED
    BY <1>1, <1>2, <2>1, <2>2 DEF Inv, HarnessTypeOK, Phases, userVars
<1>7. InOrder'
  BY <1>1 DEF Inv, InOrder, Complete, Count
<1>8. ActiveOnes'
  <2>1. \A i \in 1..Count : activations[i] \in live'
    BY <1>1 DEF Inv, ActiveOnes, Untouched, Before, Activate
  <2>2. Current \in live'
    BY DEF Activate
  <2>3. QED
    BY <1>1, <2>1, <2>2 DEF ActiveOnes, Teardowns, Count
<1>9. OnlyAccepted'
  <2>1. \A p \in live' : p = Current \/ \E i \in 1..Count : p = activations[i]
    BY <1>1 DEF Inv, OnlyAccepted, Activate
  <2>2. QED
    BY <1>1, <2>1 DEF OnlyAccepted, Complete
<1>10. ClosedRight'
  BY <1>1 DEF Inv, ClosedRight, userVars
<1>11. Origins'
  BY <1>1, <1>2 DEF Inv, Origins, Count
<1>12. Given'
  <2>1. \A i \in 1..Count : uses'[activations[i]] = uses[activations[i]]
    BY <1>3, <1>4
  <2>2. \A s \in Requires[Current] :
          uses'[Current][s] = "root" \/ \E j \in 1..Count : uses'[Current][s] = activations[j]
    BY <1>5 DEF Inv, Origins
  <2>3. QED
    <3>1. \A i \in 1..Count : \A s \in Requires[activations[i]] :
            \/ uses'[activations[i]][s] = "root"
            \/ \E j \in 1..Count : j < i /\ uses'[activations[i]][s] = activations[j]
      <4> TAKE i \in 1..Count
      <4> TAKE s \in Requires[activations[i]]
      <4>1. uses'[activations[i]] = uses[activations[i]]
        BY <2>1
      <4>2. \/ uses[activations[i]][s] = "root"
            \/ \E j \in 1..Count : j < i /\ uses[activations[i]][s] = activations[j]
        BY DEF Inv, Given
      <4>3. QED
        BY <4>1, <4>2
    <3>2. QED
      BY <1>1, <2>2, <3>1 DEF Given
<1>13. RootsOwn'
  BY <1>1, <1>3, <1>4, <1>5 DEF Inv, RootsOwn
<1>14. QED
  BY <1>6, <1>7, <1>8, <1>9, <1>10, <1>11, <1>12, <1>13 DEF Inv

LEMMA AcceptActivationKeeps == ASSUME Inv, AcceptActivation PROVE Inv'
<1> USE HarnessAssumption
<1>1. /\ phase = "checking" /\ phase' = "registering" /\ Count \in Nat /\ Count < Len(Profile)
      /\ Current = Profile[Count + 1] /\ Current \in Plugins
      /\ UNCHANGED <<live, uses, left, userVars>>
  BY DEF Inv, HarnessTypeOK, InOrder, AcceptActivation, Count, Current, Goto
<1>2. /\ activations' \in Seq(Plugins) /\ Count' = Count + 1
      /\ activations'[Count + 1] = Current
      /\ \A i \in 1..Count : activations'[i] = activations[i]
  BY <1>1 DEF Inv, HarnessTypeOK, AcceptActivation, Count
<1>3. \A s \in Services :
        \/ context'[s] = context[s]
        \/ context'[s] = Current /\ ~(s \in Authority /\ context[s] # "none")
  BY DEF Inv, Origins, AcceptActivation, Overrides
<1>4. context' \in [Services -> Owners \cup {"none"}] /\ DOMAIN offered' = {}
  BY DEF Inv, HarnessTypeOK, AcceptActivation, Nothing
<1>5. HarnessTypeOK'
  BY <1>1, <1>2, <1>4 DEF Inv, HarnessTypeOK, Phases, userVars, Count
<1>6. InOrder'
  BY <1>1, <1>2 DEF Inv, InOrder, Complete
<1>7. ActiveOnes'
  <2>1. \A i \in 1..Count + 1 : activations'[i] \in live
    BY <1>1, <1>2 DEF Inv, ActiveOnes, Untouched, Before
  <2>2. QED
    BY <1>1, <1>2, <2>1 DEF ActiveOnes, Teardowns
<1>8. OnlyAccepted'
  <2>1. \A p \in live : \E i \in 1..Count + 1 : p = activations'[i]
    BY <1>1, <1>2 DEF Inv, OnlyAccepted
  <2>2. QED
    BY <1>1, <1>2, <2>1 DEF OnlyAccepted
<1>9. ClosedRight'
  BY <1>1 DEF Inv, ClosedRight, userVars
<1>10. Origins'
  BY <1>1, <1>2, <1>3 DEF Inv, Origins
<1>11. Given'
  <2>0. Count' = Count + 1 /\ uses' = uses /\ phase' # "checking"
    BY <1>1, <1>2
  <2> SUFFICES ASSUME NEW i \in 1..Count', NEW s \in Requires[activations'[i]]
      PROVE  \/ uses'[activations'[i]][s] = "root"
             \/ \E j \in 1..Count' : j < i /\ uses'[activations'[i]][s] = activations'[j]
    BY <2>0 DEF Given
  <2>1. CASE i \in 1..Count
    <3>1. \/ uses[activations[i]][s] = "root"
          \/ \E j \in 1..Count : j < i /\ uses[activations[i]][s] = activations[j]
      BY <1>2, <2>1 DEF Inv, Given
    <3>2. activations'[i] = activations[i]
      BY <1>2, <2>1
    <3>3. ASSUME NEW j \in 1..Count, j < i, uses[activations[i]][s] = activations[j]
          PROVE  j \in 1..Count' /\ uses[activations'[i]][s] = activations'[j]
      BY <1>1, <1>2, <3>2, <3>3
    <3>4. QED
      BY <2>0, <3>1, <3>2, <3>3
  <2>2. CASE i = Count + 1
    <3>1. uses[Current][s] = "root" \/ \E j \in 1..Count : uses[Current][s] = activations[j]
      BY <1>1, <1>2, <2>2 DEF Inv, Given
    <3>2. activations'[i] = Current
      BY <1>2, <2>2
    <3>3. ASSUME NEW j \in 1..Count, uses[Current][s] = activations[j]
          PROVE  j \in 1..Count' /\ j < i /\ uses[activations'[i]][s] = activations'[j]
      BY <1>1, <1>2, <2>2, <3>2, <3>3
    <3>4. QED
      BY <2>0, <3>1, <3>2, <3>3
  <2>3. QED
    BY <1>1, <2>0, <2>1, <2>2
<1>12. RootsOwn'
  <2> SUFFICES ASSUME NEW s \in Authority \cap RootServices
      PROVE  /\ context'[s] = "root"
             /\ \A i \in 1..Count + 1 :
                  s \in Requires[activations'[i]] => uses[activations'[i]][s] = "root"
    BY <1>1, <1>2 DEF RootsOwn
  <2>1. context'[s] = "root"
    BY <1>3 DEF Inv, RootsOwn
  <2>2. ASSUME NEW i \in 1..Count + 1, s \in Requires[activations'[i]]
        PROVE  uses[activations'[i]][s] = "root"
    <3>1. CASE i \in 1..Count
      BY <1>2, <2>2, <3>1 DEF Inv, RootsOwn
    <3>2. CASE i = Count + 1
      BY <1>1, <1>2, <2>2, <3>2 DEF Inv, RootsOwn
    <3>3. QED
      BY <1>1, <3>1, <3>2
  <2>3. QED
    BY <2>1, <2>2
<1>13. QED
  BY <1>5, <1>6, <1>7, <1>8, <1>9, <1>10, <1>11, <1>12 DEF Inv

-----------------------------------------------------------------------------

LEMMA StepKeepsInv == Inv /\ [Next]_vars => Inv'
<1> SUFFICES ASSUME Inv, [Next]_vars PROVE Inv'
  OBVIOUS
<1>1. CASE Next
  BY <1>1, BootKeeps, ActivateKeeps, RefusePluginKeeps, AcceptActivationKeeps,
     RejectActivationKeeps, RegisterKeeps, ReadyKeeps, DisposePluginKeeps, DisposeRaisesKeeps,
     EndTeardownKeeps, BuildKeeps, RunKeeps, EndRunKeeps, CloseKeeps DEF Next
<1>2. CASE UNCHANGED vars
  <2>1. HarnessTypeOK' /\ InOrder' /\ ActiveOnes' /\ OnlyAccepted' /\ ClosedRight'
    BY <1>2 DEF vars, Inv, HarnessTypeOK, InOrder, ActiveOnes, OnlyAccepted, ClosedRight,
       Untouched, Count, Current
  <2>2. Origins' /\ Given' /\ RootsOwn'
    BY <1>2 DEF vars, Inv, Origins, Given, RootsOwn, Count, Current
  <2>3. QED
    BY <2>1, <2>2 DEF Inv
<1>3. QED
  BY <1>1, <1>2

\* The inductive invariant holds in every state of every lifecycle.
THEOREM LifecycleInvariant == HarnessSpec => []Inv
<1>1. QED
  BY InitInv, StepKeepsInv, PTL DEF HarnessSpec

\* Every state of boot, runtime and teardown is well typed.
THEOREM HarnessTypeCorrect == HarnessSpec => []HarnessTypeOK
<1>1. Inv => HarnessTypeOK
  BY DEF Inv
<1>2. QED
  BY <1>1, LifecycleInvariant, PTL

\* No teardown, complete or cut short and repeated, takes a plugin away before
\* the accepted plugins that were given its objects.
THEOREM ProvidersAlwaysOutliveUsers == HarnessSpec => []ProvidersOutliveUsers
<1>1. ASSUME Inv PROVE ProvidersOutliveUsers
  <2> SUFFICES ASSUME NEW p \in live \cap Range(activations), NEW s \in Requires[p]
      PROVE  uses[p][s] \in live \cup {"root"}
    BY DEF ProvidersOutliveUsers
  <2>1. PICK i \in 1..Count : p = activations[i]
    BY <1>1 DEF Inv, HarnessTypeOK, Range, Count
  <2>2. CASE uses[p][s] = "root"
    BY <2>2
  <2>3. ASSUME NEW j \in 1..Count, j < i, uses[p][s] = activations[j]
        PROVE  uses[p][s] \in live
    BY <1>1, <2>1, <2>3 DEF Inv, ActiveOnes
  <2>4. QED
    BY <1>1, <2>1, <2>2, <2>3 DEF Inv, Given
<1>2. QED
  BY <1>1, LifecycleInvariant, PTL

\* A closed session has nothing active.
THEOREM ClosedAlwaysDisposed == HarnessSpec => []ClosedMeansDisposed
<1>1. Inv => ClosedMeansDisposed
  BY DEF Inv, ClosedRight, ClosedMeansDisposed
<1>2. QED
  BY <1>1, LifecycleInvariant, PTL

\* The root's authority objects are what every accepted plugin was given.
THEOREM AuthorityAlwaysRoots == HarnessSpec => []AuthorityIsRoots
<1>1. ASSUME Inv PROVE AuthorityIsRoots
  <2>1. \A p \in Range(activations) : \E i \in 1..Count : p = activations[i]
    BY <1>1 DEF Inv, HarnessTypeOK, Range, Count
  <2>2. QED
    BY <1>1, <2>1 DEF Inv, RootsOwn, AuthorityIsRoots
<1>2. QED
  BY <1>1, LifecycleInvariant, PTL

\* A search starts and runs with every plugin of its profile active.
THEOREM SearchAlwaysHasItsPlugins == HarnessSpec => []SearchHasItsPlugins
<1>1. ASSUME Inv, phase = "running"
      PROVE  /\ live = Range(Profile)
             /\ \A s \in Services : context[s] \in live \cup {"root", "none"}
  <2>1. /\ Count = Len(Profile) /\ Len(Profile) \in Nat
        /\ \A i \in 1..Count : activations[i] = Profile[i] /\ activations[i] \in live
    BY <1>1, HarnessAssumption DEF Inv, InOrder, Complete, ActiveOnes, Untouched
  <2>2. \A p \in live : \E i \in 1..Count : p = activations[i]
    BY <1>1 DEF Inv, OnlyAccepted, Complete
  <2>3. Range(Profile) = {Profile[i] : i \in 1..Len(Profile)}
    BY HarnessAssumption DEF Range
  <2>4. QED
    BY <1>1, <2>1, <2>2, <2>3 DEF Inv, Origins
<1>2. Inv => SearchHasItsPlugins
  BY <1>1 DEF SearchHasItsPlugins
<1>3. QED
  BY <1>2, LifecycleInvariant, PTL
=============================================================================
