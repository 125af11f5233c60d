-------------------------- MODULE MCHarnessLifecycle --------------------------
(* The shape of the built-in profile: two operator plugins that hand the     *)
(* registry on, and a router that makes the controller from it.              *)
EXTENDS HarnessLifecycle

CONSTANTS direct, lineage, router, ledger, registry, controller

MCProfile == <<direct, lineage, router>>

MCRequires == [p \in {direct, lineage, router} |->
  CASE p = direct -> {ledger} [] p = lineage -> {ledger, registry} [] p = router -> {registry}]

\* lineage claims the ledger too, which extend must refuse, and a controller,
\* which router then replaces.
MCProvides == [p \in {direct, lineage, router} |->
  CASE p = direct -> {registry} [] p = lineage -> {registry, ledger, controller} [] p = router -> {controller}]
=============================================================================
