---------------------------- MODULE MCBindingLife ----------------------------
(* Small instances of BindingLife: b1 is owned by its pod, b2 is retained. *)
EXTENDS BindingLife

CONSTANTS b1, b2

Scenario(f, a) == [faults |-> f, acts |-> a]

\* A deletion, a switch or a rolling update, with what may go wrong meanwhile; and what goes
\* wrong when nobody does anything.
MCScenarios ==
  {Scenario({}, {"pod"}),
   Scenario({"restart"}, {"binding"}), Scenario({"restart"}, {"switch"}),
   Scenario({"cloud"}, {"binding"}), Scenario({"cloud", "restart"}, {}),
   Scenario({"write"}, {"binding"}), Scenario({"stale"}, {})}

\* A binding is deleted, and a reconcile begins with an old copy.
StaleScenarios == {Scenario({"stale"}, {"binding"})}
=============================================================================
