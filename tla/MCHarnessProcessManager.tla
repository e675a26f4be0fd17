---------------------- MODULE MCHarnessProcessManager ----------------------
(* Small instances of HarnessProcessManager. *)
EXTENDS HarnessProcessManager

\* What the calls ask for: steering, which takes any harness; a turn that names
\* a model, and another harness after an agent switch.
SwitchWants == {AnyHarness, [harness |-> "sdk", model |-> "m1"],
                [harness |-> "codex", model |-> NoModel]}
OneWant == {[harness |-> "sdk", model |-> NoModel]}

Symmetry ==
    Permutations(Convs) \cup Permutations(Calls) \cup Permutations(Releases)
        \cup Permutations(Procs)
=============================================================================
