----------------------------- MODULE MCEnvSwitch -----------------------------
(* Families of threads and budgets for model checking EnvSwitch.           *)
EXTENDS EnvSwitch, TLC

CONSTANTS p, c

\* A root p and its sub-agent c.
Family == (p :> None) @@ (c :> p)
TornSwitches == (p :> 3) @@ (c :> 0)
FamilySwitches == (p :> 2) @@ (c :> 2)

CwdSymmetry == Permutations(Cwds)
==============================================================================
