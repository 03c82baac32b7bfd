---------------------------- MODULE MCRuleEngine ----------------------------
(* RuleEngine, with the history variable of ScanCoverage, for TLC.         *)
EXTENDS ScanCoverage, TLC

Symmetry == Permutations(Rules) \cup Permutations(Scanners)
=============================================================================
