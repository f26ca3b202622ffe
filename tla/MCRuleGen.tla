----------------------------- MODULE MCRuleGen -----------------------------
(* Two seeded sources and a name without a row; two doctors beside one     *)
(* toggle.                                                                 *)
EXTENDS RuleGen

MCKinds == {<<"", "unknown">>}
=============================================================================
