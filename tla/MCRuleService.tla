--------------------------- MODULE MCRuleService ---------------------------
(* Small instances of RuleService.                                          *)
EXTENDS RuleService

CONSTANTS p1, p2

=============================================================================
