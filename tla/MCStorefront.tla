----------------------------- MODULE MCStorefront -----------------------------
(* A small instance of Storefront for TLC.                                  *)
EXTENDS Storefront, TLC

CONSTANTS builderBlock, jsonBlock, plugin, otherPlugin, variant, guest1, guest2, call1, call2, day1, day2
TheRequired == [b \in {builderBlock, jsonBlock} |-> IF b = jsonBlock THEN {plugin} ELSE {}]
TheStock == [v \in {variant} |-> 2]
Tabs == Permutations({call1, call2})
==============================================================================
