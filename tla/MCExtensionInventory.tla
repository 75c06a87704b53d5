------------------------ MODULE MCExtensionInventory ------------------------
(* A catalog that gains a resource and withdraws another.                  *)
EXTENDS ExtensionInventory
CONSTANTS t1, t2, a, b, c

MCTasks == {t1, t2}

MCIds == {a, b, c}
MCOffer == [v \in 0..MaxChanges |-> IF v = 0 THEN {a, b} ELSE IF v = 1 THEN {b, c} ELSE {a, c}]
MCPreset == {a, b}
=============================================================================
