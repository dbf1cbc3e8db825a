----------------------------- MODULE MCMigration -----------------------------
(* Two members in the export and one outside it, two operators, three scripts. *)
EXTENDS Migration, TLC

CONSTANTS alice, bob, carol, o1, o2

Interchangeable == Permutations({o1, o2})

ExportFile == <<alice, bob>>
==============================================================================
