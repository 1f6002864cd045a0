------------------------- MODULE MCOutputTransaction -------------------------
(* Every list of up to three outputs over three destinations, repetitions     *)
(* included, each destination there or not, three failures and a crash.       *)
EXTENDS OutputTransaction

CONSTANTS exe, profile, header

MCDestinations == {exe, profile, header}
MCRequestLists == UNION {[1 .. n -> MCDestinations] : n \in 1 .. 3}

AllOps == {"stage", "check", "backup", "replace", "discard", "remove-new",
           "restore", "drop-stage", "drop-backup"}
=============================================================================
