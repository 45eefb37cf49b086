------------------------------ MODULE MCOMap ------------------------------
(* Instances of OMap and of OSMap for TLC: a behaviour is of one of them.  *)
EXTENDS OMap
CONSTANTS KeyCount, OSKeyCount, Fanout, Prealloc
VARIABLES package, osRoot, osLength, allocCntr, osAnswer, panicked

SomeKeys == 1..KeyCount
osVars == <<osRoot, osLength, allocCntr, osAnswer, panicked>>
O == INSTANCE OSMap WITH Keys <- 1..OSKeyCount, Values <- Values,
                         root <- osRoot, length <- osLength, answer <- osAnswer

MCInit ==
    /\ Init /\ O!Init
    /\ package \in {"omap", "osmaps"}
    /\ package = "osmaps" => use = "all"

MCNext ==
    \/ package = "omap" /\ Next /\ UNCHANGED <<package, osVars>>
    \/ package = "osmaps" /\ O!Next /\ UNCHANGED <<package, vars>>

MCSpec == MCInit /\ [][MCNext]_<<vars, package, osVars>>

KeepsPairs == O!KeepsPairs
=============================================================================
