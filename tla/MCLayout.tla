------------------------------ MODULE MCLayout ------------------------------
(***************************************************************************)
(* Programs like Main1 to Main4 on a small matrix: they move the centre,   *)
(* cast some amorphs by hand, add others, restrict the viewport, apply the *)
(* heuristics, all of them or the straight ones, until no amorph is left,  *)
(* and look at the result from another perspective.                        *)
(***************************************************************************)
EXTENDS Layout

CONSTANTS Programs,     \* [seeds: sequence of [x, y, left, cols, rows], view, centre]
          MaxAdded,     \* bounds the amorphs that are not cast by hand
          Starts        \* perspectives to lay out from

VARIABLE program        \* what the program still casts by hand, its viewport, its centre

Init ==
    /\ LayoutInit
    /\ persp \in Starts
    /\ program \in Programs

Move ==
    /\ program.centre # <<>>
    /\ Centre(program.centre[1], program.centre[2])
    /\ program' = [program EXCEPT !.centre = <<>>]

Ready == program.centre = <<>>

Seed ==
    /\ Ready /\ program.seeds # <<>>
    /\ LET s == Head(program.seeds) IN SeedAmorph(<<s.x, s.y>>, s.cols, s.rows, s.left)
    /\ program' = [program EXCEPT !.seeds = Tail(@)]

Seeded == Ready /\ program.seeds = <<>> /\ viewport = <<>>

(* The order of the amorphs added does not matter: the smaller come first. *)
Add ==
    /\ Seeded /\ Cardinality(stock) < MaxAdded
    /\ \E n \in Sizes : /\ \A k \in stock : elements[k].n <= n
                        /\ GenerateSpecificAmorph(n)
    /\ UNCHANGED program

Demand == Seeded /\ stock # {} /\ SetDesirable(3, 3) /\ UNCHANGED program

Limit ==
    /\ Seeded /\ stock # {}
    /\ RestrictView(program.view[1], program.view[2], program.view[3], program.view[4])
    /\ UNCHANGED program

Apply ==
    /\ viewport # <<>>
    /\ \E hs \in {Heuristics, Heuristics \ {"StairyPerfect", "StairyShrinky"}} : HeuristicsApply(hs)
    /\ UNCHANGED program

Look == err = "exhausted" /\ Turn((persp + 1) % 4) /\ UNCHANGED program

Next == Move \/ Seed \/ Add \/ Demand \/ Limit \/ Apply \/ Look

Spec == Init /\ [][Next]_<<layoutVars, program>>

(* From nothing; from two towers with a ledge between; from a step. *)
MCPrograms ==
    {[centre |-> <<>>, view |-> <<-5, -4, 4, 1>>, seeds |-> <<>>],
     [centre |-> <<2, 1>>, view |-> <<-5, -4, 3, 1>>, seeds |->
        <<[x |-> -4, y |-> 1, left |-> FALSE, cols |-> 2, rows |-> 3],
          [x |-> -2, y |-> 1, left |-> FALSE, cols |-> 3, rows |-> 1],
          [x |-> 1, y |-> 1, left |-> FALSE, cols |-> 3, rows |-> 3]>>],
     [centre |-> <<>>, view |-> <<-4, -4, 5, 1>>, seeds |->
        <<[x |-> 0, y |-> 1, left |-> TRUE, cols |-> 3, rows |-> 2],
          [x |-> 0, y |-> 1, left |-> FALSE, cols |-> 4, rows |-> 1]>>]}

=============================================================================
