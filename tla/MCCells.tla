------------------------------ MODULE MCCells ------------------------------
(***************************************************************************)
(* Instances of Cells: the tree g - {a1 - a2 - a3 | b1 - b2 - b3}, with    *)
(* more difficulty on the second branch.                                   *)
(***************************************************************************)
EXTENDS Cells, TLC

CONSTANTS g, a1, a2, a3, b1, b2, b3   \* blocks
CONSTANTS x, y, z, v, w               \* transactions
CONSTANTS A, B                        \* scripts

ForkChains ==
    g :> {g} @@ a1 :> {g, a1} @@ a2 :> {g, a1, a2} @@ a3 :> {g, a1, a2, a3}
    @@ b1 :> {g, b1} @@ b2 :> {g, b1, b2} @@ b3 :> {g, b1, b2, b3}
ForkNumbersOf == g :> 0 @@ a1 :> 1 @@ a2 :> 2 @@ a3 :> 3 @@ b1 :> 1 @@ b2 :> 2 @@ b3 :> 3
ForkWeights == g :> 0 @@ a1 :> 1 @@ a2 :> 2 @@ a3 :> 3 @@ b1 :> 2 @@ b2 :> 3 @@ b3 :> 4

\* x of the genesis block creates three cells; y spends the first; z spends the
\* second and what y made; on the other branch w takes another of them, and y
\* comes later, in a block where v spends it at once.
ForkBody ==
    g :> <<x>> @@ a1 :> <<>> @@ a2 :> <<y>> @@ a3 :> <<z>>
    @@ b1 :> <<>> @@ b2 :> <<w>> @@ b3 :> <<y, v>>
From(t, n) == [tx |-> t, out |-> n]
ForkInputs ==
    x :> <<>> @@ y :> <<From(x, 1)>> @@ z :> <<From(x, 2), From(y, 2)>>
    @@ w :> <<From(x, 2)>> @@ v :> <<From(y, 2)>>
ForkOutputs ==
    x :> <<{A}, {A, B}, {A}>> @@ y :> <<{B}, {A}>> @@ z :> <<{B}>> @@ w :> <<{A}>> @@ v :> <<{B}>>

\* Both scripts at once; A from block 3 on; B again from the start; no A any more.
Call(c, m) == [command |-> c, scripts |-> m]
ForkCommands ==
    {Call("all", A :> 0 @@ B :> 1), Call("partial", A :> 2), Call("partial", B :> 0),
     Call("delete", A :> 0)}

Everything == [script |-> None, from |-> 0, to |-> None]
ForkFilters == {[Everything EXCEPT !.script = B], [Everything EXCEPT !.from = 1, !.to = 3]}
=============================================================================
