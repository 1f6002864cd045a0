---------------------------- MODULE MCO3Frontiers ----------------------------
(* Entry modules of three functions: calls that fill both clone limits, a     *)
(* native module with a loop, its packs and straight code, and WebAssembly    *)
(* modules with the rewrites of single loops.                                 *)
EXTENDS O3Frontiers

MCFunctions0 == 1 .. 3
MCFunctionIds == 1 .. 5

Narrow(root) == [root |-> root, lanes |-> 2, memory |-> FALSE]
Wide(root) == [root |-> root, lanes |-> 4, memory |-> FALSE]
Memory(root) == [root |-> root, lanes |-> 2, memory |-> TRUE]

Loop(id, kinds, widths, packs) ==
    [id |-> id, loop |-> TRUE, kinds |-> kinds, widths |-> widths, packs |-> packs]
Straight(id, packs) ==
    [id |-> id, loop |-> FALSE, kinds |-> {}, widths |-> {}, packs |-> packs]

Fun(f, blocks) == [origin |-> f, digest |-> 0, blocks |-> blocks, regions |-> {}]
To(id, callee, digest) == [id |-> id, caller |-> 1, callee |-> callee, digest |-> digest]

Plain == <<Fun(1, {}), Fun(2, {}), Fun(3, {})>>

Cloning == [consumer |-> "deferred", program |-> Plain,
            calls |-> <<To(1, 2, 7), To(2, 2, 7), To(3, 2, 8), To(4, 3, 7), To(5, 3, 8)>>]

Kernel(consume) ==
    [consumer |-> consume, calls |-> <<To(1, 2, 7)>>,
     program |-> <<Fun(1, {Straight(10, {Narrow(1), Wide(1), Narrow(3)})}),
                   Fun(2, {Loop(20, {}, {2, 4}, {Narrow(1)})}),
                   Fun(3, {Loop(30, {}, {}, {Narrow(1)}), Straight(40, {Narrow(2)})})>>]

Stencil(consume) ==
    [consumer |-> consume, calls |-> <<>>,
     program |-> <<Fun(1, {Loop(10, {<<"boundary-peel", 1>>, <<"interior-normalize", 1>>}, {}, {}),
                           Loop(20, {<<"runtime-unroll", 4>>, <<"invariant-load", 4>>}, {2}, {})}),
                   Fun(2, {Loop(10, {<<"decision-tree", 1>>, <<"decision-tree", 4>>,
                                     <<"unswitch", 1>>}, {}, {})}), Fun(3, {})>>]

MCEntries == {Cloning, Kernel("native"), Kernel("simd128"),
              Stencil("baseline"), Stencil("simd128")}

\* Loads, then two additions, then stores: the additions are a pack of their own.
MCMemoryEntries ==
    {[consumer |-> "native", calls |-> <<To(1, 2, 7)>>,
      program |-> <<Fun(1, {Straight(10, {Narrow(1), Memory(1)})}), Fun(2, {}), Fun(3, {})>>]}

MCUnits == {[proposer |-> 2, checker |-> 1]}
MCBudget == [f \in MCFunctions0 |-> [proposer |-> IF f = 3 THEN 5 ELSE 13, checker |-> 9]]
MCAmple == [f \in MCFunctions0 |-> [proposer |-> 40, checker |-> 40]]
=============================================================================
