---------------------------- MODULE MCAssignment ----------------------------
(* Arrays of one to six dimensions with extents of 0 to 3, pairs that fit, *)
(* that broadcast either way and that do not fit.                          *)
EXTENDS Assignment

Pair(a, b) == [a |-> a, b |-> b]
MCExtents == {Pair(<<3>>, <<3>>), Pair(<<3>>, <<1>>), Pair(<<1>>, <<2>>), Pair(<<2>>, <<3>>),
              Pair(<<0>>, <<1>>),
              Pair(<<3, 2>>, <<3, 1>>), Pair(<<1, 2>>, <<2, 2>>), Pair(<<2, 1, 3>>, <<2, 1, 1>>),
              Pair(<<1, 2, 1, 3>>, <<1, 2, 1, 3>>), Pair(<<1, 3, 2, 1>>, <<1, 1, 2, 1>>),
              Pair(<<2, 1, 1, 3, 1>>, <<2, 1, 1, 3, 1>>),
              Pair(<<1, 1, 2, 1, 3>>, <<1, 1, 2, 1, 3>>),
              Pair(<<1, 3, 1, 1, 2, 1>>, <<1, 3, 1, 1, 2, 1>>),
              Pair(<<1, 1, 1, 2, 1, 3>>, <<1, 1, 1, 2, 1, 3>>)}

Target(kind, of, part) == [kind |-> kind, of |-> of, part |-> part]
MCTargets == {Target("container", "a", "all"), Target("view", "a", "tail"),
              Target("span", "a", "head"), Target("view", "a", "flip")}

Of(of, part) == [of |-> of, part |-> part]
MCExpressions == {<<Of("scalar", "all")>>,
                  <<Of("b", "all")>>, <<Of("b", "flip")>>, <<Of("b", "tail")>>,
                  <<Of("a", "head")>>,
                  <<Of("a", "all"), Of("b", "all")>>, <<Of("a", "all"), Of("scalar", "all")>>,
                  <<Of("b", "tail"), Of("a", "tail")>>}
=============================================================================
