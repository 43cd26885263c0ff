------------------------------- MODULE MCViews -------------------------------
(* Small arrays with extents of 0, 1, 2 and 3, strided spans, slices with  *)
(* every combination of open, negative and explicit bounds.                *)
EXTENDS Views

MCShapes == {<<3>>, <<2, 2>>, <<1, 3>>, <<2, 1, 2>>, <<0, 2>>}
MCSpans == {[parent |-> <<3, 2>>, offset |-> 1, shape |-> <<2, 2>>],
            [parent |-> <<2, 2>>, offset |-> 0, shape |-> <<2, 2>>],
            [parent |-> <<2, 1>>, offset |-> 0, shape |-> <<2, 1>>]}

Slice(start, stop, step) == [start |-> start, stop |-> stop, step |-> step]
MCSlices == {Slice(None, None, None), Slice(1, None, None), Slice(None, -1, None),
             Slice(-2, 0, 1), Slice(1, 2, None), Slice(None, None, 2),
             Slice(None, None, -1), Slice(-1, None, -2), Slice(2, 0, -1)}
=============================================================================
