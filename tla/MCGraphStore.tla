---------------------------- MODULE MCGraphStore ----------------------------
(* GraphStore for TLC: the lists and the batches that callers give.          *)
EXTENDS GraphStore

CONSTANTS k1, k2, A, B, t1, t2, startup, side, other

Lists == {<<A>>, <<B, B>>}

Line(key, labels, props) == [key |-> key, labels |-> labels, props |-> props]
Link(src, dst) == [src |-> src, dst |-> dst, ty |-> t1]

(* A fresh pair that is linked; a line that meets a key it may already hold; *)
(* a key said twice.                                                         *)
SmallBatches ==
    {[nodes |-> <<Line(k1, <<B>>, FALSE), Line(k2, <<>>, TRUE)>>, edges |-> <<Link(k2, k1)>>],
     [nodes |-> <<Line(k1, <<>>, FALSE), Line(k1, <<A>>, TRUE)>>, edges |-> <<>>]}

NothingShipped == {}
NewStoreShipped == {Frames(EmptyStore)}
=============================================================================
