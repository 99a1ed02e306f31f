------------------------------- MODULE MCHeap -------------------------------
(* Instances of Heap: rows of the type table for the kinds used in the runs. *)
EXTENDS Heap

Type(size, len, slots, weak, extra, fin) ==
  [size |-> size, len |-> len, slots |-> slots, weak |-> weak, extra |-> extra,
   finalizer |-> fin]

\* Boxes and vectors of three slots.
GraphTypes == ("box" :> Type(1, 1, 1, 0, 0, FALSE)) @@ ("vector" :> Type(3, 3, 3, 0, 0, FALSE))

\* Blocks of two sizes: boxes, ephemerons, and file descriptors, which have a finalizer.
StoreTypes == ("box" :> Type(1, 1, 1, 0, 0, FALSE)) @@ ("ephemeron" :> Type(1, 2, 0, 1, 1, FALSE))
                @@ ("fileno" :> Type(2, 0, 0, 0, 0, TRUE))

\* Boxes and ephemerons.
EphemeronTypes == ("box" :> Type(1, 1, 1, 0, 0, FALSE)) @@ ("ephemeron" :> Type(1, 2, 0, 1, 1, FALSE))
=============================================================================
