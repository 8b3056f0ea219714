------------------------------- MODULE Shelf -------------------------------
(***************************************************************************)
(* What the airlock promises to a reader of one dataset id: a shelf of     *)
(* numbered places.  A place is filled once, in one step, with a whole     *)
(* tree that a producer offered and that is fit to be read; after that it  *)
(* never changes.  Nothing is said about how, or when.                     *)
(***************************************************************************)
CONSTANTS
    Places,   \* version numbers
    Offered,  \* the trees producers hand over
    Fit(_),   \* whether a tree may be published
    Vacant    \* an empty place

VARIABLE shelf

ShelfInit == shelf = [v \in Places |-> Vacant]

Fill(v, t) ==
    /\ shelf[v] = Vacant
    /\ Fit(t)
    /\ shelf' = [shelf EXCEPT ![v] = t]

ShelfNext == \E v \in Places, t \in Offered : Fill(v, t)

ShelfSpec == ShelfInit /\ [][ShelfNext]_shelf
=============================================================================
