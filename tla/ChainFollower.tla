--------------------------- MODULE ChainFollower ---------------------------
(***************************************************************************)
(* What the block scanner promises by its calls of NewBlockNotify,         *)
(* whatever the node does: the blocks handed over and not retracted form a *)
(* chain segment that only grows at its upper end, by a child of its tip,  *)
(* and only shrinks by losing that tip (a header with Fork = true).        *)
(***************************************************************************)
EXTENDS Integers, SequencesExt

CONSTANT Blocks         \* a block is the sequence of branch choices leading
                        \* to it: its height is its length, its parent its front

VARIABLE view           \* the blocks handed over and not retracted

Tip(b) == b \in view /\ \A c \in view : Len(c) <= Len(b)

Init == view = {}

Extend ==
  \E c \in (Blocks \intersect view') \ view :
    /\ view' = view \union {c}
    /\ view # {} => \E b \in view : Tip(b) /\ Front(c) = b

Retract ==
  \E b \in view : Tip(b) /\ view' = view \ {b}

Next == Extend \/ Retract

Spec == Init /\ [][Next]_view
=============================================================================
