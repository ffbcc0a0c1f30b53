----------------------------- MODULE MCObserver -----------------------------
(* An upstream with two builds of the pinned release and one of the next.   *)
EXTENDS Observer

CONSTANTS old, patched, new, pinned, next

ReleaseOf == [d \in {old, patched, new} |-> IF d = new THEN next ELSE pinned]
=============================================================================
