------------------------------ MODULE TaintMap ------------------------------
(***************************************************************************)
(* What the tag layer promises to the taint runtime: every tracked cell    *)
(* (a byte of the tag map or a register slot) carries a set of input       *)
(* offsets.  A fresh tag is a singleton, combining two tags is the union   *)
(* of their sets, copying and clearing a cell behave like assignment.      *)
(* The handle/slot/free-list machinery of ssa_tag_gc.cpp must be           *)
(* invisible at this level; SsaTag shows that it is.                     *)
(***************************************************************************)
CONSTANTS Cells, Offsets

VARIABLE taint

Init == taint = [c \in Cells |-> {}]

\* tag_alloc(offset) stored into cell c
SetTaint(c, o) == taint' = [taint EXCEPT ![c] = {o}]

\* c := tag_combine(a, b)
Union(c, a, b) == taint' = [taint EXCEPT ![c] = taint[a] \cup taint[b]]

\* c := a  (ssa_tag copy assignment)
Copy(c, a) == taint' = [taint EXCEPT ![c] = taint[a]]

\* c := cleared_val
Clear(c) == taint' = [taint EXCEPT ![c] = {}]

Next ==
    \/ \E c \in Cells, o \in Offsets : SetTaint(c, o)
    \/ \E c, a, b \in Cells : Union(c, a, b)
    \/ \E c, a \in Cells : Copy(c, a)
    \/ \E c \in Cells : Clear(c)

Spec == Init /\ [][Next]_taint
=============================================================================
