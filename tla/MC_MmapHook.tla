----------------------------- MODULE MC_MmapHook -----------------------------
(* Model-checking instance of MmapHook.                                    *)
EXTENDS MmapHook, TLC

\* NoTag is a model value given in the cfg
=============================================================================
