---------------------------- MODULE MC_TaintSource ----------------------------
(* Model-checking instance of TaintSource.                                 *)
EXTENDS TaintSource, TLC

CONSTANTS t1, t2

AllCalls == {"open", "openat", "close", "read", "readv", "pread64"}
\* two threads, each making every call, sharing the descriptor table
MC_Calls == [t \in {t1, t2} |-> AllCalls]
=============================================================================
