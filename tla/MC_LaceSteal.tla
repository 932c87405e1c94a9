----------------------------- MODULE MC_LaceSteal -----------------------------
EXTENDS LaceSteal

\* every deque length from the four linearly checked slots up to 40: powers
\* of two, their neighbours, and lengths where the doubling stops short
MC_Sizes == 4 .. 40

\* thief indices 0..7 and up to 8 registered workers
MC_MaxWorkers == 8

\* two rounds of the largest round-robin
MC_MaxSteals == 16
=============================================================================
