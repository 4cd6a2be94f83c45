---------------------------- MODULE MCParallelFor ---------------------------
(* Pools of up to three threads and calls of up to seven units.              *)
EXTENDS ParallelForProperties

\* Pools that may have lost threads to other calls; a caller outside the pool runs
\* beside its threads.
SmallCalls ==
    {c \in [total : 0..7, block_size : 0..3, threads : 1..3, free : 0..3] : c.free <= c.threads}
=============================================================================
