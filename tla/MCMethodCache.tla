--------------------------- MODULE MCMethodCache ----------------------------
(* MethodCache for TLC: x86_64 on a Mac, arm64 on a device and in a          *)
(* simulator: each layout and each way of collecting.                        *)
EXTENDS MethodCache

MCBuilds == {[packed |-> FALSE, restartable |-> TRUE],
             [packed |-> TRUE, restartable |-> TRUE],
             [packed |-> TRUE, restartable |-> FALSE]}

\* A block for each power of two.
MCEmptyBuckets == [c \in 1..MAX_CACHE_SIZE |-> IF c <= 2 THEN "empty2" ELSE IF c <= 4 THEN "empty4" ELSE "empty8"]
=============================================================================
