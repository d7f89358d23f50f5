----------------------------- MODULE MCDuration -----------------------------
(* Instances of Duration.  With 4 units to the second and 32768 (2^15)     *)
(* values an hour fits in a Duration, with room for an integer whose       *)
(* seconds do not.                                                         *)
EXTENDS Duration

\* Around every boundary of ParseFor and shortDur, and where the product wraps.
SomeInts  == {-4096, -5, 0, 1, 45, 59, 60, 90, 3600, 4095, 4096, 8191, 8192,
              8193, 12287, 12288, MaxInt}
SomeSpans == {-1, 0, 1, 2, 3, 238, 14280, 14521, MaxInt}
SomeClocks == {0, 9, 10, 11, 30}
SomeLefts == (-3 .. 10) \cup (229 .. 243) \cup (358 .. 364) \cup (14276 .. 14283)
               \cup (14396 .. 14403) \cup (14516 .. 14524)
SomeNows   == {0, 600 * Second - 1, 600 * Second, 659 * Second + 3}
=============================================================================
