----------------------------- MODULE MCEventTime -----------------------------
(* Model checking of EventTime: a partition that runs ahead and then falls  *)
(* back, and one that is nearly silent.                                     *)
EXTENDS EventTime, TLC

MCPartition == {0, 1}
MCSize      == (0 :> 5) @@ (1 :> 1)
Claimed     == [r \in Runner |-> r]

\* Windows of 2, a watermark 1 behind.  With partition 1 idle the 7 of
\* partition 0 closes the windows of 2 and 5; then 4 is late and 0 beyond.
Times  == << <<2, 7, 5, 4, 0>>, <<5>> >>
MCTime == [x \in Rec |-> Times[x[1] + 1][x[2] + 1]]

=============================================================================
