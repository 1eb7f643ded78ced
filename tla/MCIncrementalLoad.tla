-------------------------- MODULE MCIncrementalLoad --------------------------
(* Two records, three seconds of two ticks, a job with an empty page. *)
EXTENDS IncrementalLoad

CONSTANTS a, b, c, d

MCIds == {a, b}

MCJob == << <<a, b>>, << >>, <<c, d>> >>
=============================================================================
