---------------------------- MODULE MCJobTiming ----------------------------
(* An instance of JobTiming for TLC. *)
EXTENDS JobTiming, MCJobPipeline

(* An empty bundle: an invocation ends at once, well or by dying, or runs  *)
(* for as long as it may.                                                  *)
TimedBodies == {B(<<>>)}

=============================================================================
