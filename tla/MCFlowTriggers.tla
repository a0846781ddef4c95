--------------------------- MODULE MCFlowTriggers ---------------------------
(***************************************************************************)
(* A job with the three kinds of trigger: flows 1 and 2 keep a window of   *)
(* two open over 3, 4 and 5 (multi-shot, as the matrices of                *)
(* gen_serialn_alltoall.py, whose last trigger is also activated more      *)
(* often than it has flows); 6 and 7 meet at a barrier before 8 starts,    *)
(* and 8 is followed by 9 and 10 (single shot, as gen_allreduce.py).       *)
(***************************************************************************)
EXTENDS FlowTriggers

PipelineKind == <<"MULTI_SHOT", "BARRIER", "SINGLE_SHOT">>
PipelineCount == <<0, 2, 0>>
PipelineTargets == << <<3, 4, 5>>, <<8>>, <<9, 10>> >>
PipelineStarts == [EmptyList EXCEPT ![0] = <<1, 2, 6>>, ![1] = <<7>>]
PipelineSendDone == <<1, 1, 1, 1, 1, 2, 2, 3, 0, 0>>

(* The job feeds its triggers as these expect.                             *)
ASSUME JobIsFed == Fed
=============================================================================
