------------------------------- MODULE MCExport -------------------------------
(* Two streams, one of them with a gap and a file name from the hour that  *)
(* comes twice, the last segment possibly still being written.             *)
EXTENDS Export

MCLayout == << [stream |-> 1, began |-> 0, length |-> 2, keyframes |-> {0}],
               [stream |-> 2, began |-> 1, length |-> 1, keyframes |-> {0}],
               [stream |-> 1, began |-> 4, length |-> 2, keyframes |-> {0, 1}] >>

(* The theorems about the clock and about what a download delivers are     *)
(* about these segments, too.                                              *)
ASSUME SegmentsReadBack == ReadsBack
ASSUME SegmentsApart == Apart

MCRanges == {<<1, 5>>, <<1, 2>>, <<0, 6>>, <<5, 1>>}
=============================================================================
