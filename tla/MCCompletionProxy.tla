------------------------- MODULE MCCompletionProxy -------------------------
(* Instances of CompletionProxy for TLC.                                   *)
EXTENDS CompletionProxy

CONSTANTS s1, s2, b1

=============================================================================
