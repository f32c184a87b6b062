---------------------------- MODULE MCBackendLoad ----------------------------
(* An instance of BackendLoad for TLC: one caller, one model that wants a  *)
(* reason, and requests of one token and of two.                           *)
EXTENDS BackendLoad, TLC

CONSTANTS r1, r2, r3, alice, nobody, summarizer, unknown

AllGrants == Principals \X Models
TwoRequests == [m \in Models |-> 2]
TwoTokens == [m \in Models |-> 2]

PaidCalls ==
  [route : {"infer"}, caller : {alice}, model : {summarizer}, tokens : {1}, reason : BOOLEAN]
    \cup [route : {"stream"}, caller : {alice}, model : {summarizer}, tokens : {2}, reason : {TRUE}]

RequestSymmetry == Permutations(Requests)
=============================================================================
