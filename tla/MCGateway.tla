------------------------------ MODULE MCGateway ------------------------------
(* Instances of Gateway for TLC: one caller with credentials and one model *)
(* that wants a reason, beside callers without credentials.                *)
EXTENDS Gateway, TLC

CONSTANTS r1, r2, r3, alice, nobody, summarizer, unknown

AllGrants == Principals \X Models
TwoRequests == [m \in Models |-> 2]
TwoTokens == [m \in Models |-> 2]

Ask(route, caller, model, tokens, reason) ==
  [route |-> route, caller |-> caller, model |-> model, tokens |-> tokens, reason |-> reason]

Probe == Ask("infer", nobody, summarizer, 1, TRUE)
Unjustified == Ask("completions", alice, summarizer, 1, FALSE)
Small == Ask("infer", alice, summarizer, 1, TRUE)
Large == Ask("completions", alice, summarizer, 2, TRUE)
Stream == Ask("stream", alice, summarizer, 2, TRUE)

MixedCalls == {Probe, Unjustified, Small, Stream}
AllowedCalls == {Small, Large}

RequestSymmetry == Permutations(Requests)
=============================================================================
