-------------------------- MODULE MCProgressLedger --------------------------
(* An instance of ProgressLedger for TLC: an inference, four calls of one  *)
(* tool with equal input ("f") and another call of it ("g").               *)
EXTENDS ProgressLedger

CONSTANTS h1, h2   (* content hashes *)

Call(b, p, n) == [bucket |-> b, print |-> p, n |-> n]
Mixed     == {Call("normal", "i", 1), Call("tool", "g", 1)} \cup {Call("tool", "f", n) : n \in 1..4}
LastCall  == {Call("tool", "f", 4)}
MCOutputs == [p \in {"i", "f", "g"} |-> IF p = "f" THEN {h1, h2} ELSE {h1}]

Hard(n, t) == [b \in Buckets |-> CASE b = "normal" -> n [] b = "tool" -> t [] OTHER -> 0]
MCLimits   == [hard |-> Hard(2, 4), soft |-> Hard(1, 3)]
MCPolicies == {MCLimits}
=============================================================================
