------------------------ MODULE MCFunctionInvocation ------------------------
(***************************************************************************)
(* Small instances of FunctionInvocation for TLC.                          *)
(***************************************************************************)
EXTENDS FunctionInvocation

CONSTANTS s, t

\* Two ids in turn: a call in a later response may reuse one.
ReusedIds == [c \in Calls |-> c % 2]

\* The caller gates one of two tools, both, or has removed it.
GatedPolicies == {[x \in {s, t} |-> IF x = s THEN "free" ELSE y] : y \in Availability}

\* The caller gates its only tool, or not.
OneToolPolicies == {[x \in {t} |-> y] : y \in {"free", "gated"}}
FreePolicies == {[x \in {t} |-> "free"]}
=============================================================================
