----------------------- MODULE MCIdempotentRequests -----------------------
(* One request tried three times, and another under the same key. *)
EXTENDS IdempotentRequests, TLC

CONSTANTS a1, a2, a3, other, f, g

MCFingerprintOf == [c \in Attempts |-> IF c = other THEN g ELSE f]

Retries == Permutations({a1, a2, a3})
=============================================================================
