--------------------------- MODULE ChainRefinement ---------------------------
(***************************************************************************)
(* The staged verifier implements ChainSpec: its pipeline of checks and    *)
(* early returns decides exactly what the declarative rules decide, for    *)
(* the instant at which it read the clock.                                 *)
(***************************************************************************)
EXTENDS ChainVerifier

Verdict == IF pc = "idle" THEN "none" ELSE IF Running THEN "pending" ELSE pc

Promise == INSTANCE ChainSpec WITH asked <- now, verdict <- Verdict

\* Whatever order the checks are made in and wherever the function returns
\* early, the answer is the one ChainSpec gives, and every call is answered.
KeepsItsPromise == Promise!Spec
==============================================================================
