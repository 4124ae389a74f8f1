-------------------------- MODULE MCGenerationPage --------------------------
(***************************************************************************)
(* Instances of GenerationPage.  In the run without fairness streams and   *)
(* topics are interchangeable.                                             *)
(***************************************************************************)
EXTENDS GenerationPage, FiniteSets, TLC

\* Of the outcomes that route and page treat alike one each: every reason that
\* is not the outcome itself, every advice, and both kinds of an unavailable
\* model.
MCOutcomes ==
  {"done", "needs_clarification", "search_no_hits", "model_configuration",
   "service_unavailable", "rate_limit", "unexpected"}

MCTransient == {"needs_clarification", "generation_error"}

MCSymmetry == Permutations(Streams) \cup Permutations(Topics)
=============================================================================
