----------------------------- MODULE MCPipeline -----------------------------
(* An instance of Pipeline for TLC. *)
EXTENDS Pipeline

\* Lines that come to an end, although the first command of one writes for ever.
MixLines == {<<"gen", "filter", "head">>, <<"head", "filter">>}

OutOrErrClosed == {1, 2}
=============================================================================
