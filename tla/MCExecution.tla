---------------------------- MODULE MCExecution ----------------------------
(***************************************************************************)
(* Execution for TLC, with the compressors an execution's output goes to.  *)
(* Admission and compression have no state, so that what they promise is   *)
(* evaluated for every bounded input before an execution is admitted.      *)
(***************************************************************************)
EXTENDS Execution, Compression

\* The environment an admitted program gets, the lines an extraction keeps and
\* the summary of an output are what their inputs call for
\* (ExecutionPolicy::admit, compress_context, TerminalCompressor).
RulesExact ==
    at = "admit" => ToolEnvironment /\ ExtractionExact /\ ChunksDoNotMatter
=============================================================================
