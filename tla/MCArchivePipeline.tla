-------------------------- MODULE MCArchivePipeline --------------------------
(* A small instance of ArchivePipeline: a chain of three blocks, ranges of *)
(* two, two blocks in flight.                                              *)
EXTENDS ArchivePipeline

MCOption(stop, skip, require, only) ==
  [stopBlock |-> stop, skipBad |-> skip, requireTraces |-> require, tracesOnly |-> only]

MCArchiverOptions ==
  {MCOption(None, FALSE, TRUE, FALSE),
   MCOption(None, FALSE, FALSE, FALSE),
   MCOption(0, TRUE, FALSE, FALSE),
   MCOption(None, FALSE, FALSE, TRUE)}

MCIndexerOptions ==
  {[stopBlock |-> None, hasFallback |-> FALSE, logIndex |-> TRUE],
   [stopBlock |-> 1, hasFallback |-> TRUE, logIndex |-> FALSE]}
=============================================================================
