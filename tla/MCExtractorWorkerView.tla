------------------------ MODULE MCExtractorWorkerView -----------------------
(* Instances of ExtractorWorkerView for TLC.                                 *)
EXTENDS ExtractorWorkerView
=============================================================================
