---- MODULE MCPipelineResume ----
(* DecisionPipeline with rebuilds: each lets the relay write the whole stream
   again, so the partition is cut off after MaxLog records. *)
EXTENDS DecisionPipeline

CONSTANT MaxLog     \* bound: records in the partition

LogBound == Len(klog) <= MaxLog
====
