---------------------------- MODULE OrderedCalls ----------------------------
(***************************************************************************)
(* What ToolPipeline::execute_tools promises of the tool calls of a model  *)
(* round, in the words of its comment: batches are executed in order "so   *)
(* that write-after-read dependencies are respected while reads still      *)
(* benefit from parallelism" (tools/pipeline/tool_pipeline.rs).            *)
(***************************************************************************)
EXTENDS Integers

CONSTANTS
  N,          \* number of calls in the round
  Safe        \* the concurrency-safe calls among 1 .. N

Call == 1 .. N

VARIABLE stage    \* waiting, running or answered, per call

\* Two calls may overlap only in a run of concurrency-safe calls.
Conflict(j, i) == \E k \in j .. i : k \notin Safe

Init == stage = [i \in Call |-> "waiting"]

\* A call begins once every earlier call it conflicts with is answered.
Begin(i) ==
  /\ stage[i] = "waiting"
  /\ \A j \in 1 .. (i - 1) : Conflict(j, i) => stage[j] = "answered"
  /\ stage' = [stage EXCEPT ![i] = "running"]

\* A call is answered when it ends, or without having run.
Answer(i) ==
  /\ stage[i] \in {"waiting", "running"}
  /\ stage' = [stage EXCEPT ![i] = "answered"]

Next == \E i \in Call : Begin(i) \/ Answer(i)

Spec == Init /\ [][Next]_stage
=============================================================================
