---------------------------- MODULE StateRecordMC ----------------------------
(* Two step threads of one runner process and the gateway in another.       *)
EXTENDS StateRecord, TLC

CONSTANTS runner, gateway,   \* processes
          step1, step2, ceiling  \* threads: two steps of the runner, raise_ceiling

MCProcs == {runner, gateway}
MCThreads == {step1, step2, ceiling}
MCProcOf == (step1 :> runner) @@ (step2 :> runner) @@ (ceiling :> gateway)
MCSavers == {step1}
==============================================================================
