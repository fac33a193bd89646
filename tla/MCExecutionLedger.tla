-------------------------- MODULE MCExecutionLedger --------------------------
(* Small budgets for ExecutionLedger: every limit is within reach.          *)
EXTENDS ExecutionLedger, TLC

CONSTANTS MaxSteps, MaxToolCalls, MaxProviderAttempts, MaxModelCalls,
          MaxModelAttempts, MaxModelSize, MaxRepairs, MaxInterrupts, MaxWrites

MCLimit == [graph_steps |-> MaxSteps, tool_calls |-> MaxToolCalls,
            provider_attempts |-> MaxProviderAttempts, cache_hits |-> 0,
            llm_calls |-> MaxModelCalls, llm_attempts |-> MaxModelAttempts,
            llm_input_chars |-> MaxModelSize, tokens |-> MaxModelSize,
            repair_rounds |-> MaxRepairs, interrupts |-> MaxInterrupts,
            checkpoint_writes |-> MaxWrites]

Symmetry == Permutations(Tools)
=============================================================================
