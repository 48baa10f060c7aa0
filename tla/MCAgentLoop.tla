----------------------------- MODULE MCAgentLoop -----------------------------
(* Both cap behaviours, direct-only or not, with and without a token budget. *)
EXTENDS AgentLoop

MCConfigs ==
    [max_tool_calls : {1, 2},
     cap_error_behavior : {"terminate_after_error", "one_final_answer_turn"},
     direct_only : BOOLEAN,
     max_response_length : {0, 3, 5}]
=============================================================================
