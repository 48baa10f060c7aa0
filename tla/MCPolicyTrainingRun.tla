------------------------ MODULE MCPolicyTrainingRun ------------------------
EXTENDS PolicyTrainingRun

CONSTANTS r1, r2
MCReplicas == {r1, r2}
=============================================================================
