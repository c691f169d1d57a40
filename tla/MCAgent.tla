-------------------------------- MODULE MCAgent --------------------------------
(***************************************************************************)
(* What an agent's process talks to: the command runner and the MCP        *)
(* server.  They are two programs without shared state, so a behaviour     *)
(* runs one of them and leaves the other where it starts.                  *)
(***************************************************************************)
EXTENDS Exec, Mcp

AgentInit == ExecInit /\ McpInit

AgentNext ==
    \/ McpInit /\ ExecNext /\ UNCHANGED mcpVars
    \/ ExecInit /\ McpNext /\ UNCHANGED execVars

AgentSpec ==
    AgentInit /\ [][AgentNext]_<<execVars, mcpVars>> /\ ExecFairness /\ McpFairness
=============================================================================
