---------------------------- MODULE MCMcpBinding ----------------------------
(* Small instance of McpBinding for TLC: a call of each of two runs. *)
EXTENDS McpBinding, TLC

CONSTANTS r1, r2, c1, c2

\* Revisions 1 and 2 are of one server, and differ in its version or transport.
MCServerOf == <<1, 1, 2>>

MCRunOf == (c1 :> r1) @@ (c2 :> r2)

\* The settings begin with revision 1.  A patch of it names the same server, another
\* transport or another server: from 2 the cases are the same, from 3 there are fewer.
MCInit == McpInit /\ settings.revision = 1
MCSpec == MCInit /\ [][McpNext]_mcpVars /\ McpFairness
=============================================================================
