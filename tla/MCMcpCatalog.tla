---------------------------- MODULE MCMcpCatalog ----------------------------
(***************************************************************************)
(* Instances of McpCatalog for TLC: one server that can never be           *)
(* connected between two that can; a tool with a colon in its name, and a  *)
(* tool that is listed but not allowed.                                    *)
(***************************************************************************)
EXTENDS McpCatalog

CONSTANTS p, q, r, s, t

Server(key, tools, allowed, connects) ==
    [key |-> <<key>>, tools |-> tools, allowed |-> allowed, connects |-> connects]

ThreeServers ==
    <<Server(p, {<<s>>, <<s, t>>}, {<<s>>, <<s, t>>}, TRUE),
      Server(q, {<<s>>}, {<<s>>}, FALSE),
      Server(r, {<<s>>, <<t>>}, {<<s>>}, TRUE)>>
=============================================================================
