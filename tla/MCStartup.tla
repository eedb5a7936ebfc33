----------------------------- MODULE MCStartup -----------------------------
(***************************************************************************)
(* The start of the program with the three informers it registers.         *)
(***************************************************************************)
EXTENDS Startup

MCPodInformers == {"pods", "nodes"}
=============================================================================
