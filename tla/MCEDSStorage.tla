---------------------------- MODULE MCEDSStorage ----------------------------
(* Two items; the second one is a recurring event of three objects, so that *)
(* it spreads over batches of two.                                          *)
EXTENDS EDSStorage
MCParts == <<1, 3>>
================================================================================
