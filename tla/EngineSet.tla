----------------------------- MODULE EngineSet -----------------------------
(* The engines of the chip (Config.engine_count: 2 or 4).                          *)
EXTENDS Naturals

CONSTANT EngineCount

Engines == 0 .. EngineCount - 1
=============================================================================
