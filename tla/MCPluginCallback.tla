------------------------- MODULE MCPluginCallback -------------------------
(* PluginCallback for TLC: a buffer of two values, four samples, clock    *)
(* up to 3; one plugin thread.                                            *)
(* Post-mortem: two counters of up to three values or three counters of   *)
(* up to one, timestamps 1 and 2, in any order.                           *)
EXTENDS PluginCallback, PluginPostMortem

CONSTANTS p1

MCOneProducer == {p1}
MCCap == 2
MCMaxTime == 3
MCMaxSamples == 4

MCTimeValue == [timestamp : 1 .. 2, value : {0}]
MCPMInputs ==
    [1 .. 2 -> BoundedSeq(MCTimeValue, 3)]
    \cup [1 .. 3 -> BoundedSeq(MCTimeValue, 1)]
=============================================================================
