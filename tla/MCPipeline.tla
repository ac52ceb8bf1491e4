----------------------------- MODULE MCPipeline -----------------------------
(* Frames of 3 samples at the resampler, packets of 2 frames of 2 samples,    *)
(* songs at the output's rate, at half and at one and a half times it.       *)
EXTENDS Pipeline

CONSTANTS ice, asio

MCRates == {<<1, 2>>, <<3, 2>>}
MCChunks == {2, 5}
MCBounds == {[songs |-> 2, samples |-> 14, calls |-> 0],
             [songs |-> 2, samples |-> 2, calls |-> 2]}
MCCallers == {ice, asio}
=============================================================================
