------------------------------ MODULE MCStartup -----------------------------
(* Small sets of configurations for TLC. *)
EXTENDS Startup

CONSTANTS ours, theirs

Formats(rates, channels, frames) ==
    [rate : rates, channels : channels, frameMs : frames]

\* The shipped formats, the largest and some that are refused.
SomeFormats ==
    Formats({44100, 96000}, {1, 2}, {5, 20}) \cup Formats({48000}, {2}, {10})
    \cup Formats({11025}, {1}, {10}) \cup Formats({48000}, {3}, {10})
    \cup Formats({48000}, {1}, {7})

Either == [Mic : BOOLEAN, Speaker : BOOLEAN]

Tokens == {Token(ours, 0), Token(ours, 64), Token(ours, 255), Token(ours, 300),
           Token(theirs, 64)}

Plain == [chars |-> 40, width |-> 1]

\* Names in another script, short, long, and long of a width that divides 255.
Summaries == {Plain, [chars |-> 80, width |-> 3], [chars |-> 100, width |-> 3],
              [chars |-> 200, width |-> 2]}

HostConfig(formats, enabled, buffers, handshakes, idles, tokens) ==
    [enabled : enabled, format : [Mic : formats, Speaker : formats],
     bufferMs : buffers, handshakeMs : handshakes, idleMs : idles, token : tokens]

Shipped == Formats({48000}, {1}, {10})

\* The formats with the directions, and the rest with the shipped formats.
MCHostConfigs ==
    HostConfig(SomeFormats, Either, {10, 40}, {1000}, {5000}, {Token(ours, 64)})
    \cup HostConfig(Shipped, Either, {10, 40}, {0, 1000}, {0, 500, 5000}, Tokens)

VmConfig(enabled, buffers, tokens, summaries) ==
    [enabled : enabled, bufferMs : buffers, token : tokens, summary : summaries]

MCVmConfigs ==
    VmConfig(Either, {5, 40}, {Token(ours, 64)}, {Plain})
    \cup VmConfig({[Mic |-> TRUE, Speaker |-> TRUE]}, {40}, Tokens, Summaries)
=============================================================================
