---------------------------- MODULE BridgeAudio ----------------------------
(* Bridge with a history of whether the link has been prompt. *)
EXTENDS Bridge

VARIABLE prompt     \* every step so far was Prompt

AudioSpec ==
    /\ prompt = TRUE /\ Init
    /\ [][Next /\ prompt' = (prompt /\ Prompt)]_<<vars, prompt>>

\* On a prompt link, while the host considers the bridge up, its buffer refuses
\* a packet as late only when that packet, or a newer one, was taken in before,
\* though the VM agent restarts and numbers from 0 again, and though its first
\* packets and its last ones may overtake an ack.
SpeakerLateMeansPlayed ==
    [][prompt' =>
          \A m \in net, p \in Host :
              established[p] /\ RecvSpeaker(p, m) /\ ~Admits(speaker[p], m)
              => \E k \in speaker[p].taken : m.nth <= k]_vars
=============================================================================
