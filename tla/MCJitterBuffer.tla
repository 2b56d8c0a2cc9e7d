--------------------------- MODULE MCJitterBuffer ---------------------------
(* Small instances of JitterBuffer for TLC. *)
EXTENDS JitterBuffer

\* Fourteen packets across the wrap of a sequence space of 24: a gap of nine is
\* concealed, one of ten or more is a restart, and the first and the last
\* packet are more than half the space apart.
AcrossTheWrap == 19 .. 32

\* Thirteen packets across the wrap of a space of 8: some pairs are further
\* apart than half the space, and the window keeps them from meeting.
TinySpace == 4 .. 16

OneToSix == 1 .. 6
=============================================================================
