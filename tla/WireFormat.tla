----------------------------- MODULE WireFormat ----------------------------
(***************************************************************************)
(* How long a datagram is, where its fields are cut, and what a reader     *)
(* makes of the bytes that arrive (lib.rs).  Bytes are not modelled: a     *)
(* token is a name and a length, a message a number of characters of one   *)
(* width, the samples of an audio packet their number.                     *)
(***************************************************************************)
EXTENDS Integers

Smaller(m, n) == IF m <= n THEN m ELSE n

MaxPacket == 4096       \* MAX_PACKET: the receive buffers
HeaderLen == 6          \* magic, version and type
FormatLen == 7          \* Format::ENCODED_LEN
MaxField  == 255        \* what a length byte can say

-----------------------------------------------------------------------------
(* Formats *)

SupportedRates == {8000, 16000, 22050, 24000, 32000, 44100, 48000, 96000}

FramesPerPacket(format) == (format.rate * format.frameMs) \div 1000

PayloadLen(format) == FramesPerPacket(format) * format.channels * 2

\* Format::validate.
Valid(format) ==
    /\ format.rate \in SupportedRates
    /\ format.channels \in 1 .. 2
    /\ format.frameMs \in {5, 10, 20}
    /\ FramesPerPacket(format) # 0

-----------------------------------------------------------------------------
(* Datagrams *)

\* Packet::encode cuts a token and a message to what its length byte can say.
\* One mutant cuts to what a signed byte can say, the other does not cut.
CutShort(len) == Smaller(len, 127)
Uncut(len) == len
Cut(len) == Smaller(len, MaxField)

Token(name, len) == [name |-> name, len |-> len]

SentToken(token) == [token EXCEPT !.len = Cut(@)]

\* token_matches: the same length and the same bytes.
TokenMatches(expected, got) == expected = got

\* A message of `chars` characters of `width` bytes each.
MessageLen(message) == message.chars * message.width

HelloLen(token) == HeaderLen + 1 + Cut(token.len) + 4 + 2 * FormatLen

AckLen(message) ==
    HeaderLen + 1 + 4 + 2 * FormatLen + 1 + Cut(MessageLen(message))

AudioHeaderLen == HeaderLen + 4 + 1 + 4 + 2

\* encode_audio.
AudioLen(payload) == AudioHeaderLen + payload

\* What recv leaves of a datagram: at most a buffer, and no word of the rest.
Received(len) == Smaller(len, MaxPacket)

-----------------------------------------------------------------------------
(* decode *)

\* String::from_utf8 refuses a message cut within a character.
WholeCharacters(message) ==
    \/ MessageLen(message) <= MaxField
    \/ MaxField % message.width = 0

\* Hello and HelloAck are never longer than a buffer; a datagram of n bytes is
\* long enough for its fields.
DecodesHello(token, n) == n >= HelloLen(token)

DecodesAck(message, n) == n >= AckLen(message) /\ WholeCharacters(message)

\* The mutant, for DecodesAudio, takes any payload.
DecodesAnyAudio(n) == n > AudioHeaderLen

\* Of an audio packet everything after its header is payload, and a payload
\* that is empty or ends within a sample is refused.
DecodesAudio(n) ==
    /\ n > AudioHeaderLen
    /\ (n - AudioHeaderLen) % 2 = 0

\* decode_samples, as frames of the session's format.
FramesReceived(n, format) ==
    ((n - AudioHeaderLen) \div 2) \div format.channels
=============================================================================
