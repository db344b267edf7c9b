-------------------------------- MODULE Framing --------------------------------
(***************************************************************************)
(* How the bytes of a game socket become packets.                          *)
(*                                                                         *)
(* TCP hands the bytes over in chunks of its own choosing.  read_loop turns*)
(* each chunk into text, PacketBuffer cuts what it has into frames (a byte *)
(* of any value, two base-64 digits of length, the payload), and the       *)
(* packets of one chunk are handled one after the other before the next    *)
(* chunk is read.  Bytes are numbers here, as they are on the wire.        *)
(*                                                                         *)
(* Sources: codec_impl.rs (decode_b64, PacketBuffer), session_impl.rs      *)
(* (read_loop and the first lines of handle_packet).                       *)
(***************************************************************************)
EXTENDS Naturals, FiniteSets, Sequences, SequencesExt

CONSTANTS
  Message,     \* payloads the client sends, as bytes
  Malformed,   \* a frame with a length that is not base 64
  MaxSent,     \* bound: frames the client sends
  BufferSize   \* bytes read at a time (4096)

ASSUME FramingAssumption ==
  /\ Message \subseteq Seq(0 .. 255) /\ Malformed \notin Message
  /\ MaxSent \in Nat /\ BufferSize \in Nat \ {0}

VARIABLES
  sent,      \* history: what the client has sent
  wire,      \* the bytes of it that are not read yet
  inner,     \* PacketBuffer.inner
  batch,     \* the packets of the last chunk that are not handled yet
  handled,   \* history: the packets that were handled
  status,    \* of the session's task
  garbled    \* history: a character was replaced in a chunk

vars == <<sent, wire, inner, batch, handled, status, garbled>>

Byte == 0 .. 255

TypeOK ==
  /\ sent \in Seq(Message \cup {Malformed})
  /\ wire \in Seq(Byte) /\ inner \in Seq(Byte)
  /\ batch \in Seq(Seq(Byte)) /\ handled \in Seq(Seq(Byte))
  /\ status \in {"open", "closed", "failed", "panicked"}
  /\ batch # <<>> => status = "open"
  /\ garbled \in BOOLEAN

Init ==
  /\ sent = <<>> /\ wire = <<>> /\ inner = <<>> /\ batch = <<>> /\ handled = <<>>
  /\ status = "open" /\ garbled = FALSE

-----------------------------------------------------------------------------
(* The client                                                              *)

FrameBytes(m) ==
  IF m = Malformed THEN <<65, 64, 63>>
  ELSE <<65, 64 + (Len(m) \div 64), 64 + (Len(m) % 64)>> \o m

Send(m) ==
  /\ status = "open" /\ Len(sent) < MaxSent
  /\ sent' = Append(sent, m)
  /\ wire' = wire \o FrameBytes(m)
  /\ UNCHANGED <<inner, batch, handled, status, garbled>>

-----------------------------------------------------------------------------
(* Text                                                                    *)

\* UTF-8 for characters of one or two bytes; longer ones tear alike.
Leads(b) == b \in 194 .. 223
Continues(b) == b \in 128 .. 191

InCharacter(c, i) ==
  \/ c[i] < 128
  \/ Leads(c[i]) /\ i < Len(c) /\ Continues(c[i + 1])
  \/ Continues(c[i]) /\ i > 1 /\ Leads(c[i - 1])

\* String::from_utf8_lossy: any other byte becomes U+FFFD, which has three.
Replacement == <<239, 191, 189>>
Lossy(c) ==
  FlattenSeq([i \in DOMAIN c |-> IF InCharacter(c, i) THEN <<c[i]>> ELSE Replacement])

\* str::is_char_boundary; a slice from or to another place panics.
IsBoundary(s, k) == k = Len(s) \/ ~Continues(s[k + 1])

-----------------------------------------------------------------------------
(* PacketBuffer                                                            *)

DecodeB64(a, b) == 64 * (a - 64) + (b - 64)

\* Mutant: the first byte of a frame is forgotten.
FrameLengthShort(s) == DecodeB64(s[2], s[3]) + 2
FrameLength(s) == DecodeB64(s[2], s[3]) + 3

\* Mutant: a frame is taken when a byte of the next one is there.
HasMoreThanFrame(s) == Len(s) > FrameLength(s)
HasFrame(s) == Len(s) >= FrameLength(s)

Cut(packets, rest, outcome) ==
  [packets |-> packets, rest |-> rest, outcome |-> outcome]

\* What stops next_packets before it takes another frame out of s.
Stops(s) ==
  CASE Len(s) < 3 -> "open"
    [] Len(s) >= 3 /\ ~(IsBoundary(s, 1) /\ IsBoundary(s, 3)) -> "panicked"
    [] OTHER -> IF s[2] < 64 \/ s[3] < 64 THEN "failed"
                ELSE IF ~HasFrame(s) THEN "open"
                ELSE IF ~IsBoundary(s, FrameLength(s)) THEN "panicked"
                ELSE "never"

\* next_packets on a buffer that holds s.
NextPackets[s \in Seq(Byte)] ==
  IF Stops(s) # "never" THEN Cut(<<>>, s, Stops(s))
  ELSE LET more == NextPackets[SubSeq(s, FrameLength(s) + 1, Len(s))]
       IN [more EXCEPT !.packets = <<SubSeq(s, 4, FrameLength(s))>> \o @]

-----------------------------------------------------------------------------
(* read_loop                                                               *)

Reading == status = "open" /\ batch = <<>>

\* The task ends; packets of the chunk that are left are forgotten.
End(how) ==
  /\ status' = how /\ batch' = <<>>
  /\ UNCHANGED <<sent, wire, inner, handled, garbled>>

TakesControlByte(c) == \E i \in DOMAIN c : c[i] \in {5, 9}

\* Mutant: what is left after the last frame is thrown away.
PushedAndCleared(c) == [NextPackets[inner \o Lossy(c)] EXCEPT !.rest = <<>>]

\* push, then next_packets.
Pushed(c) == NextPackets[inner \o Lossy(c)]

\* A chunk of any length.
Read(n) ==
  LET c == SubSeq(wire, 1, n)
      cut == Pushed(c)
  IN
  /\ Reading /\ n <= Len(wire) /\ n <= BufferSize /\ ~TakesControlByte(c)
  /\ wire' = SubSeq(wire, n + 1, Len(wire))
  /\ inner' = cut.rest
  /\ status' = cut.outcome
  /\ batch' = IF cut.outcome = "open" THEN cut.packets ELSE <<>>
  /\ garbled' = (garbled \/ Lossy(c) # c)
  /\ UNCHANGED <<sent, handled>>

\* 0x05 and 0x09 end the session; the chunk they came in is not looked at.
ReadControlByte(n) ==
  /\ Reading /\ n <= Len(wire) /\ n <= BufferSize
  /\ TakesControlByte(SubSeq(wire, 1, n))
  /\ End("closed")

\* The client hung up, the watch was set, or the socket broke.
StopReading == Reading /\ \E how \in {"closed", "failed"} : End(how)

Handle ==
  /\ batch # <<>> /\ Len(Head(batch)) >= 2
  /\ handled' = Append(handled, Head(batch))
  /\ batch' = Tail(batch)
  /\ UNCHANGED <<sent, wire, inner, status, garbled>>

\* handle_packet gives Ok(false) for a short packet, and for some others.
Refuse == batch # <<>> /\ End("closed")

\* A `?` in a handler.
HandlerFails == batch # <<>> /\ End("failed")

-----------------------------------------------------------------------------
Next ==
  \/ \E m \in Message \cup {Malformed} : Send(m)
  \/ \E n \in 1 .. Len(wire) : Read(n) \/ ReadControlByte(n)
  \/ StopReading \/ Handle \/ Refuse \/ HandlerFails

Fairness ==
  /\ WF_vars(\E n \in 1 .. Len(wire) : Read(n) \/ ReadControlByte(n))
  /\ WF_vars(Handle \/ Refuse \/ HandlerFails)

Spec == Init /\ [][Next]_vars /\ Fairness

-----------------------------------------------------------------------------
(* Properties                                                              *)

\* How many frames lie within the first n bytes the client sent.
FramesWithin(n) ==
  Cardinality({k \in DOMAIN sent :
    Len(FlattenSeq([i \in 1 .. k |-> FrameBytes(sent[i])])) <= n})
BytesSent == Len(FlattenSeq([i \in DOMAIN sent |-> FrameBytes(sent[i])]))

\* However the bytes were cut into chunks, when the loop waits for the next one
\* it has handled every frame that has come in whole, unless a character was
\* replaced: nothing waits in the buffer for a byte that is not its own.
\* (the loop of next_packets, over chunks with several frames and parts of them.)
NothingHeldBack ==
  Reading /\ ~garbled => Len(handled) = FramesWithin(BytesSent - Len(wire))

\* A slice of the buffer never falls inside a character, unless a chunk had
\* bytes that are no text by themselves: only then can next_packets panic.
\* (`&self.inner[1..3]`, `self.inner[3..frame_len]`.)
PanicsOnlyGarbled == ~garbled => status # "panicked"

\* The framing implements the channel until a character is replaced.
Promised == status = "open" /\ ~garbled
ChannelView == INSTANCE Channel WITH
  Message <- Message \cup {Malformed},
  sent <- IF Promised THEN sent ELSE <<>>,
  delivered <- IF Promised THEN handled ELSE <<>>,
  open <- Promised

\* Messages reach the handlers whole, in order and once, and all of them do
\* unless the session ends or text is garbled. (read_loop as a whole.)
ImplementsChannel == ChannelView!Spec
=============================================================================
