-------------------------------- MODULE Channel --------------------------------
(***************************************************************************)
(* What the framing of the game socket promises: as long as the channel is *)
(* open, the messages a client sends reach the handlers whole, in order,   *)
(* and each of them once; and each of them does, unless the channel ends.  *)
(***************************************************************************)
EXTENDS Naturals, Sequences

CONSTANTS Message, MaxSent

VARIABLES sent, delivered, open

vars == <<sent, delivered, open>>

Init == sent = <<>> /\ delivered = <<>> /\ open = TRUE

Send(m) ==
  /\ open = TRUE /\ Len(sent) < MaxSent
  /\ sent' = Append(sent, m)
  /\ UNCHANGED <<delivered, open>>

Deliver ==
  /\ open = TRUE /\ Len(delivered) < Len(sent)
  /\ delivered' = Append(delivered, sent[Len(delivered) + 1])
  /\ UNCHANGED <<sent, open>>

\* Nothing is promised any more.
Close ==
  /\ open = TRUE /\ open' = FALSE
  /\ sent' = <<>> /\ delivered' = <<>>

Next == (\E m \in Message : Send(m)) \/ Deliver \/ Close

\* A message that is waiting is delivered, or the channel ends.
Answer == Len(delivered) < Len(sent) /\ (Deliver \/ Close)

Spec == Init /\ [][Next]_vars /\ WF_vars(Answer)
=============================================================================
