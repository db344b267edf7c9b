-------------------------------- MODULE MCFraming --------------------------------
(***************************************************************************)
(* Payloads of plain text, with a two-byte character, with a byte that is  *)
(* no text, with a control byte, and one that is too short.                *)
(***************************************************************************)
EXTENDS Framing

Plain == <<67, 68>>
Accented == <<67, 195, 169>>
Latin == <<67, 233>>
Control == <<67, 9>>
Short == <<67>>

Payloads == {Plain, Accented, Latin, Control, Short}
=============================================================================
