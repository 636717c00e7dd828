--------------------------- MODULE ControlPacket ---------------------------
(* The packed argument of control packet 5: y in bits 0 to 15, the button in *)
(* bits 16 to 23, and in bit 24 whether it goes down.                        *)
EXTENDS Integers

Pack(y, button, down) == y + button * 65536 + down * 16777216

PackedY(packed) == packed % 65536

PackedButton(packed) == (packed \div 65536) % 256

PackedDown(packed) == (packed \div 16777216) % 2
=============================================================================
