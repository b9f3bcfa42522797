---------------------------- MODULE MCCrc16Modbus ----------------------------
(* An instance of Crc16Modbus: every byte at the first place, so that each entry  *)
(* of the tables is used, and a few bytes with few or many bits after it.         *)
EXTENDS Crc16Modbus

MCAlphabet == << Byte, {0, 2, 84, 255}, {3, 128}, {128} >>
MCFlips == {1, 128, 255}
=============================================================================
