-------------------------------- MODULE Bytes --------------------------------
(* What a byte holds; the streams, the frames and the checksums are made of it. *)
EXTENDS Integers

Byte == 0..255
=============================================================================
