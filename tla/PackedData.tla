------------------------------- MODULE PackedData -------------------------------
(***************************************************************************)
(* PackedData::Reader and Writer: integers as bytes, the least significant *)
(* one first.  Writing truncates to the width, as the parameter types do.  *)
(* A reader at i has read that many of its length bytes.                   *)
(***************************************************************************)
EXTENDS Integers, Sequences

Byte == 0 .. 255
FFFF == 65535
Words == 0 .. FFFF

enoughBytes(i, length, count) == i + count <= length

read_u16l(bytes, i) == bytes[i] + 256 * bytes[i + 1]

(* Faulty: the upper byte is not masked.                                   *)
write_u16l_NotMasked(x) == <<x % 256, x \div 256>>

write_u16l(x) == <<x % 256, (x \div 256) % 256>>
write_u32l(x) == write_u16l(x) \o write_u16l(x \div 65536)
===============================================================================
