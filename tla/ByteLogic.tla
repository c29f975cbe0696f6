----------------------------- MODULE ByteLogic ------------------------------
(***************************************************************************)
(* C's and Verilog's &, | and ^ of two bytes, bit by bit.  The operators   *)
(* of the community module Bitwise are recursive, so nothing can be proved *)
(* in a module that reaches them; MCToolchain compares the two.            *)
(***************************************************************************)
EXTENDS Integers

BitOf(b, weight) == (b \div weight) % 2
ByteOf(Bit(_)) ==
    Bit(1) + 2 * Bit(2) + 4 * Bit(4) + 8 * Bit(8)
    + 16 * Bit(16) + 32 * Bit(32) + 64 * Bit(64) + 128 * Bit(128)

x & y == ByteOf(LAMBDA w : BitOf(x, w) * BitOf(y, w))
x ^^ y == ByteOf(LAMBDA w : (BitOf(x, w) + BitOf(y, w)) % 2)
x | y == (x & y) + (x ^^ y)
=============================================================================
