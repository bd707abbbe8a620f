-------------------------- MODULE WrappingIntegers --------------------------
(***************************************************************************)
(* TCP sequence numbers on the wire: wrap, unwrap and the signed offset    *)
(* between two of them (libsponge/wrapping_integers.{hh,cc}).              *)
(*                                                                         *)
(* The code works modulo 2^32 with int32_t offsets.  The modulus is a      *)
(* constant here, so that TLC can go around it in a few steps and the      *)
(* theorems hold for every width.  Absolute sequence numbers (uint64_t)    *)
(* are natural numbers: 2^64 is never reached.                             *)
(***************************************************************************)
EXTENDS Integers

CONSTANT Half          \* 2^31: the number of non-negative int32_t values

ASSUME HalfAssumption == Half \in Nat \ {0}

Modulus == 2 * Half    \* 2^32
Raw == 0 .. Modulus - 1

\* The raw value of absolute number n in the stream that starts at isn.
Wrap(n, isn) == (n + isn) % Modulus

\* operator-(WrappingInt32, WrappingInt32): the difference cast to int32_t.
Offset(a, b) ==
  LET d == (a - b) % Modulus
  IN  IF d < Half THEN d ELSE d - Modulus

\* A wrong variant that the runs tell apart: a number before 0 is returned.
UnwrapUnlifted(n, isn, checkpoint) == checkpoint + Offset(n, Wrap(checkpoint, isn))

\* The absolute number that unwrap() returns for raw value n.
Unwrap(n, isn, checkpoint) ==
  LET ret == checkpoint + Offset(n, Wrap(checkpoint, isn))
  IN  IF ret < 0 THEN ret + Modulus ELSE ret

=============================================================================
