------------------------------- MODULE Adler32 -------------------------------
(***************************************************************************)
(* The checksum of a spec (api/v1alpha1/cloudresourcedeployment_types.go):  *)
(* Adler-32 of the bytes it prints as.  What Controller's models take for  *)
(* one value per spec is no such thing.                                    *)
(***************************************************************************)
EXTENDS Integers, Sequences

Modulus == 65521

Byte == 0 .. 255

\* The two sums, as they are before the first byte, and after one more.
Start == [a |-> 1, b |-> 0]

Next(sums, byte) ==
  LET a == (sums.a + byte) % Modulus
  IN [a |-> a, b |-> (sums.b + a) % Modulus]

Sums == [a : 0 .. Modulus - 1, b : 0 .. Modulus - 1]

\* sums[n] are the sums after n bytes,
AreSums(sums, bytes) ==
  /\ sums \in [0 .. Len(bytes) -> Sums] /\ sums[0] = Start
  /\ \A n \in 1 .. Len(bytes) : sums[n] = Next(sums[n - 1], bytes[n])

\* and the last of them the checksum.
CalculateChecksum(sums, bytes) ==
  sums[Len(bytes)].b * 65536 + sums[Len(bytes)].a
=============================================================================
