---------------------------- MODULE ErasureCode ----------------------------
(***************************************************************************)
(* The code by which data is kept in shards (encoding/reed_solomon.rs, on  *)
(* the crate reed-solomon-erasure): DATA_SHARDS_COUNT shards of data,      *)
(* extended by parity shards so that any DATA_SHARDS_COUNT of them give    *)
(* the data back. A shard is one byte here: code and operations treat all  *)
(* bytes of a shard alike and apart.                                       *)
(***************************************************************************)
EXTENDS Integers, Sequences, FiniteSets, FiniteSetsExt, Functions

CONSTANTS
  N,          \* data_shards_total
  EXP_TABLE   \* i -> x^i, the table the crate looks products up in

K == 2        \* DATA_SHARDS_COUNT
Sids == 0 .. N - 1

ASSUME SizeAssumption == N \in 3 .. 255

(* A byte is the set of its bits that are one. *)
Bytes == SUBSET (0 .. 7)
Zero == {}
One == {0}
Byte(n) == {i \in 0 .. 7 : (n \div 2^i) % 2 = 1}

-----------------------------------------------------------------------------
(* GF(2^8), as in the crate's galois_8: a byte is a polynomial, the sum is *)
(* bitwise, and products are looked up in a table of the powers of x       *)
(* modulo x^8 + x^4 + x^3 + x^2 + 1.                                       *)

add(a, b) == SymDiff(a, b)
TimesX(a) == SymDiff({i + 1 : i \in a \ {7}}, IF 7 \in a THEN {0, 2, 3, 4} ELSE {})

(* The table: the powers of x, which are the 255 bytes other than zero and *)
(* then repeat.                                                            *)
ASSUME TableAssumption ==
  /\ EXP_TABLE \in [0 .. 254 -> Bytes \ {Zero}]
  /\ EXP_TABLE[0] = One
  /\ \A i \in 0 .. 254 : TimesX(EXP_TABLE[i]) = EXP_TABLE[(i + 1) % 255]
  /\ \A b \in Bytes \ {Zero} : \E i \in 0 .. 254 : EXP_TABLE[i] = b
  /\ \A i, j \in 0 .. 254 : EXP_TABLE[i] = EXP_TABLE[j] => i = j

LOG_TABLE == [b \in Bytes \ {Zero} |-> CHOOSE i \in 0 .. 254 : EXP_TABLE[i] = b]
mul(a, b) == IF a = Zero \/ b = Zero THEN Zero
             ELSE EXP_TABLE[(LOG_TABLE[a] + LOG_TABLE[b]) % 255]
inverse(a) == EXP_TABLE[(255 - LOG_TABLE[a]) % 255]

-----------------------------------------------------------------------------
(* The code.                                                               *)

(* A Vandermonde matrix with the first K rows made the identity: for       *)
(* K = 2, row s is <<s + 1, s>>, with the + of the field.                  *)
Row(s) == <<add(Byte(s), One), Byte(s)>>

encode(value) == [s \in Sids |-> add(mul(Row(s)[1], value[1]), mul(Row(s)[2], value[2]))]

(* K shards decode to the solution of their equations. *)
decode(shards) ==
  LET i == Min(DOMAIN shards)
      j == Max(DOMAIN shards)
      determinant == add(mul(Row(i)[1], Row(j)[2]), mul(Row(j)[1], Row(i)[2]))
      solution == <<add(mul(shards[i], Row(j)[2]), mul(shards[j], Row(i)[2])),
                    add(mul(Row(i)[1], shards[j]), mul(Row(j)[1], shards[i]))>>
  IN  [d \in 1 .. K |-> mul(inverse(determinant), solution[d])]

=============================================================================
