---------------------------- MODULE MCDataMemory ----------------------------
(* Instances of the data memory with up to three peers: the default code   *)
(* (2 data shards, 1 parity shard), or a smaller one where an instance     *)
(* needs a peer without an assigned shard or a program at every peer.      *)
EXTENDS DataMemory, TLC

CONSTANTS p1, p2, p3, v1, v2, a, b

(* Enumerations of three known peers, of two, and of the initializer only. *)
Three == [p \in Peers |-> CASE p = p1 -> 1 [] p = p2 -> 2 [] OTHER -> 0]
Two == [p \in Peers |-> CASE p = p1 -> 0 [] p = p2 -> 1 [] OTHER -> NoSid]
TwoOther == [p \in Peers |-> CASE p = p1 -> 1 [] p = p2 -> 0 [] OTHER -> NoSid]
One == [p \in Peers |-> IF p = p1 THEN 0 ELSE NoSid]

OnlyThree == {Three}
TwoOrThree == {Two, TwoOther, Three}
OnlyTwo == {Two}
OnlyOne == {One}

NoPrograms == {}
(* Neither value is special where the program swaps the two. *)
Symmetric == Permutations({a, b})

(* One instruction, on the address that is put or to another one. *)
InPlace == {[operand |-> v1, result |-> v1, calculate |-> [d \in Values |-> b]]}
ToOther == {[operand |-> v1, result |-> v2,
             calculate |-> [d \in Values |-> IF d = a THEN b ELSE a]]}
=============================================================================
