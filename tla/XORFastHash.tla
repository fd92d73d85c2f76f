---------------------------- MODULE XORFastHash ----------------------------
(***************************************************************************)
(* XORFastHash (src/DataStructures/XORFastHash.h): tabulation hashing of  *)
(* an unsigned key by its low and high 16-bit halves, through two tables  *)
(* of unsigned short that the constructor fills with their indices and    *)
(* shuffles.                                                               *)
(*                                                                         *)
(* The half width is the constant W (16 in the code); the tables have     *)
(* 2 << W entries, as the code sizes them, and an unsigned short keeps    *)
(* W bits. std::random_shuffle is libstdc++'s loop: for every position i  *)
(* from 1 on, swap with a position rand() % (i + 1), any of 0..i here.    *)
(***************************************************************************)
EXTENDS Naturals, Bitwise, Functions

CONSTANT W   \* bits in each half of the key

Half == 2^W
Mask == Half - 1              \* 0xffff
TableSize == 2 * Half         \* 2 << 16
Short(x) == x % Half          \* conversion to unsigned short

VARIABLES
    table1,
    table2,
    pc,      \* where the constructor is
    i        \* the position random_shuffle swaps next

vars == <<table1, table2, pc, i>>

Index == 0..(TableSize - 1)

TypeOK ==
    /\ pc \in {"construct", "shuffle1", "shuffle2", "ready"}
    /\ i \in Index
    /\ table1 \in [Index -> 0..Mask] \cup {<<>>}
    /\ table2 \in [Index -> 0..Mask] \cup {<<>>}

\* Both vectors are empty before the constructor body runs.
Init ==
    /\ table1 = <<>>
    /\ table2 = <<>>
    /\ pc = "construct"
    /\ i = 0

\* resize(2 << 16) both tables, then table[k] = k for every k: the
\* assignment to unsigned short keeps the low W bits.
Fill ==
    /\ pc = "construct"
    /\ table1' = [k \in Index |-> Short(k)]
    /\ table2' = [k \in Index |-> Short(k)]
    /\ pc' = "shuffle1"
    /\ i' = 1

Swap(t, a, b) == [t EXCEPT ![a] = t[b], ![b] = t[a]]

\* One iteration of random_shuffle over a table; after the last position
\* the constructor goes on to the next.
ShuffleStep(t, next) ==
    /\ \E j \in 0..i : t' = Swap(t, i, j)
    /\ IF i = TableSize - 1
          THEN pc' = next /\ i' = IF next = "ready" THEN 0 ELSE 1
          ELSE i' = i + 1 /\ UNCHANGED pc

ShuffleTable1 ==
    /\ pc = "shuffle1"
    /\ ShuffleStep(table1, "shuffle2")
    /\ UNCHANGED table2

ShuffleTable2 ==
    /\ pc = "shuffle2"
    /\ ShuffleStep(table2, "ready")
    /\ UNCHANGED table1

Next == Fill \/ ShuffleTable1 \/ ShuffleTable2

Spec == Init /\ [][Next]_vars

\* operator(): table1[lsb] ^ table2[msb], with lsb and msb the two halves
\* of the key.
XORHash(v) ==
    LET lsb == v & Mask
        msb == shiftR(v, W) & Mask
    IN  Short(table1[lsb] ^^ table2[msb])

(* Properties.                                                             *)

\* Tabulation over two 65k-entry tables, each a shuffle of 0..65535 (the
\* class comment: "65k entries", "2*2^16"), separates keys that differ in
\* one half only: for a fixed high half, distinct low halves hash apart.
LsbCollisionFree ==
    pc = "ready" =>
        \A msb \in 0..Mask :
            IsInjective([lsb \in 0..Mask |-> XORHash(msb * Half + lsb)])

============================================================================
