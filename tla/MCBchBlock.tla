------------------------------ MODULE MCBchBlock ------------------------------
(***************************************************************************)
(* BchBlock on two codes: M = 6, T = 5 with two bytes of data, small       *)
(* enough for all the noises of a window of nine bits, and the code of the *)
(* program itself, M = 8, T = 20 with fourteen bytes.                      *)
(***************************************************************************)
EXTENDS BchBlock

\* prim_poly_tab of bch_init: 0x43 for M = 6, 0x11d for M = 8.
PrimPoly6 == {0, 1, 6}
PrimPoly8 == {0, 2, 3, 4, 8}

\* The data of a codeword of the least weight, eight bits and three of parity.
LightWord == {2, 5, 6, 7, 9, 10, 11, 15}

SmallWords == {{}, LightWord}

\* Every weight up to nine within nine bits, words near the codeword of
\* LightWord, and two words whose locator polynomial has T+1 roots.
SmallNoises ==
  SUBSET (0 .. 8) \cup {w \in SUBSET LightWord : Cardinality(w) >= 5}
    \cup {{0, 1, 2, 4, 6, 8, 10}, {0, 1, 2, 5, 11, 12}}

\* The shortest noise that is decoded to no codeword.
StrayNoises == {{0, 2, 3, 6, 7, 8}} \cup SUBSET (0 .. 5)

FullWords == {{}, {j \in 0 .. 111 : j % 3 = 0}}

\* Bursts and scattered bits, up to T of them and more.
FullNoises ==
  {0 .. len - 1 : len \in {0, 1, 2, 3, 4, 5, 8, 13, 19, 20, 21, 25}}
    \cup {{(j * j + 7 * j) % 112 : j \in 0 .. len} : len \in {20, 30, 40}}
=============================================================================
