------------------------------ MODULE Recovery ------------------------------
(***************************************************************************)
(* Shamir's secret sharing as the encryption SDK implements it, for one    *)
(* byte of the secret: bytes are split and recovered independently.  A     *)
(* byte is the set of the positions of its one bits, so that addition in   *)
(* GF(256) is the symmetric difference.                                    *)
(***************************************************************************)
EXTENDS Integers, Sequences, FiniteSetsExt

Byte == SUBSET (0..7)

\* The number n as a byte.
Bits(n) == {b \in 0..7 : (n \div 2^b) % 2 = 1}

\* a ^ b, and the sum and the product of f over S
Xor(a, b) == (a \cup b) \ (a \cap b)
XorOver(f(_), S) == MapThenFoldSet(Xor, {}, f, LAMBDA T : CHOOSE x \in T : TRUE, S)

\* x^8 + x^4 + x^3 + x + 1
GF_POLY == {8, 4, 3, 1, 0}

\* _a <<= 1 with its reduction
Double(a) == LET shifted == {i + 1 : i \in a} IN IF 8 \in shifted THEN Xor(shifted, GF_POLY) ELSE shifted

\* gfMul: a, doubled each time round the loop, is added for every bit of b.
GfMul(a, b) ==
    LET loop[n \in 0..8] ==
          IF n = 0 THEN [sum |-> {}, a |-> a]
          ELSE LET last == loop[n - 1]
               IN [sum |-> IF n - 1 \in b THEN Xor(last.sum, last.a) ELSE last.sum, a |-> Double(last.a)]
    IN loop[8].sum
GfProduct(f(_), S) == MapThenFoldSet(GfMul, {0}, f, LAMBDA T : CHOOSE x \in T : TRUE, S)

\* gfInv: a^254, the product of the squares a^2, a^4, ..., a^128.
GfInv(a) ==
    LET loop[n \in 0..7] ==
          IF n = 0 THEN [product |-> {0}, base |-> a]
          ELSE LET last == loop[n - 1]
                   square == GfMul(last.base, last.base)
               IN [product |-> GfMul(last.product, square), base |-> square]
    IN loop[7].product

\* The polynomial with these coefficients, the secret first, at x: Horner's rule.
Evaluate(coefficients, x) ==
    LET value[k \in 1..(Len(coefficients) + 1)] ==
          IF k > Len(coefficients) THEN {} ELSE Xor(GfMul(value[k + 1], x), coefficients[k])
    IN value[1]

\* splitSecret: share i is the value at x = i.
SplitSecret(coefficients, n) == [i \in 1..n |-> Evaluate(coefficients, Bits(i))]

\* Mutant: the denominator of the basis polynomial is xi alone.
Lagrange_NoXor(i, S) == GfProduct(LAMBDA j : GfMul(Bits(j), GfInv(Bits(i))), S \ {i})

\* The basis polynomial of share i among the shares S, at 0: the product of xj / (xi ^ xj).
Lagrange(i, S) == GfProduct(LAMBDA j : GfMul(Bits(j), GfInv(Xor(Bits(i), Bits(j)))), S \ {i})

\* recoverSecret from at least two shares.
RecoverSecret(shares) ==
    LET S == DOMAIN shares IN XorOver(LAMBDA i : GfMul(shares[i], Lagrange(i, S)), S)
=============================================================================
