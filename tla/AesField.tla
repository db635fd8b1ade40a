-------------------------------- MODULE AesField --------------------------------
(***************************************************************************)
(* The field GF(2^8) from its definition, and what the tables of Aes and   *)
(* its column arithmetic compute in it.                                    *)
(***************************************************************************)
EXTENDS Aes, Bitwise

\* Products in GF(2^8) from the definition: polynomials modulo x^8+x^4+x^3+x+1.
Product(x, y) ==
  LET long == FoldLeft(LAMBDA p, k : p ^^ (((y \div 2^k) % 2) * x * 2^k), 0, [k \in 1 .. 8 |-> k - 1])
  IN FoldLeft(LAMBDA p, k : IF (p \div 2^k) % 2 = 1 THEN p ^^ (\h11b * 2^(k - 8)) ELSE p, long,
              [k \in 1 .. 7 |-> 15 - k])
RotL(x, k) == ((x * 2^k) % 256) + (x * 2^k) \div 256

\* Substitution is the inverse in the field followed by the affine map, and a
\* mixed column is the product with the polynomial {03}x^3+{01}x^2+{01}x+{02}.
FieldArithmetic ==
  [][/\ stage = "sub_bytes" => \A k \in 1 .. 16 :
          LET y == RotL(state'[k], 1) ## RotL(state'[k], 3) ## RotL(state'[k], 6) ## 5
          IN IF state[k] = 0 THEN y = 0 ELSE Product(state[k], y) = 1
     /\ stage = "mix_columns" => \A i, j \in Cols :
          LET at(d) == state[At(i, (j + d) % 4)]
          IN state'[At(i, j)] = Product(at(0), 2) ## Product(at(1), 3) ## at(2) ## at(3)]_vars
=================================================================================
