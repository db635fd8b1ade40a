-------------------------- MODULE StrFormattingProofs --------------------------
(***************************************************************************)
(* What split_str stores and its callers read, for strings of any length   *)
(* over any characters.                                                    *)
(***************************************************************************)
EXTENDS StrFormatting, FiniteSetTheorems, TLAPS

Text == Seq(Chars \cup {Delim})
Callees == {"read", "login", "kick"}

\* The delimiters among the first m characters.
Delims(s, m) == {k \in 1 .. m : s[k] = Delim}

\* Where strtok_r may go on: at the beginning, behind a delimiter or behind the end.
Boundary(s, n) == n = 1 \/ n = Len(s) + 2 \/ (n \in 2 .. Len(s) + 1 /\ s[n - 1] = Delim)

ControlInv ==
  /\ str \in Text /\ caller \in Callees
  /\ pc \in {"start", "count", "store", "returned", "used", "free", "done"}
  /\ offset \in 0 .. Len(str)
  /\ pc = "start" => i = 0 /\ save_ptr = 1 /\ offset = 0 /\ length = -1
  /\ pc \notin {"start", "count"} => offset = Len(str)
  /\ pc \in {"count", "store"} => str # <<>>

CountInv ==
  /\ ntokens = 1 + Cardinality(Delims(str, offset))
  /\ pc \in {"returned", "used"} => length = IF str = <<>> THEN -1 ELSE ntokens
  /\ pc = "used" => ~Rejected

\* The last token strtok_r has returned is the next to store, and what is left of
\* the string begins after the delimiter behind it.
Pending ==
  /\ IsToken(str, p, i + 1)
  /\ save_ptr \in 1 .. Len(str) + 2 /\ Boundary(str, save_ptr)
  /\ Cardinality(Before(str, save_ptr)) = i + 1

TokenInv ==
  /\ i \in Nat /\ Len(strs) = i /\ strs \in Seq(Seq(Chars \cup {Delim}))
  /\ \A k \in 1 .. i : IsToken(str, strs[k], k)
  /\ pc \in {"count", "store"} => IF p = <<>> THEN i = Cardinality(Begins(str)) ELSE Pending
  /\ pc \in {"returned", "used"} => i = Cardinality(Begins(str))

IInv == ControlInv /\ CountInv /\ TokenInv

-----------------------------------------------------------------------------
(* Sets of positions                                                       *)

\* A set of numbers that is not empty has a least one.
LEMMA LeastIs ==
  ASSUME NEW S \in SUBSET Nat, NEW m \in S
  PROVE  Least(S) \in S /\ \A k \in S : Least(S) <= k
<1> DEFINE Below(n) == 0 .. n - 1
           D == {Below(n) : n \in S}
           R == StrictSubsetOrdering(Nat)
           F == FiniteSubsetsOf(Nat)
<1>1. D \subseteq F /\ D # {}
  <2>1. \A n \in Nat : Below(n) \in SUBSET Nat /\ IsFiniteSet(Below(n))
    BY FS_Interval
  <2> QED
    BY <2>1 DEF FiniteSubsetsOf
<1>2. IsWellFoundedOn(R, F)
  BY FS_StrictSubsetOrderingWellFounded
<1>3. PICK x \in D : \A y \in D : <<y, x>> \notin R
  <2> HIDE DEF D, R, F
  <2> QED
    BY <1>1, <1>2, WFMin
<1>4. PICK l \in S : x = Below(l)
  OBVIOUS
<1>5. ASSUME NEW k \in S, k < l PROVE FALSE
  <2>1. Below(k) \subseteq Below(l) /\ Below(k) # Below(l)
    BY <1>5
  <2>2. <<Below(k), Below(l)>> \in R
    BY <2>1 DEF StrictSubsetOrdering
  <2> QED
    BY <1>3, <1>4, <2>2
<1>6. \E n \in S : \A k \in S : n <= k
  BY <1>5
<1> QED
  BY <1>6 DEF Least

LEMMA Positions ==
  ASSUME str \in Text
  PROVE  /\ Len(str) \in Nat
         /\ Begins(str) \subseteq 1 .. Len(str) /\ IsFiniteSet(Begins(str)) /\ Cardinality(Begins(str)) \in Nat
         /\ \A m \in Int : IsFiniteSet(Before(str, m)) /\ Cardinality(Before(str, m)) \in Nat
         /\ \A m \in Nat : IsFiniteSet(Delims(str, m)) /\ Cardinality(Delims(str, m)) \in Nat
<1>1. Len(str) \in Nat
  BY DEF Text
<1>2. \A m \in Nat : IsFiniteSet(1 .. m)
  BY FS_Interval
<1>3. Begins(str) \subseteq 1 .. Len(str)
  BY DEF Begins
<1>4. IsFiniteSet(Begins(str))
  BY <1>1, <1>2, <1>3, FS_Subset
<1>5. \A m \in Int : Before(str, m) \subseteq Begins(str)
  BY DEF Before
<1>6. \A m \in Int : IsFiniteSet(Before(str, m))
  BY <1>4, <1>5, FS_Subset
<1>7. \A m \in Nat : IsFiniteSet(Delims(str, m))
  <2>1. \A m \in Nat : Delims(str, m) \subseteq 1 .. m
    BY DEF Delims
  <2> QED
    BY <1>2, <2>1, FS_Subset
<1> QED
  BY <1>1, <1>3, <1>4, <1>6, <1>7, FS_CardinalityType

\* Every token but one at the beginning follows a delimiter, and in a regular
\* string every delimiter is followed by a token.
LEMMA TokensAndDelims ==
  ASSUME str \in Text
  PROVE  /\ Cardinality(Begins(str)) <= 1 + Cardinality(Delims(str, Len(str)))
         /\ Regular => Cardinality(Begins(str)) = 1 + Cardinality(Delims(str, Len(str)))
<1> DEFINE T == Delims(str, Len(str)) \cup {0}
           f == [b \in Begins(str) |-> b - 1]
<1>1. Len(str) \in Nat /\ Begins(str) \subseteq 1 .. Len(str)
  BY Positions
<1>2. 0 \notin Delims(str, Len(str))
  BY DEF Delims
<1>3. IsFiniteSet(T) /\ Cardinality(T) = 1 + Cardinality(Delims(str, Len(str)))
  <2>1. IsFiniteSet(Delims(str, Len(str))) /\ Cardinality(Delims(str, Len(str))) \in Nat
    BY <1>1, Positions
  <2> DEFINE D == Delims(str, Len(str))
  <2> HIDE DEF D
  <2>2. IsFiniteSet(D) /\ Cardinality(D) \in Nat /\ 0 \notin D
    BY <1>2, <2>1 DEF D
  <2>3. IsFiniteSet(D \cup {0}) /\ Cardinality(D \cup {0}) = Cardinality(D) + 1
    BY <2>2, FS_AddElement
  <2> QED
    BY <2>2, <2>3 DEF D
<1>4. f \in Injection(Begins(str), T)
  <2>1. ASSUME NEW b \in Begins(str) PROVE b - 1 \in T
    BY <1>1 DEF Begins, Delims
  <2>2. f \in [Begins(str) -> T]
    BY <2>1
  <2>3. \A b, c \in Begins(str) : f[b] = f[c] => b = c
    BY <1>1
  <2> QED
    BY <2>2, <2>3 DEF Injection, IsInjective
<1>5. ASSUME Regular PROVE f \in Surjection(Begins(str), T)
  <2>1. ASSUME NEW d \in T PROVE d + 1 \in Begins(str) /\ f[d + 1] = d
    <3>1. d \in 0 .. Len(str) /\ (d = 0 \/ str[d] = Delim)
      BY <1>1 DEF Delims
    <3>2. d # Len(str) /\ str[d + 1] # Delim
      BY <1>5, <3>1 DEF Regular
    <3>3. d + 1 \in 1 .. Len(str) /\ (d + 1) - 1 = d
      BY <1>1, <3>1, <3>2
    <3>4. d + 1 \in Begins(str)
      BY <3>1, <3>2, <3>3 DEF Begins
    <3> QED
      BY <3>3, <3>4
  <2>2. f \in [Begins(str) -> T]
    BY <1>4 DEF Injection
  <2> QED
    BY <2>1, <2>2 DEF Surjection
<1> HIDE DEF T, f
<1>6. /\ Cardinality(Begins(str)) <= Cardinality(T)
      /\ Cardinality(Begins(str)) = Cardinality(T) <=> f \in Surjection(Begins(str), T)
  BY <1>3, <1>4, FS_Injection
<1> QED
  BY <1>3, <1>5, <1>6

-----------------------------------------------------------------------------
(* strtok_r                                                                *)

LEMMA TokenBeginIs ==
  ASSUME str \in Text, NEW n \in 1 .. Len(str) + 2
  PROVE  /\ TokenBegin(n) \in 1 .. Len(str) + 1
         /\ TokenBegin(n) # Len(str) + 1 => TokenBegin(n) \in n .. Len(str) /\ str[TokenBegin(n)] # Delim
         /\ \A m \in n .. Len(str) : m < TokenBegin(n) => str[m] = Delim
<1> DEFINE S == {m \in n .. Len(str) : str[m] # Delim} \cup {Len(str) + 1}
<1>1. Len(str) \in Nat
  BY Positions
<1>2. S \in SUBSET Nat /\ Len(str) + 1 \in S
  BY <1>1
<1>3. TokenBegin(n) \in S /\ \A k \in S : TokenBegin(n) <= k
  <2>1. TokenBegin(n) = Least(S)
    BY DEF TokenBegin
  <2> HIDE DEF S
  <2> QED
    BY <1>2, <2>1, LeastIs
<1> QED
  BY <1>1, <1>3

LEMMA TokenEndIs ==
  ASSUME str \in Text, NEW n \in 1 .. Len(str) + 2
  PROVE  /\ TokenEnd(n) \in TokenBegin(n) .. Len(str) + 1
         /\ TokenEnd(n) # Len(str) + 1 => str[TokenEnd(n)] = Delim
         /\ \A m \in TokenBegin(n) .. Len(str) : m < TokenEnd(n) => str[m] # Delim
<1> DEFINE b == TokenBegin(n)
           S == {m \in b .. Len(str) : str[m] = Delim} \cup {Len(str) + 1}
<1>1. Len(str) \in Nat /\ b \in 1 .. Len(str) + 1
  BY Positions, TokenBeginIs
<1>2. S \in SUBSET Nat /\ Len(str) + 1 \in S
  <2> HIDE DEF b
  <2> QED
    BY <1>1
<1>3. TokenEnd(n) \in S /\ \A k \in S : TokenEnd(n) <= k
  <2>1. TokenEnd(n) = Least(S)
    BY DEF TokenEnd
  <2> HIDE DEF S
  <2> QED
    BY <1>2, <2>1, LeastIs
<1> HIDE DEF b
<1>4. /\ TokenEnd(n) \in b .. Len(str) + 1
      /\ TokenEnd(n) # Len(str) + 1 => str[TokenEnd(n)] = Delim
      /\ \A m \in b .. Len(str) : m < TokenEnd(n) => str[m] # Delim
  BY <1>1, <1>3
<1> QED
  BY <1>4 DEF b

LEMMA Piece ==
  ASSUME NEW s \in Text, NEW a \in 1 .. Len(s), NEW c \in a .. Len(s)
  PROVE  SubSeq(s, a, c) # <<>>
<1>1. a \in Nat /\ c \in Nat /\ a <= c
  OBVIOUS
<1>2. Len(SubSeq(s, a, c)) = c - a + 1
  BY <1>1 DEF Text
<1> QED
  BY <1>1, <1>2

\* From the beginning of the string or from behind a delimiter, strtok_r takes the
\* first token that begins there or later, and stops at such a place again.
LEMMA NextToken ==
  ASSUME str \in Text, NEW n \in 1 .. Len(str) + 2, Boundary(str, n), strtok_r(n)
  PROVE  IF p' = <<>> THEN Cardinality(Before(str, n)) = Cardinality(Begins(str))
         ELSE /\ IsToken(str, p', Cardinality(Before(str, n)) + 1)
              /\ save_ptr' \in 1 .. Len(str) + 2 /\ Boundary(str, save_ptr')
              /\ Cardinality(Before(str, save_ptr')) = Cardinality(Before(str, n)) + 1
<1> DEFINE b == TokenBegin(n)
           e == TokenEnd(n)
           l == Len(str)
<1>1. l \in Nat /\ Begins(str) \subseteq 1 .. l
  BY Positions
<1>2. /\ b \in 1 .. l + 1 /\ (b # l + 1 => b \in n .. l /\ str[b] # Delim)
      /\ \A m \in n .. l : m < b => str[m] = Delim
  BY TokenBeginIs
<1>3. /\ e \in b .. l + 1 /\ (e # l + 1 => str[e] = Delim)
      /\ \A m \in b .. l : m < e => str[m] # Delim
  BY TokenEndIs
<1>4. p' = SubSeq(str, b, e - 1) /\ save_ptr' = e + 1
  BY DEF strtok_r
<1> HIDE DEF b, e
<1>5. CASE b = l + 1
  <2>1. e = l + 1 /\ p' = <<>>
    BY <1>1, <1>3, <1>4, <1>5 DEF Text
  <2>2. ASSUME NEW c \in Begins(str), ~(c < n) PROVE FALSE
    <3>1. c \in n .. l /\ c < b
      BY <1>1, <1>5, <2>2
    <3> QED
      BY <1>2, <3>1 DEF Begins
  <2>3. Before(str, n) = Begins(str)
    BY <2>2 DEF Before
  <2> QED
    BY <2>1, <2>3
<1>6. CASE b # l + 1
  <2>1. b \in 1 .. l /\ n <= b /\ str[b] # Delim /\ b < e
    BY <1>1, <1>2, <1>3, <1>6
  <2>2. b \in Begins(str)
    <3>1. CASE b = n /\ n = 1
      BY <2>1, <3>1 DEF Begins
    <3>2. CASE b = n /\ n # 1
      BY <1>1, <2>1, <3>2 DEF Begins, Boundary
    <3>3. CASE b # n
      <4>1. b - 1 \in n .. l /\ b - 1 < b
        BY <1>1, <2>1, <3>3
      <4> QED
        BY <1>2, <2>1, <4>1 DEF Begins
    <3> QED
      BY <3>1, <3>2, <3>3
  <2>3. p' # <<>>
    <3>1. e - 1 \in b .. l
      BY <1>1, <1>3, <2>1
    <3> QED
      BY <1>4, <2>1, <3>1, Piece
  <2>4. Before(str, b) = Before(str, n)
    <3>1. ASSUME NEW c \in Begins(str), c < b, ~(c < n) PROVE FALSE
      <4>1. c \in n .. l
        BY <1>1, <3>1
      <4> QED
        BY <1>2, <3>1, <4>1 DEF Begins
    <3> QED
      BY <1>1, <2>1, <3>1 DEF Before
  <2>5. Before(str, e + 1) = Before(str, n) \cup {b}
    <3>1. ASSUME NEW c \in Begins(str), b < c, c < e + 1 PROVE FALSE
      <4>1. c \in 1 .. l /\ str[c] # Delim /\ (c = 1 \/ str[c - 1] = Delim)
        BY <3>1 DEF Begins
      <4>2. c - 1 \in b .. l /\ c - 1 < e
        BY <1>1, <1>3, <2>1, <3>1, <4>1
      <4>3. c # 1
        BY <2>1, <3>1
      <4> QED
        BY <1>3, <4>1, <4>2, <4>3
    <3>2. \A c \in Begins(str) : c < e + 1 <=> c < b \/ c = b
      BY <1>1, <1>3, <2>1, <3>1
    <3>3. Before(str, e + 1) = Before(str, b) \cup {b}
      BY <2>2, <3>2 DEF Before
    <3> QED
      BY <2>4, <3>3
  <2>6. Cardinality(Before(str, e + 1)) = Cardinality(Before(str, n)) + 1
    <3>1. b \notin Before(str, n)
      BY <2>1 DEF Before
    <3>2. IsFiniteSet(Before(str, n))
      BY Positions
    <3> QED
      BY <2>5, <3>1, <3>2, FS_AddElement
  <2>7. IsToken(str, p', Cardinality(Before(str, n)) + 1)
    <3>1. e - 1 \in 1 .. l /\ b <= e - 1 /\ (e - 1 = l \/ str[(e - 1) + 1] = Delim)
      BY <1>1, <1>3, <2>1
    <3>2. \A m \in b .. e - 1 : str[m] # Delim
      BY <1>1, <1>3, <2>1, <3>1
    <3> DEFINE c == Cardinality(Before(str, n))
               f == e - 1
    <3>3. c \in Nat
      BY Positions
    <3>4. Cardinality(Before(str, b)) = c
      BY <2>4
    <3>5. p' = SubSeq(str, b, f) /\ f \in 1 .. l /\ b <= f /\ (f = l \/ str[f + 1] = Delim)
      BY <1>4, <3>1
    <3>6. \A m \in b .. f : str[m] # Delim
      BY <3>2
    <3> HIDE DEF c, f
    <3>7. Cardinality(Before(str, b)) = (c + 1) - 1
      BY <3>3, <3>4
    <3>8. IsToken(str, p', c + 1)
      BY <2>2, <3>5, <3>6, <3>7 DEF IsToken
    <3> QED
      BY <3>8 DEF c
  <2>8. e + 1 \in 1 .. l + 2 /\ Boundary(str, e + 1)
    <3>1. e + 1 \in 2 .. l + 2 /\ (e + 1) - 1 = e
      BY <1>1, <1>3, <2>1
    <3> QED
      BY <1>1, <1>3, <3>1 DEF Boundary
  <2> QED
    BY <1>4, <2>3, <2>6, <2>7, <2>8
<1> QED
  BY <1>5, <1>6

-----------------------------------------------------------------------------
(* The invariant                                                           *)

LEMMA StringsAreText == Strings \subseteq Text
<1>1. SUFFICES ASSUME NEW n \in 0 .. MAX_LENGTH, NEW s \in [1 .. n -> Chars \cup {Delim}] PROVE s \in Text
  BY DEF Strings
<1>2. n \in Nat
  BY LengthAssumption
<1> QED
  BY <1>2 DEF Text

LEMMA DelimsStep ==
  ASSUME str \in Text, NEW m \in Nat
  PROVE  Cardinality(Delims(str, m + 1)) = Cardinality(Delims(str, m)) + IF str[m + 1] = Delim THEN 1 ELSE 0
<1> DEFINE D == Delims(str, m)
<1>1. IsFiniteSet(D) /\ Cardinality(D) \in Nat
  BY Positions
<1>2. m + 1 \notin D
  BY DEF Delims
<1>3. CASE str[m + 1] = Delim
  <2>1. Delims(str, m + 1) = D \cup {m + 1}
    BY <1>3 DEF Delims
  <2> HIDE DEF D
  <2>2. Cardinality(D \cup {m + 1}) = Cardinality(D) + 1
    BY <1>1, <1>2, FS_AddElement
  <2> QED
    BY <1>3, <2>1, <2>2 DEF D
<1>4. CASE str[m + 1] # Delim
  <2>1. Delims(str, m + 1) = D
    BY <1>4 DEF Delims
  <2> QED
    BY <1>1, <1>4, <2>1
<1> QED
  BY <1>3, <1>4

\* No token begins before the first character, and none in the empty string.
LEMMA NothingBefore ==
  ASSUME str \in Text
  PROVE  /\ Cardinality(Before(str, 1)) = 0 /\ Cardinality(Delims(str, 0)) = 0
         /\ str = <<>> => Cardinality(Begins(str)) = 0
<1>1. Before(str, 1) = {} /\ Delims(str, 0) = {}
  BY Positions DEF Before, Delims
<1>2. str = <<>> => Begins(str) = {}
  BY DEF Begins
<1> QED
  BY <1>1, <1>2, FS_EmptySet

\* The token in p is one the string has.
LEMMA PendingIsThere ==
  ASSUME str \in Text, i \in Nat, Pending
  PROVE  i + 1 <= Cardinality(Begins(str))
<1>1. Before(str, save_ptr) \subseteq Begins(str)
  BY DEF Before
<1>2. Cardinality(Before(str, save_ptr)) <= Cardinality(Begins(str))
  BY <1>1, Positions, FS_Subset
<1> QED
  BY <1>2 DEF Pending

LEMMA InitInv == Init => IInv
<1> SUFFICES ASSUME Init PROVE IInv
  OBVIOUS
<1>1. str \in Text /\ Len(str) \in Nat
  BY StringsAreText DEF Init, Text
<1>2. ControlInv
  BY <1>1, CallersAssumption DEF Init, ControlInv, Callees
<1>3. CountInv
  BY <1>1, NothingBefore DEF Init, CountInv
<1>4. TokenInv
  BY DEF Init, TokenInv
<1> QED
  BY <1>2, <1>3, <1>4 DEF IInv

LEMMA StepInv == IInv /\ [Next]_vars => IInv'
<1> SUFFICES ASSUME IInv, [Next]_vars PROVE IInv'
  OBVIOUS
<1> USE DEF IInv
<1>1. str \in Text /\ Len(str) \in Nat /\ i \in Nat /\ Cardinality(Begins(str)) \in Nat
  BY Positions DEF ControlInv, TokenInv
<1>2. str' = str /\ caller' = caller
  BY DEF Next, vars, split_str, Empty, Begin, CountDelimiter, Allocate, Store, Return, Reject, Use, Used,
         free_str_array
<1>3. CASE Empty
  <2>1. offset = 0 /\ i = 0 /\ Cardinality(Begins(str)) = 0 /\ length = -1
    BY <1>1, <1>3, NothingBefore DEF Empty, ControlInv
  <2>2. ControlInv'
    BY <1>3, <2>1 DEF Empty, ControlInv
  <2>3. CountInv'
    BY <1>3, <2>1 DEF Empty, CountInv
  <2>4. TokenInv'
    BY <1>3, <2>1 DEF Empty, TokenInv
  <2> QED
    BY <2>2, <2>3, <2>4
<1>4. CASE Begin
  <2>1. i = 0 /\ strtok_r(1) /\ pc' = "count" /\ UNCHANGED <<offset, ntokens, i, strs, length>>
    BY <1>4 DEF Begin, ControlInv
  <2>2. ControlInv'
    BY <1>2, <1>4, <2>1 DEF Begin, ControlInv
  <2>3. CountInv'
    BY <1>2, <2>1 DEF CountInv
  <2>4. IF p' = <<>> THEN Cardinality(Before(str, 1)) = Cardinality(Begins(str))
        ELSE /\ IsToken(str, p', Cardinality(Before(str, 1)) + 1)
             /\ save_ptr' \in 1 .. Len(str) + 2 /\ Boundary(str, save_ptr')
             /\ Cardinality(Before(str, save_ptr')) = Cardinality(Before(str, 1)) + 1
    <3>1. 1 \in 1 .. Len(str) + 2 /\ Boundary(str, 1)
      BY <1>1 DEF Boundary
    <3> QED
      BY <1>1, <2>1, <3>1, NextToken
  <2>5. Cardinality(Before(str, 1)) = 0
    BY <1>1, NothingBefore
  <2>6. IF p' = <<>> THEN i' = Cardinality(Begins(str')) ELSE Pending'
    BY <1>2, <2>1, <2>4, <2>5 DEF Pending
  <2>7. TokenInv'
    BY <1>2, <2>1, <2>6 DEF TokenInv
  <2> QED
    BY <2>2, <2>3, <2>7
<1>5. CASE CountDelimiter
  <2>1. offset \in Nat /\ offset < Len(str) /\ offset' = offset + 1 /\ pc = "count" /\ pc' = "count"
    BY <1>1, <1>5 DEF CountDelimiter, ControlInv
  <2>2. ControlInv'
    BY <1>1, <1>2, <1>5, <2>1 DEF CountDelimiter, ControlInv
  <2>3. ntokens' = 1 + Cardinality(Delims(str, offset + 1))
    <3>1. Cardinality(Delims(str, offset + 1))
            = Cardinality(Delims(str, offset)) + IF str[offset + 1] = Delim THEN 1 ELSE 0
      BY <1>1, <2>1, DelimsStep
    <3>2. Cardinality(Delims(str, offset)) \in Nat
      BY <1>1, <2>1, Positions
    <3> QED
      BY <1>5, <3>1, <3>2 DEF CountDelimiter, CountInv
  <2>4. CountInv'
    BY <1>2, <2>1, <2>3 DEF CountInv
  <2>5. TokenInv'
    BY <1>2, <1>5 DEF CountDelimiter, TokenInv, Pending
  <2> QED
    BY <2>2, <2>4, <2>5
<1>6. CASE Allocate
  <2>1. ControlInv'
    BY <1>2, <1>6 DEF Allocate, ControlInv
  <2>2. CountInv'
    BY <1>2, <1>6 DEF Allocate, CountInv
  <2>3. TokenInv'
    BY <1>2, <1>6 DEF Allocate, TokenInv, Pending
  <2> QED
    BY <2>1, <2>2, <2>3
<1>7. CASE Store
  <2>1. Pending /\ pc = "store" /\ pc' = "store" /\ i' = i + 1 /\ strs' = Append(strs, p) /\ strtok_r(save_ptr)
        /\ UNCHANGED <<offset, ntokens, length>>
    BY <1>7 DEF Store, TokenInv
  <2>2. ControlInv'
    BY <1>2, <1>7, <2>1 DEF Store, ControlInv
  <2>3. CountInv'
    BY <1>2, <2>1 DEF CountInv
  <2>4. IF p' = <<>> THEN i + 1 = Cardinality(Begins(str))
        ELSE /\ IsToken(str, p', (i + 1) + 1)
             /\ save_ptr' \in 1 .. Len(str) + 2 /\ Boundary(str, save_ptr')
             /\ Cardinality(Before(str, save_ptr')) = (i + 1) + 1
    <3>1. save_ptr \in 1 .. Len(str) + 2 /\ Boundary(str, save_ptr) /\ Cardinality(Before(str, save_ptr)) = i + 1
      BY <2>1 DEF Pending
    <3>2. IF p' = <<>> THEN Cardinality(Before(str, save_ptr)) = Cardinality(Begins(str))
          ELSE /\ IsToken(str, p', Cardinality(Before(str, save_ptr)) + 1)
               /\ save_ptr' \in 1 .. Len(str) + 2 /\ Boundary(str, save_ptr')
               /\ Cardinality(Before(str, save_ptr')) = Cardinality(Before(str, save_ptr)) + 1
      BY <1>1, <2>1, <3>1, NextToken
    <3> QED
      BY <3>1, <3>2
  <2>5. IF p' = <<>> THEN i' = Cardinality(Begins(str')) ELSE Pending'
    BY <1>2, <2>1, <2>4 DEF Pending
  <2>6. p \in Seq(Chars \cup {Delim})
    <3>1. PICK b \in Begins(str), e \in 1 .. Len(str) : p = SubSeq(str, b, e)
      BY <2>1 DEF Pending, IsToken
    <3>2. b \in 1 .. Len(str)
      BY <3>1 DEF Begins
    <3> QED
      BY <1>1, <3>1, <3>2 DEF Text
  <2>7. /\ strs' \in Seq(Seq(Chars \cup {Delim})) /\ Len(strs') = i'
        /\ strs'[i + 1] = p /\ \A k \in 1 .. i : strs'[k] = strs[k]
    BY <1>1, <2>1, <2>6 DEF TokenInv
  <2>8. \A k \in 1 .. i' : IsToken(str', strs'[k], k)
    <3>1. SUFFICES ASSUME NEW k \in 1 .. i + 1 PROVE IsToken(str, strs'[k], k)
      BY <1>2, <2>1
    <3>2. CASE k = i + 1
      BY <2>1, <2>7, <3>2 DEF Pending
    <3>3. CASE k # i + 1
      <4>1. k \in 1 .. i
        BY <1>1, <3>3
      <4> QED
        BY <2>7, <4>1 DEF TokenInv
    <3> QED
      BY <3>2, <3>3
  <2>9. TokenInv'
    BY <1>1, <2>1, <2>5, <2>7, <2>8 DEF TokenInv
  <2> QED
    BY <2>2, <2>3, <2>9
<1>8. CASE Return
  <2>1. i = Cardinality(Begins(str)) /\ pc' = "returned" /\ length' = ntokens /\ str # <<>>
    <3>1. pc = "store" /\ p = <<>>
      BY <1>8 DEF Return
    <3> QED
      BY <1>8, <3>1 DEF Return, TokenInv, ControlInv
  <2>2. ControlInv'
    BY <1>2, <1>8 DEF Return, ControlInv
  <2>3. CountInv'
    BY <1>2, <1>8, <2>1 DEF Return, CountInv
  <2>4. TokenInv'
    BY <1>2, <1>8, <2>1 DEF Return, TokenInv
  <2> QED
    BY <2>2, <2>3, <2>4
<1>9. CASE Reject \/ Use \/ Used \/ free_str_array \/ UNCHANGED vars
  <2>1. ControlInv'
    BY <1>2, <1>9 DEF Reject, Use, Used, free_str_array, vars, ControlInv
  <2>2. CountInv'
    BY <1>2, <1>9 DEF Reject, Use, Used, free_str_array, vars, CountInv, Rejected, is_str_array_empty
  <2>3. TokenInv'
    BY <1>2, <1>9 DEF Reject, Use, Used, free_str_array, vars, TokenInv, Pending
  <2> QED
    BY <2>1, <2>2, <2>3
<1> QED
  BY <1>3, <1>4, <1>5, <1>6, <1>7, <1>8, <1>9 DEF Next, split_str

LEMMA Invariance == Spec => []IInv
<1> QED
  BY InitInv, StepInv, PTL DEF Spec

-----------------------------------------------------------------------------
\* Whatever the string, split_str stores no token past the array it allocated for
\* one more than the delimiters (strformatting.c:39-45).
THEOREM ArrayIsLargeEnough == Spec => []ArrayFits
<1>1. IInv => ArrayFits
  <2> SUFFICES ASSUME IInv, pc = "store", p # <<>> PROVE i < ntokens
    BY DEF ArrayFits
  <2>1. str \in Text /\ i \in Nat /\ Pending /\ ntokens = 1 + Cardinality(Delims(str, Len(str)))
    BY DEF IInv, ControlInv, CountInv, TokenInv
  <2>2. i + 1 <= Cardinality(Begins(str)) /\ Cardinality(Begins(str)) <= 1 + Cardinality(Delims(str, Len(str)))
    BY <2>1, PendingIsThere, TokensAndDelims
  <2>3. Cardinality(Begins(str)) \in Nat /\ Cardinality(Delims(str, Len(str))) \in Nat
    BY <2>1, Positions
  <2> QED
    BY <2>1, <2>2, <2>3
<1> QED
  BY <1>1, Invariance, PTL

\* The tokens that split_str stores are those of the string by definition, all of
\* them and in order, whatever the string (strformatting.c:41-47).
THEOREM TokensAreRight == Spec => []SplitsIntoTokens
<1>1. IInv => SplitsIntoTokens
  BY DEF IInv, TokenInv, SplitsIntoTokens
<1> QED
  BY <1>1, Invariance, PTL

\* On a string without empty tokens the reader, the login and the writer read
\* elements that were stored (main.c:128, 187 and 277).
THEOREM CallersReadStored == Spec => []ReadsStored
<1>1. IInv => ReadsStored
  <2> SUFFICES ASSUME IInv, pc = "used", Regular, caller = "kick" => ntokens > 2
               PROVE  \A k \in Reads : k < i
    BY DEF ReadsStored
  <2>1. str \in Text /\ caller \in Callees /\ offset = Len(str) /\ str # <<>>
    BY DEF IInv, ControlInv, Regular
  <2>2. i = Cardinality(Begins(str)) /\ ntokens = 1 + Cardinality(Delims(str, Len(str)))
    BY <2>1 DEF IInv, TokenInv, CountInv
  <2>3. i = ntokens
    BY <2>1, <2>2, TokensAndDelims
  <2>4. length = ntokens /\ ~Rejected
    BY <2>1 DEF IInv, CountInv
  <2>5. i \in Nat
    BY DEF IInv, TokenInv
  <2>6. caller = "read" => i >= 2
    BY <2>3, <2>4, <2>5 DEF Rejected
  <2>7. caller = "login" => i >= 1
    BY <2>3, <2>4, <2>5 DEF Rejected, is_str_array_empty
  <2> QED
    BY <2>1, <2>3, <2>5, <2>6, <2>7 DEF Reads, Callees
<1> QED
  BY <1>1, Invariance, PTL
================================================================================
