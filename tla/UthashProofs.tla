------------------------------ MODULE UthashProofs ------------------------------
(***************************************************************************)
(* What additions, deletions and expansions keep of the links of uthash,   *)
(* and what a lookup beside them may answer, for any elements, any hash    *)
(* function and any power of two up to 64 of buckets to start with.        *)
(***************************************************************************)
EXTENDS Uthash, FiniteSetTheorems, TLAPS

LEMMA Constants ==
  /\ NULL \notin Elements /\ Wild \notin Elements /\ NULL # Wild
  /\ IsFiniteSet(Elements) /\ Cardinality(Elements) \in Nat
  /\ \A e \in Elements : Key[e] # NULL /\ Hash[Key[e]] \in Nat /\ e \in DOMAIN Key
  /\ HASH_BKT_CAPACITY_THRESH \in Nat /\ HASH_BKT_CAPACITY_THRESH > 0
  /\ HASH_INITIAL_NUM_BUCKETS \in Nat /\ HASH_INITIAL_NUM_BUCKETS > 0
<1>1. Cardinality(Elements) \in Nat
  BY KeyAssumption, FS_CardinalityType
<1>2. HASH_INITIAL_NUM_BUCKETS \in Nat /\ HASH_INITIAL_NUM_BUCKETS > 0
  BY BucketAssumption
<1> QED
  BY <1>1, <1>2, KeyAssumption, AnswerAssumption, BucketAssumption

-----------------------------------------------------------------------------
(* Natural numbers                                                         *)

LEMMA LeastNatural ==
  ASSUME NEW T \in SUBSET Nat, T # {}
  PROVE  \E m \in T : \A k \in T : m <= k
<1> DEFINE Below(n) == 0 .. n - 1
           D == {Below(n) : n \in T}
<1>1. D \subseteq FiniteSubsetsOf(Nat) /\ D # {}
  <2>1. \A n \in Nat : Below(n) \in SUBSET Nat /\ IsFiniteSet(Below(n))
    BY FS_Interval
  <2> QED
    BY <2>1 DEF FiniteSubsetsOf
<1>2. PICK x \in D : \A y \in D : <<y, x>> \notin StrictSubsetOrdering(Nat)
  <2> DEFINE R == StrictSubsetOrdering(Nat)
             F == FiniteSubsetsOf(Nat)
  <2>1. IsWellFoundedOn(R, F)
    BY FS_StrictSubsetOrderingWellFounded
  <2>2. D \subseteq F /\ D # {}
    BY <1>1
  <2> HIDE DEF D, R, F
  <2>3. \E x \in D : \A y \in D : <<y, x>> \notin R
    BY <2>1, <2>2, WFMin
  <2> QED
    BY <2>3 DEF R
<1>3. PICK m \in T : x = Below(m)
  OBVIOUS
<1>4. ASSUME NEW k \in T, k < m PROVE FALSE
  <2>1. Below(k) \subseteq Below(m) /\ Below(k) # Below(m)
    BY <1>4
  <2>2. <<Below(k), Below(m)>> \in StrictSubsetOrdering(Nat)
    BY <2>1 DEF StrictSubsetOrdering
  <2> QED
    BY <1>2, <1>3, <2>2
<1> QED
  BY <1>4

LEMMA InductionOnNat ==
  ASSUME NEW S, 0 \in S, \A n \in Nat : n \in S => n + 1 \in S
  PROVE  Nat \subseteq S
<1>1. SUFFICES ASSUME Nat \ S # {} PROVE FALSE
  OBVIOUS
<1>2. PICK m \in Nat \ S : \A k \in Nat \ S : m <= k
  BY <1>1, LeastNatural
<1>3. m # 0 /\ m - 1 \in Nat
  BY <1>2
<1>4. m - 1 \in S
  BY <1>2, <1>3
<1> QED
  BY <1>2, <1>3, <1>4

LEMMA Products ==
  ASSUME NEW k \in Nat, NEW l \in Nat
  PROVE  k * l \in Nat /\ (k > 0 => l <= k * l) /\ (k + 1) * l = k * l + l
OBVIOUS

-----------------------------------------------------------------------------
(* Chains                                                                  *)

LEMMA ChainEmpty ==
  ASSUME NEW link, NEW back
  PROVE  Chain({}, NULL, link) /\ Back({}, NULL, link, back)
BY DEF Chain, Back

\* Where a chain starts and what its links are.
LEMMA ChainLinks ==
  ASSUME NEW S \in SUBSET Elements, NEW first, NEW link, Chain(S, first, link)
  PROVE  /\ first = NULL <=> S = {}
         /\ first # NULL => first \in S
         /\ \A e \in S : link[e] \in S \cup {NULL} /\ link[e] # first
BY Constants DEF Chain

\* No element is its own successor.
LEMMA NoLoop ==
  ASSUME NEW S \in SUBSET Elements, NEW first, NEW link, Chain(S, first, link), NEW e \in S
  PROVE  link[e] # e
<1>0. NULL \notin S
  BY Constants
<1>1. ASSUME link[e] = e PROVE FALSE
  <2> DEFINE T == S \ {e}
  <2>1. e # first /\ first \in T
    BY <1>0, <1>1 DEF Chain
  <2>2. \A d \in T : link[d] # e
    BY <1>0, <1>1 DEF Chain
  <2>3. \A d \in T : link[d] \in T \cup {NULL}
    BY <2>2 DEF Chain
  <2>4. T = S
    BY <2>1, <2>3 DEF Chain
  <2> QED
    BY <2>4
<1> QED
  BY <1>1

\* Only the links of its own elements matter to a chain.
LEMMA ChainFrame ==
  ASSUME NEW S, NEW first, NEW link, NEW back, NEW link2, NEW back2,
         Chain(S, first, link), \A e \in S : link2[e] = link[e]
  PROVE  /\ Chain(S, first, link2)
         /\ Back(S, first, link, back) /\ (\A e \in S : back2[e] = back[e])
              => Back(S, first, link2, back2)
<1>1. Chain(S, first, link2)
  <2>1. \A T \in SUBSET S :
          (\A e \in T : link2[e] \in T \cup {NULL}) => (\A e \in T : link[e] \in T \cup {NULL})
    OBVIOUS
  <2> QED
    BY <2>1 DEF Chain
<1>2. ASSUME Back(S, first, link, back), \A e \in S : back2[e] = back[e]
      PROVE  Back(S, first, link2, back2)
  BY <1>2 DEF Back
<1> QED
  BY <1>1, <1>2

\* e is put before the others.
LEMMA ChainPush ==
  ASSUME NEW S \in SUBSET Elements, NEW first, NEW link, NEW back, NEW link2, NEW back2,
         NEW e \in Elements \ S,
         Chain(S, first, link), \A d \in S : link2[d] = link[d], link2[e] = first
  PROVE  /\ Chain(S \cup {e}, e, link2)
         /\ /\ Back(S, first, link, back) /\ back2[e] = NULL
            /\ \A d \in S : back2[d] = IF d = first THEN e ELSE back[d]
            => Back(S \cup {e}, e, link2, back2)
<1>0. NULL \notin S /\ NULL # e
  BY Constants
<1>1. first \in S \cup {NULL} /\ (first = NULL => S = {})
  BY <1>0 DEF Chain
<1>2. \A d \in S : link2[d] \in (S \ {first}) \cup {NULL}
  BY DEF Chain
<1>3. \A d \in S \cup {e} : link2[d] \in ((S \cup {e}) \ {e}) \cup {NULL}
  BY <1>1, <1>2
<1>4. ASSUME NEW c \in S \cup {e}, NEW d \in S \cup {e}, link2[c] = link2[d], link2[c] # NULL
      PROVE  c = d
  BY <1>2, <1>4, <1>1 DEF Chain
<1>5. ASSUME NEW T \in SUBSET (S \cup {e}), e \in T, \A d \in T : link2[d] \in T \cup {NULL}
      PROVE  T = S \cup {e}
  <2> DEFINE U == T \ {e}
  <2>1. U \in SUBSET S /\ \A d \in U : link[d] \in U \cup {NULL}
    BY <1>2, <1>5
  <2>2. S # {} => first \in U
    BY <1>0, <1>1, <1>5
  <2>3. U = S
    BY <2>1, <2>2 DEF Chain
  <2> QED
    BY <1>5, <2>3
<1>6. Chain(S \cup {e}, e, link2)
  BY <1>3, <1>4, <1>5 DEF Chain
<1>7. ASSUME Back(S, first, link, back), back2[e] = NULL,
             \A d \in S : back2[d] = IF d = first THEN e ELSE back[d]
      PROVE  Back(S \cup {e}, e, link2, back2)
  <2>1. ASSUME NEW d \in S PROVE back2[d] \in S \cup {e} /\ link2[back2[d]] = d
    <3>1. CASE d = first
      BY <1>7, <3>1
    <3>2. CASE d # first
      <4>1. back[d] \in S /\ link[back[d]] = d /\ back2[d] = back[d]
        BY <1>7, <3>2 DEF Back
      <4> QED
        BY <4>1
    <3> QED
      BY <3>1, <3>2
  <2> QED
    BY <1>7, <2>1 DEF Back
<1> QED
  BY <1>6, <1>7

\* The first element goes.
LEMMA ChainPop ==
  ASSUME NEW S \in SUBSET Elements, NEW first \in S, NEW link, Chain(S, first, link)
  PROVE  Chain(S \ {first}, link[first], link)
<1> DEFINE R == S \ {first}
<1>0. NULL \notin S
  BY Constants
<1>1. link[first] \in R \cup {NULL}
  BY DEF Chain
<1>2. \A e \in S : link[e] \in R \cup {NULL}
  BY DEF Chain
<1>3. \A e \in R : link[e] \in (R \ {link[first]}) \cup {NULL}
  BY <1>0, <1>2 DEF Chain
<1>4. ASSUME NEW T \in SUBSET R, link[first] \in T, \A e \in T : link[e] \in T \cup {NULL}
      PROVE  T = R
  <2> DEFINE U == T \cup {first}
  <2>1. U \in SUBSET S /\ first \in U /\ \A e \in U : link[e] \in U \cup {NULL}
    BY <1>4
  <2>2. U = S
    BY <2>1 DEF Chain
  <2> QED
    BY <2>2
<1>5. IF R = {} THEN link[first] = NULL ELSE link[first] \in R
  <2>1. ASSUME link[first] = NULL PROVE R = {}
    <3> DEFINE U == {first}
    <3>1. U \in SUBSET S /\ first \in U /\ \A e \in U : link[e] \in U \cup {NULL}
      BY <2>1
    <3>2. U = S
      BY <3>1 DEF Chain
    <3> QED
      BY <3>2
  <2> QED
    BY <1>1, <2>1
<1> QED
  BY <1>3, <1>4, <1>5 DEF Chain

\* e is put behind the last element.
LEMMA ChainAppend ==
  ASSUME NEW S \in SUBSET Elements, NEW first, NEW link, NEW back, NEW link2, NEW back2,
         NEW e \in Elements \ S, NEW last \in S, link[last] = NULL,
         Chain(S, first, link), Back(S, first, link, back),
         link2[e] = NULL, back2[e] = last, \A d \in S : back2[d] = back[d],
         \A d \in S : link2[d] = IF d = last THEN e ELSE link[d]
  PROVE  Chain(S \cup {e}, first, link2) /\ Back(S \cup {e}, first, link2, back2)
<1>0. NULL \notin S /\ NULL # e
  BY Constants
<1>1. first \in S /\ \A d \in S : link[d] \in (S \ {first}) \cup {NULL}
  BY DEF Chain
<1>2. \A d \in S \cup {e} : link2[d] \in ((S \cup {e}) \ {first}) \cup {NULL}
  BY <1>1
<1>3. ASSUME NEW c \in S \cup {e}, NEW d \in S \cup {e}, link2[c] = link2[d], link2[c] # NULL
      PROVE  c = d
  BY <1>1, <1>3 DEF Chain
<1>4. ASSUME NEW T \in SUBSET (S \cup {e}), first \in T, \A d \in T : link2[d] \in T \cup {NULL}
      PROVE  T = S \cup {e}
  <2> DEFINE U == T \cap S
  <2>1. U \in SUBSET S /\ first \in U
    BY <1>1, <1>4
  <2>2. \A d \in U : link[d] \in U \cup {NULL}
    BY <1>1, <1>4
  <2>3. U = S
    BY <2>1, <2>2 DEF Chain
  <2>4. last \in T /\ link2[last] = e
    BY <2>3
  <2>5. e \in T
    BY <1>0, <1>4, <2>4
  <2> QED
    BY <2>3, <2>5
<1>5. Chain(S \cup {e}, first, link2)
  BY <1>1, <1>2, <1>3, <1>4 DEF Chain
<1>6. ASSUME NEW d \in S \cup {e}
      PROVE  IF d = first THEN back2[d] = NULL ELSE back2[d] \in S \cup {e} /\ link2[back2[d]] = d
  <2>1. CASE d = e
    BY <1>1, <2>1
  <2>2. CASE d = first
    BY <1>1, <2>2 DEF Back
  <2>3. CASE d \in S /\ d # first
    <3>1. back[d] \in S /\ link[back[d]] = d /\ back2[d] = back[d]
      BY <2>3 DEF Back
    <3>2. back[d] # last
      BY <1>0, <2>3, <3>1
    <3> QED
      BY <2>3, <3>1, <3>2
  <2> QED
    BY <2>1, <2>2, <2>3
<1>7. Back(S \cup {e}, first, link2, back2)
  BY <1>6 DEF Back
<1> QED
  BY <1>5, <1>7

\* e is taken out.
TakenOut(S, e, link, back, link2, back2) ==
  \A d \in S : /\ link2[d] = IF d = back[e] THEN link[e] ELSE link[d]
               /\ back2[d] = IF d = link[e] THEN back[e] ELSE back[d]

LEMMA ChainRemove ==
  ASSUME NEW S \in SUBSET Elements, NEW first, NEW link, NEW back, NEW link2, NEW back2,
         NEW e \in S, Chain(S, first, link), Back(S, first, link, back),
         TakenOut(S, e, link, back, link2, back2),
         NEW first2, first2 = IF first = e THEN link[e] ELSE first
  PROVE  Chain(S \ {e}, first2, link2) /\ Back(S \ {e}, first2, link2, back2)
<1> USE DEF TakenOut
<1> DEFINE R == S \ {e}
<1>0. NULL \notin S
  BY Constants
<1>1. first \in S /\ \A d \in S : link[d] \in (S \ {first}) \cup {NULL}
  BY DEF Chain
<1>2. \A c, d \in S : link[c] = link[d] /\ link[c] # NULL => c = d
  BY DEF Chain
\* What comes before e, and before another element.
<1>3. e = first => back[e] = NULL
  BY DEF Back
<1>4. e # first => back[e] \in R /\ link[back[e]] = e /\ first2 = first
  <2>1. ASSUME e # first PROVE back[e] \in S /\ link[back[e]] = e
    BY <2>1 DEF Back
  <2>2. ASSUME e # first, back[e] = e PROVE FALSE
    <3> DEFINE U == S \ {e}
    <3>1. \A d \in U : link[d] \in U \cup {NULL}
      BY <1>0, <1>1, <1>2, <2>1, <2>2
    <3>2. U = S
      BY <1>1, <2>2, <3>1 DEF Chain
    <3> QED
      BY <3>2
  <2> QED
    BY <2>1, <2>2
<1>5. \A d \in S : link[d] = e => d = back[e]
  BY <1>0, <1>1, <1>2, <1>4
<1>6. link[e] \in R \cup {NULL}
  <2>1. ASSUME link[e] = e PROVE FALSE
    BY <1>0, <1>1, <1>4, <1>5, <2>1
  <2> QED
    BY <1>1, <2>1
<1>7. \A d \in R : link2[d] \in R \cup {NULL}
  BY <1>0, <1>1, <1>5, <1>6
<1>8. \A d \in R : link2[d] # NULL => link2[d] # first2
  BY <1>0, <1>1, <1>2, <1>3, <1>4, <1>5
<1>9. ASSUME NEW c \in R, NEW d \in R, link2[c] = link2[d], link2[c] # NULL
      PROVE  c = d
  BY <1>2, <1>9
<1>10. ASSUME NEW T \in SUBSET R, first2 \in T, \A d \in T : link2[d] \in T \cup {NULL}
       PROVE  T = R
  <2> DEFINE U == T \cup {d \in {e} : back[e] \in T \/ first = e}
  <2>1. U \in SUBSET S /\ first \in U
    BY <1>4, <1>10
  <2>2. ASSUME NEW d \in U PROVE link[d] \in U \cup {NULL}
    <3>1. CASE d = e
      <4>1. CASE first = e
        BY <1>10, <3>1, <4>1
      <4>2. CASE first # e
        <5>1. back[e] \in T /\ link2[back[e]] = link[e]
          BY <1>4, <2>2, <3>1, <4>2
        <5> QED
          BY <1>10, <3>1, <5>1
      <4> QED
        BY <4>1, <4>2
    <3>2. CASE d \in T /\ d # back[e]
      BY <1>10, <3>2
    <3>3. CASE d \in T /\ d = back[e]
      <4>1. link[d] = e
        BY <1>0, <1>3, <1>4, <3>3
      <4> QED
        BY <3>3, <4>1
    <3> QED
      BY <2>2, <3>1, <3>2, <3>3
  <2>3. U = S
    BY <2>1, <2>2 DEF Chain
  <2> QED
    BY <2>3
<1>11. IF R = {} THEN first2 = NULL ELSE first2 \in R
  <2>1. CASE first # e
    BY <1>1, <2>1
  <2>2. CASE first = e
    <3>1. Chain(R, link[e], link)
      BY <2>2, ChainPop
    <3> QED
      BY <2>2, <3>1 DEF Chain
  <2> QED
    BY <2>1, <2>2
<1>12. Chain(R, first2, link2)
  <2> HIDE DEF R
  <2>1. \A d \in R : link2[d] \in (R \ {first2}) \cup {NULL}
    BY <1>7, <1>8
  <2> QED
    BY <1>9, <1>10, <1>11, <2>1 DEF Chain
<1>13. ASSUME NEW d \in R
       PROVE  IF d = first2 THEN back2[d] = NULL ELSE back2[d] \in R /\ link2[back2[d]] = d
  <2>1. CASE d = link[e]
    <3>1. d # first /\ back2[d] = back[e]
      BY <1>0, <1>1, <2>1
    <3>2. CASE first = e
      BY <1>3, <2>1, <3>1, <3>2
    <3>3. CASE first # e
      BY <1>4, <2>1, <3>1, <3>3
    <3> QED
      BY <3>2, <3>3
  <2>2. CASE d # link[e]
    <3>1. back2[d] = back[d]
      BY <2>2
    <3>2. CASE d = first
      BY <3>1, <3>2 DEF Back
    <3>3. CASE d # first
      <4>1. back[d] \in S /\ link[back[d]] = d
        BY <3>3 DEF Back
      <4>2. back[d] # e
        BY <2>2, <4>1
      <4>3. back[d] # back[e]
        BY <1>3, <1>4, <4>1, <1>0
      <4> QED
        BY <2>2, <3>1, <3>3, <4>1, <4>2, <4>3
    <3> QED
      BY <3>2, <3>3
  <2> QED
    BY <2>1, <2>2
<1>14. Back(R, first2, link2, back2)
  BY <1>13 DEF Back
<1> QED
  BY <1>12, <1>14

-----------------------------------------------------------------------------
(* The table                                                               *)

BucketSet == [hh_head : Links, count : Upto, expand_mult : Upto]
Tables(n, buckets) ==
  [buckets : buckets, num_buckets : {n}, num_items : Upto, tail : Links,
   ideal_chain_maxlen : Nat, nonideal_items : Upto, ineff_expands : 0 .. 2, noexpand : BOOLEAN]

LEMMA Hashed ==
  ASSUME NEW e \in Elements, NEW n \in Nat, n > 0
  PROVE  HASH_TO_BKT(hashv(e), n) \in 0 .. n - 1
BY Constants DEF HASH_TO_BKT, hashv

LEMMA TableFields ==
  ASSUME NEW n \in Nat, NEW buckets, NEW t \in Tables(n, buckets)
  PROVE  /\ t.buckets \in buckets /\ t.num_buckets = n /\ t.num_items \in Upto /\ t.tail \in Links
         /\ t.ideal_chain_maxlen \in Nat /\ t.nonideal_items \in Upto
         /\ t.ineff_expands \in 0 .. 2 /\ t.noexpand \in BOOLEAN
BY DEF Tables

LEMMA BucketFields ==
  ASSUME NEW n \in Nat, NEW buckets \in Buckets(n), NEW b \in 0 .. n - 1
  PROVE  /\ buckets[b] \in BucketSet /\ buckets[b].hh_head \in Links
         /\ buckets[b].count \in Upto /\ buckets[b].expand_mult \in Upto
         /\ b \in DOMAIN buckets
BY DEF Buckets, BucketSet

LEMMA UptoNat == Upto \subseteq Nat /\ 0 \in Upto
BY Constants DEF Upto

LEMMA EmptyBucketsOK ==
  ASSUME NEW n \in Nat
  PROVE  /\ EmptyBuckets(n) \in Buckets(n)
         /\ \A b \in 0 .. n - 1 : /\ EmptyBuckets(n)[b].hh_head = NULL /\ EmptyBuckets(n)[b].count = 0
                                  /\ EmptyBuckets(n)[b].expand_mult = 0
<1>1. [hh_head |-> NULL, count |-> 0, expand_mult |-> 0] \in BucketSet
  BY UptoNat DEF BucketSet, Links
<1> QED
  BY <1>1 DEF EmptyBuckets, Buckets, BucketSet

\* One bucket is given other fields.
LEMMA BucketChanged ==
  ASSUME NEW n \in Nat, NEW buckets \in Buckets(n), NEW b \in 0 .. n - 1,
         NEW bucket \in BucketSet
  PROVE  LET new == [buckets EXCEPT ![b] = bucket]
         IN /\ new \in Buckets(n)
            /\ \A c \in 0 .. n - 1 : new[c] = IF c = b THEN bucket ELSE buckets[c]
BY DEF Buckets, BucketSet

\* The fields that an assignment to the items, the buckets and the tail leaves.
SameSizes(t, u) ==
  /\ u.ideal_chain_maxlen = t.ideal_chain_maxlen /\ u.nonideal_items = t.nonideal_items
  /\ u.ineff_expands = t.ineff_expands /\ u.noexpand = t.noexpand /\ u.num_buckets = t.num_buckets

LEMMA TailChanged ==
  ASSUME NEW n \in Nat, NEW buckets, NEW t \in Tables(n, buckets), NEW e \in Links,
         NEW u, u = [t EXCEPT !.tail = e]
  PROVE  /\ u \in Tables(n, buckets) /\ SameSizes(t, u) /\ u.tail = e
         /\ u.num_items = t.num_items /\ u.buckets = t.buckets
BY DEF Tables, SameSizes

\* The assignments to one bucket.
Counted(t, b, items, count) == [t EXCEPT !.num_items = items, !.buckets[b].count = count]
Headed(t, b, first) == [t EXCEPT !.buckets[b].hh_head = first]

LEMMA CountChanged ==
  ASSUME NEW n \in Nat, NEW t \in Tables(n, Buckets(n)), NEW b \in 0 .. n - 1,
         NEW items \in Upto, NEW count \in Upto, NEW u, u = Counted(t, b, items, count)
  PROVE  /\ u \in Tables(n, Buckets(n)) /\ SameSizes(t, u) /\ u.tail = t.tail /\ u.num_items = items
         /\ \A c \in 0 .. n - 1 :
              /\ u.buckets[c].hh_head = t.buckets[c].hh_head
              /\ u.buckets[c].expand_mult = t.buckets[c].expand_mult
              /\ u.buckets[c].count = IF c = b THEN count ELSE t.buckets[c].count
<1> DEFINE old == t.buckets[b]
           bucket == [old EXCEPT !.count = count]
           new == [t.buckets EXCEPT ![b] = bucket]
<1>1. t.buckets \in Buckets(n) /\ old \in BucketSet
  BY TableFields, BucketFields
<1>2. /\ bucket \in BucketSet /\ bucket.hh_head = old.hh_head
      /\ bucket.expand_mult = old.expand_mult /\ bucket.count = count
  BY <1>1 DEF BucketSet
<1> HIDE DEF bucket
<1>3. new \in Buckets(n) /\ \A c \in 0 .. n - 1 : new[c] = IF c = b THEN bucket ELSE t.buckets[c]
  BY <1>1, <1>2, BucketChanged
<1> HIDE DEF new
<1>4. u = [t EXCEPT !.num_items = items, !.buckets = new]
  BY DEF new, bucket, Tables, Counted
<1>5. /\ u \in Tables(n, Buckets(n)) /\ SameSizes(t, u) /\ u.tail = t.tail /\ u.num_items = items
      /\ u.buckets = new
  BY <1>3, <1>4 DEF Tables, SameSizes
<1>6. ASSUME NEW c \in 0 .. n - 1
      PROVE  /\ new[c].hh_head = t.buckets[c].hh_head
             /\ new[c].expand_mult = t.buckets[c].expand_mult
             /\ new[c].count = IF c = b THEN count ELSE t.buckets[c].count
  <2>1. CASE c = b
    BY <1>2, <1>3, <2>1
  <2>2. CASE c # b
    BY <1>3, <2>2
  <2> QED
    BY <2>1, <2>2
<1> QED
  BY <1>5, <1>6

LEMMA HeadChanged ==
  ASSUME NEW n \in Nat, NEW t \in Tables(n, Buckets(n)), NEW b \in 0 .. n - 1, NEW first \in Links,
         NEW u, u = Headed(t, b, first)
  PROVE  /\ u \in Tables(n, Buckets(n)) /\ SameSizes(t, u) /\ u.tail = t.tail
         /\ u.num_items = t.num_items
         /\ \A c \in 0 .. n - 1 :
              /\ u.buckets[c].hh_head = IF c = b THEN first ELSE t.buckets[c].hh_head
              /\ u.buckets[c].expand_mult = t.buckets[c].expand_mult
              /\ u.buckets[c].count = t.buckets[c].count
<1> DEFINE old == t.buckets[b]
           bucket == [old EXCEPT !.hh_head = first]
           new == [t.buckets EXCEPT ![b] = bucket]
<1>1. t.buckets \in Buckets(n) /\ old \in BucketSet
  BY TableFields, BucketFields
<1>2. /\ bucket \in BucketSet /\ bucket.hh_head = first
      /\ bucket.expand_mult = old.expand_mult /\ bucket.count = old.count
  BY <1>1 DEF BucketSet
<1> HIDE DEF bucket
<1>3. new \in Buckets(n) /\ \A c \in 0 .. n - 1 : new[c] = IF c = b THEN bucket ELSE t.buckets[c]
  BY <1>1, <1>2, BucketChanged
<1> HIDE DEF new
<1>4. u = [t EXCEPT !.buckets = new]
  BY DEF new, bucket, Tables, Headed
<1>5. /\ u \in Tables(n, Buckets(n)) /\ SameSizes(t, u) /\ u.tail = t.tail
      /\ u.num_items = t.num_items /\ u.buckets = new
  BY <1>3, <1>4 DEF Tables, SameSizes
<1>6. ASSUME NEW c \in 0 .. n - 1
      PROVE  /\ new[c].hh_head = IF c = b THEN first ELSE t.buckets[c].hh_head
             /\ new[c].expand_mult = t.buckets[c].expand_mult
             /\ new[c].count = t.buckets[c].count
  <2>1. CASE c = b
    BY <1>2, <1>3, <2>1
  <2>2. CASE c # b
    BY <1>3, <2>2
  <2> QED
    BY <2>1, <2>2
<1> QED
  BY <1>5, <1>6

-----------------------------------------------------------------------------
(* Who is in the list and in the chains                                    *)

TblOK == tbl \in Tables(tbl.num_buckets, IF upc = "swap" THEN {<<>>} ELSE Buckets(tbl.num_buckets))
         /\ tbl.num_buckets \in Nat
GrowOK == grow \in [bkt : Nat, thh : Links, buckets : IF upc \in Building THEN Buckets(NewSize) ELSE {<<>>}]
LinksOK ==
  /\ head \in Links /\ elem \in Links /\ entries \in SUBSET Elements
  /\ prev \in [Elements -> Links] /\ next \in [Elements -> Links]
  /\ hh_prev \in [Elements -> Links] /\ hh_next \in [Elements -> Links]
  /\ upc \in {"idle", "del_in_bkt", "clear_head", "close"} \cup Adding
LookOK ==
  /\ out \in Links /\ present \in SUBSET entries /\ rethreaded \in BOOLEAN /\ stranded \in BOOLEAN
  /\ fpc \in {"idle"} \cup Finding /\ bkt \in Nat

LEMMA TypeParts == TypeOK <=> TblOK /\ GrowOK /\ LinksOK /\ LookOK
<1>1. TypeOK => tbl.num_buckets \in Nat
  BY DEF TypeOK
<1>2. grow \in [bkt : Nat, thh : Links, buckets : IF upc \in Building THEN Buckets(NewSize) ELSE {<<>>}]
        => grow.thh \in Links
  OBVIOUS
<1>3. ASSUME tbl.num_buckets \in Nat
      PROVE  tbl \in [buckets : IF upc = "swap" THEN {<<>>} ELSE Buckets(tbl.num_buckets),
              num_buckets : Nat, num_items : Upto, tail : Links, ideal_chain_maxlen : Nat,
              nonideal_items : Upto, ineff_expands : 0 .. 2, noexpand : BOOLEAN] <=> TblOK
  BY <1>3 DEF TblOK, Tables
<1> QED
  BY <1>1, <1>2, <1>3 DEF TypeOK, TblOK, GrowOK, LinksOK, LookOK

LEMMA Members ==
  ASSUME LinksOK, ControlInv
  PROVE  /\ upc # "idle" => elem \in Elements
         /\ entries \in SUBSET Elements /\ Linked \in SUBSET Elements /\ Chained \in SUBSET Elements
         /\ IsFiniteSet(Linked) /\ IsFiniteSet(Chained) /\ IsFiniteSet(entries)
<1>1. upc # "idle" => elem \in Elements
  BY Constants DEF LinksOK, ControlInv, Links
<1>2. Linked \in SUBSET Elements /\ Chained \in SUBSET Elements
  <2>1. upc \in Adding => elem \in Elements
    BY <1>1 DEF Adding, Building
  <2> QED
    BY <2>1 DEF Linked, Chained, LinksOK
<1> QED
  BY <1>1, <1>2, Constants, FS_Subset DEF LinksOK

LEMMA PartOK ==
  ASSUME NEW S \in SUBSET Elements, NEW n \in Nat, n > 0, NEW b
  PROVE  /\ Part(S, n, b) \in SUBSET S /\ IsFiniteSet(Part(S, n, b)) /\ Cardinality(Part(S, n, b)) \in Upto
         /\ \A e \in S : e \in Part(S, n, b) <=> HASH_TO_BKT(hashv(e), n) = b
         /\ \A e \in Elements :
              /\ Part(S \cup {e}, n, b)
                   = IF HASH_TO_BKT(hashv(e), n) = b THEN Part(S, n, b) \cup {e} ELSE Part(S, n, b)
              /\ Part(S \ {e}, n, b)
                   = IF HASH_TO_BKT(hashv(e), n) = b THEN Part(S, n, b) \ {e} ELSE Part(S, n, b)
<1>1. Part(S, n, b) \in SUBSET S
  BY DEF Part
<1>2. IsFiniteSet(Part(S, n, b)) /\ Cardinality(Part(S, n, b)) <= Cardinality(Elements)
  BY <1>1, Constants, FS_Subset
<1>3. Cardinality(Part(S, n, b)) \in Nat
  BY <1>2, FS_CardinalityType
<1>4. ASSUME NEW e \in Elements
      PROVE  /\ Part(S \cup {e}, n, b)
                  = IF HASH_TO_BKT(hashv(e), n) = b THEN Part(S, n, b) \cup {e} ELSE Part(S, n, b)
             /\ Part(S \ {e}, n, b)
                  = IF HASH_TO_BKT(hashv(e), n) = b THEN Part(S, n, b) \ {e} ELSE Part(S, n, b)
  BY DEF Part
<1> QED
  BY <1>1, <1>2, <1>3, <1>4, Constants DEF Part, Upto

-----------------------------------------------------------------------------
(* An update keeps the structure of the table                              *)

LEMMA ObserveKeeps ==
  ASSUME LookOK, Observe
  PROVE  LookOK'
<1>1. UNCHANGED <<fpc, sought, bkt, out>>
  BY DEF Observe, lookup
<1>2. present' = (present \cap entries') \ {Moving'}
  BY DEF Observe
<1>3. rethreaded' \in BOOLEAN /\ stranded' \in BOOLEAN
  BY DEF Observe, LookOK
<1> QED
  BY <1>1, <1>2, <1>3 DEF LookOK

\* What the table is where its chains are not being built anew.
LEMMA TableIs ==
  ASSUME TableInv
  PROVE  /\ tbl.num_buckets \in Nat /\ (tbl # NoTable <=> tbl.num_buckets > 0)
         /\ upc # "swap" => tbl \in Tables(tbl.num_buckets, Buckets(tbl.num_buckets))
         /\ TblOK /\ GrowOK /\ LinksOK /\ LookOK /\ ControlInv /\ ListInv
         /\ \A b \in 0 .. tbl.num_buckets - 1, e \in Elements :
              tbl.num_buckets > 0 => HASH_TO_BKT(hashv(e), tbl.num_buckets) \in 0 .. tbl.num_buckets - 1
         /\ upc # "idle" => elem \in Elements
<1>1. TypeOK /\ ControlInv /\ ListInv
  BY DEF TableInv
<1>2. TblOK /\ GrowOK /\ LinksOK /\ LookOK
  BY <1>1, TypeParts
<1>3. tbl # NoTable <=> tbl.num_buckets > 0
  <2>1. NoTable.num_buckets = 0
    BY DEF NoTable
  <2> QED
    BY <1>1, <2>1 DEF ListInv
<1>4. upc # "idle" => elem \in Elements
  BY <1>1, <1>2, Members
<1> QED
  BY <1>1, <1>2, <1>3, <1>4, Hashed DEF TblOK

LEMMA InitTable ==
  ASSUME Init
  PROVE  TableInv
<1> USE DEF Init
<1>1. NoTable \in Tables(0, Buckets(0))
  <2>1. <<>> \in Buckets(0)
    BY DEF Buckets
  <2>2. NULL \in Links
    BY DEF Links
  <2> QED
    BY <2>1, <2>2, UptoNat DEF NoTable, Tables
<1>2. NoTable.num_buckets = 0 /\ NoTable.noexpand = FALSE /\ NoTable.ineff_expands = 0
  BY DEF NoTable
<1>3. TblOK
  BY <1>1, <1>2 DEF TblOK
<1>4. GrowOK
  BY DEF GrowOK, NoGrowth, Building, Links
<1>5. LinksOK
  BY DEF LinksOK, Links
<1>6. LookOK
  BY DEF LookOK, Links
<1>7. Linked = {} /\ Chained = {}
  BY DEF Linked, Chained, Adding, Building
<1>8. ListInv
  BY <1>7, <1>2, ChainEmpty DEF ListInv, Adding, Building
<1>9. ControlInv
  BY DEF ControlInv, Adding, Building
<1>10. ChainsInv
  BY DEF ChainsInv
<1>11. RebuildInv
  BY DEF RebuildInv
<1>12. BoundInv
  BY <1>2 DEF BoundInv, Building
<1> QED
  BY <1>3, <1>4, <1>5, <1>6, <1>8, <1>9, <1>10, <1>11, <1>12, TypeParts DEF TableInv

LEMMA AddElementKeeps ==
  ASSUME TableInv, NEW e \in Elements, AddElement(e)
  PROVE  TableInv'
<1> DEFINE n == tbl.num_buckets
<1>1. upc = "idle" /\ e \notin entries /\ upc' = "add_to_bkt" /\ elem' = e
  BY DEF AddElement
<1>2. UNCHANGED <<hh_prev, hh_next, entries, grow>> /\ Observe
  BY DEF AddElement
<1>3. /\ n \in Nat /\ (tbl # NoTable <=> n > 0) /\ tbl \in Tables(n, Buckets(n))
      /\ TblOK /\ GrowOK /\ LinksOK /\ LookOK /\ ControlInv /\ ListInv
  BY <1>1, TableIs
<1>4. Linked = entries /\ Linked' = entries \cup {e} /\ Chained = entries /\ Chained' = entries
  BY <1>1, <1>2 DEF Linked, Chained, Adding, Building
<1>5. ControlInv'
  BY <1>1, <1>2, Constants DEF ControlInv, Adding, Building
<1>6. RebuildInv'
  BY <1>1 DEF RebuildInv
<1>7. GrowOK'
  BY <1>1, <1>2, <1>3 DEF GrowOK, Building
<1>8. LookOK'
  BY <1>2, <1>3, ObserveKeeps
<1>9. \A d \in Elements : hh_next'[d] = NULL \/ (hh_next'[d] \in Chained' /\ d \in Chained')
  BY <1>1, <1>2, <1>4 DEF ChainsInv, TableInv
<1>10. e \in Links /\ NULL \in Links
  BY DEF Links
<1>11. CASE head = NULL
  <2>1. /\ HASH_MAKE_TABLE(e) /\ head' = e
        /\ next' = [next EXCEPT ![e] = NULL] /\ prev' = [prev EXCEPT ![e] = NULL]
    BY <1>11 DEF AddElement
  <2>2. entries = {}
    <3>1. Chain(entries, head, next) /\ entries \in SUBSET Elements
      BY <1>3, <1>4 DEF ListInv, LinksOK
    <3> QED
      BY <1>11, <3>1, ChainLinks
  <2> DEFINE m == HASH_INITIAL_NUM_BUCKETS
  <2>3. m \in Nat /\ m > 0
    BY Constants
  <2> HIDE DEF m
  <2>4. /\ tbl'.buckets = EmptyBuckets(m) /\ tbl'.num_buckets = m /\ tbl'.num_items = 0
        /\ tbl'.tail = e /\ tbl'.ineff_expands = 0 /\ tbl'.noexpand = FALSE
        /\ tbl' \in Tables(m, Buckets(m))
    <3>1. EmptyBuckets(m) \in Buckets(m)
      BY <2>3, EmptyBucketsOK
    <3> QED
      BY <2>1, <3>1, UptoNat, <1>10 DEF HASH_MAKE_TABLE, Tables, m
  <2>5. TblOK'
    BY <1>1, <2>3, <2>4 DEF TblOK
  <2>6. next' \in [Elements -> Links] /\ prev' \in [Elements -> Links] /\ next'[e] = NULL /\ prev'[e] = NULL
    BY <1>3, <1>10, <2>1 DEF LinksOK
  <2>7. LinksOK'
    BY <1>1, <1>2, <1>3, <1>10, <2>1, <2>6 DEF LinksOK, Adding
  <2>8. Chain({e}, e, next') /\ Back({e}, e, next', prev')
    <3> DEFINE none == {}
    <3>1. Chain(none, NULL, next) /\ Back(none, NULL, next, prev)
      BY ChainEmpty
    <3>2. none \in SUBSET Elements /\ e \in Elements \ none /\ \A d : d \notin none
      OBVIOUS
    <3> HIDE DEF none
    <3>3. Chain(none \cup {e}, e, next') /\ Back(none \cup {e}, e, next', prev')
      BY <3>1, <3>2, <2>6, ChainPush
    <3>4. none \cup {e} = {e}
      BY <3>2
    <3> QED
      BY <3>3, <3>4
  <2>9. ListInv'
    <3>1. Cardinality({}) = 0
      BY FS_EmptySet
    <3>2. tbl' # NoTable
      BY <2>3, <2>4 DEF NoTable
    <3>3. Linked' = {e}
      BY <1>4, <2>2
    <3> QED
      BY <1>1, <1>4, <2>1, <2>2, <2>3, <2>4, <2>6, <2>8, <3>1, <3>2, <3>3 DEF ListInv
  <2>10. ASSUME NEW b \in 0 .. m - 1
         PROVE  /\ BucketOK(Part(Chained, m, b), FirstIn(b), tbl.buckets[b].count)'
                /\ WithinLimit(tbl.buckets[b], HASH_BKT_CAPACITY_THRESH)'
    <3>1. /\ EmptyBuckets(m)[b].hh_head = NULL /\ EmptyBuckets(m)[b].count = 0
          /\ EmptyBuckets(m)[b].expand_mult = 0
      BY <2>3, EmptyBucketsOK
    <3>2. FirstIn(b)' = NULL /\ tbl'.buckets[b].count = 0 /\ tbl'.buckets[b].expand_mult = 0
      BY <1>1, <2>4, <3>1 DEF FirstIn
    <3>3. Part(Chained, m, b)' = {}
      BY <1>4, <2>2 DEF Part
    <3>4. BucketOK({}, NULL, 0)'
      BY ChainEmpty, FS_EmptySet DEF BucketOK
    <3> QED
      BY <3>2, <3>3, <3>4, Constants DEF WithinLimit
  <2>11. ChainsInv'
    BY <1>1, <1>9, <2>4, <2>10 DEF ChainsInv
  <2>12. BoundInv'
    BY <1>1, <2>4, <2>10 DEF BoundInv, Building
  <2> QED
    BY <1>5, <1>6, <1>7, <1>8, <2>5, <2>7, <2>9, <2>11, <2>12, TypeParts, PTL DEF TableInv
<1>12. CASE head # NULL
  <2>1. HASH_APPEND_LIST(e) /\ head' = head
    BY <1>12 DEF AddElement
  <2>2. entries # {} /\ tbl # NoTable /\ n > 0
    <3>1. Chain(entries, head, next) /\ entries \in SUBSET Elements
      BY <1>3, <1>4 DEF ListInv, LinksOK
    <3>2. entries # {}
      BY <1>12, <3>1, ChainLinks
    <3> QED
      BY <1>1, <1>3, <1>4, <3>2 DEF ListInv
  <2>3. tbl.tail \in entries /\ next[tbl.tail] = NULL
    BY <1>3, <1>4, <2>2 DEF ListInv
  <2>4. /\ tbl' \in Tables(n, Buckets(n)) /\ SameSizes(tbl, tbl') /\ tbl'.tail = e
        /\ tbl'.num_items = tbl.num_items /\ tbl'.buckets = tbl.buckets /\ tbl'.num_buckets = n
    <3>1. tbl' = [tbl EXCEPT !.tail = e]
      BY <2>1 DEF HASH_APPEND_LIST
    <3> HIDE DEF n
    <3>2. /\ tbl' \in Tables(n, Buckets(n)) /\ SameSizes(tbl, tbl') /\ tbl'.tail = e
          /\ tbl'.num_items = tbl.num_items /\ tbl'.buckets = tbl.buckets
      BY <1>3, <1>10, <3>1, TailChanged
    <3> QED
      BY <3>2 DEF SameSizes, n
  <2>5. TblOK'
    BY <1>1, <1>3, <2>4 DEF TblOK
  <2>6. /\ next' \in [Elements -> Links] /\ prev' \in [Elements -> Links]
        /\ next'[e] = NULL /\ prev'[e] = tbl.tail
        /\ \A d \in entries : /\ prev'[d] = prev[d]
                              /\ next'[d] = IF d = tbl.tail THEN e ELSE next[d]
    <3>1. tbl.tail \in Elements /\ tbl.tail # e /\ tbl.tail \in Links
      BY <1>1, <1>3, <2>3 DEF LinksOK, Links
    <3>2. /\ next' = [next EXCEPT ![e] = NULL, ![tbl.tail] = e]
          /\ prev' = [prev EXCEPT ![e] = tbl.tail]
      BY <2>1 DEF HASH_APPEND_LIST
    <3>3. next \in [Elements -> Links] /\ prev \in [Elements -> Links] /\ entries \in SUBSET Elements
      BY <1>3 DEF LinksOK
    <3> QED
      BY <1>1, <1>10, <3>1, <3>2, <3>3
  <2>7. LinksOK'
    BY <1>1, <1>2, <1>3, <1>10, <2>1, <2>6 DEF LinksOK, Adding
  <2>8. Chain(entries \cup {e}, head, next') /\ Back(entries \cup {e}, head, next', prev')
    <3>1. Chain(entries, head, next) /\ Back(entries, head, next, prev)
      BY <1>3, <1>4 DEF ListInv
    <3>2. entries \in SUBSET Elements /\ e \in Elements \ entries
      BY <1>1, <1>3 DEF LinksOK
    <3> QED
      BY <2>3, <2>6, <3>1, <3>2, ChainAppend
  <2>9. ListInv'
    <3>1. tbl' # NoTable /\ tbl.num_items = Cardinality(Chained)
      BY <1>3, <2>2, <2>4 DEF NoTable, ListInv
    <3> QED
      BY <1>1, <1>4, <2>1, <2>2, <2>4, <2>6, <2>8, <3>1 DEF ListInv
  <2>10. ASSUME NEW b \in 0 .. n - 1
         PROVE  BucketOK(Part(Chained, n, b), FirstIn(b), tbl.buckets[b].count)'
    <3>1. BucketOK(Part(Chained, n, b), FirstIn(b), tbl.buckets[b].count)
      BY <1>1, <2>2 DEF TableInv, ChainsInv, Building
    <3>2. FirstIn(b)' = FirstIn(b) /\ tbl'.buckets[b].count = tbl.buckets[b].count
      BY <1>1, <2>4 DEF FirstIn
    <3>3. Part(Chained, n, b)' = Part(Chained, n, b)
      BY <1>4, <2>4 DEF Part
    <3> QED
      BY <1>2, <3>1, <3>2, <3>3 DEF BucketOK
  <2>11. ChainsInv'
    <3> HIDE DEF n
    <3>1. tbl'.num_buckets = n /\ n' = n
      BY <2>4 DEF n
    <3> QED
      BY <1>1, <1>9, <2>10, <3>1 DEF ChainsInv
  <2>12. BoundInv'
    BY <1>1, <2>4 DEF BoundInv, Building, TableInv, SameSizes, WithinLimit
  <2> QED
    BY <1>5, <1>6, <1>7, <1>8, <2>5, <2>7, <2>9, <2>11, <2>12, TypeParts, PTL DEF TableInv
<1> QED
  BY <1>11, <1>12

\* The chains of the elements of S, one for each of n buckets.
ChainsOf(S, n, heads, link, back) ==
  \A b \in 0 .. n - 1 : /\ Chain(Part(S, n, b), heads[b], link)
                        /\ Back(Part(S, n, b), heads[b], link, back)
PutFirst(e, first, link, back, link2, back2) ==
  \A d \in Elements : /\ link2[d] = IF d = e THEN first ELSE link[d]
                      /\ back2[d] = IF d = e THEN NULL ELSE IF d = first THEN e ELSE back[d]

\* The first element of a bucket.
LEMMA HeadIn ==
  ASSUME NEW S \in SUBSET Elements, NEW n, NEW heads, NEW link, NEW back,
         ChainsOf(S, n, heads, link, back), NEW b \in 0 .. n - 1
  PROVE  heads[b] \in Part(S, n, b) \cup {NULL}
<1>1. Part(S, n, b) \in SUBSET Elements /\ Chain(Part(S, n, b), heads[b], link)
  BY DEF ChainsOf, Part
<1> QED
  BY <1>1, ChainLinks

LEMMA PartGrows ==
  ASSUME NEW S \in SUBSET Elements, NEW n, NEW e \in Elements \ S, NEW b
  PROVE  Cardinality(Part(S \cup {e}, n, b))
           = IF HASH_TO_BKT(hashv(e), n) = b THEN Cardinality(Part(S, n, b)) + 1 ELSE Cardinality(Part(S, n, b))
<1>1. /\ Part(S \cup {e}, n, b)
           = IF HASH_TO_BKT(hashv(e), n) = b THEN Part(S, n, b) \cup {e} ELSE Part(S, n, b)
      /\ Part(S, n, b) \in SUBSET Elements /\ e \notin Part(S, n, b)
  BY DEF Part
<1>2. IsFiniteSet(Part(S, n, b))
  BY <1>1, Constants, FS_Subset
<1> QED
  BY <1>1, <1>2, FS_AddElement

\* One element is put before the others of its bucket.
LEMMA BucketsPush ==
  ASSUME NEW S \in SUBSET Elements, NEW n \in Nat, n > 0, NEW e \in Elements \ S,
         NEW heads, NEW link, NEW back, NEW link2, NEW back2, NEW heads2,
         NEW to, to = HASH_TO_BKT(hashv(e), n),
         ChainsOf(S, n, heads, link, back), PutFirst(e, heads[to], link, back, link2, back2),
         \A b \in 0 .. n - 1 : heads2[b] = IF b = to THEN e ELSE heads[b]
  PROVE  ChainsOf(S \cup {e}, n, heads2, link2, back2)
<1>1. to \in 0 .. n - 1
  BY Hashed
<1>2. ASSUME NEW b
      PROVE  /\ Part(S, n, b) \in SUBSET S
             /\ \A d \in S : d \in Part(S, n, b) <=> HASH_TO_BKT(hashv(d), n) = b
             /\ Part(S \cup {e}, n, b) = IF b = to THEN Part(S, n, b) \cup {e} ELSE Part(S, n, b)
  BY DEF Part
<1>3. heads[to] \in Part(S, n, to) \cup {NULL}
  BY <1>1, HeadIn
<1>4. ASSUME NEW b \in 0 .. n - 1, b = to
      PROVE  /\ Chain(Part(S \cup {e}, n, b), e, link2)
             /\ Back(Part(S \cup {e}, n, b), e, link2, back2)
  <2> DEFINE P == Part(S, n, to)
  <2>1. Part(S \cup {e}, n, b) = P \cup {e} /\ P \in SUBSET Elements /\ e \in Elements \ P
    BY <1>2, <1>4
  <2>2. Chain(P, heads[to], link) /\ Back(P, heads[to], link, back)
    BY <1>1 DEF ChainsOf
  <2>3. /\ link2[e] = heads[to] /\ back2[e] = NULL
        /\ \A d \in P : /\ link2[d] = link[d]
                        /\ back2[d] = IF d = heads[to] THEN e ELSE back[d]
    BY <2>1 DEF PutFirst
  <2> HIDE DEF P
  <2>4. Chain(P \cup {e}, e, link2) /\ Back(P \cup {e}, e, link2, back2)
    BY <2>1, <2>2, <2>3, ChainPush
  <2> QED
    BY <1>4, <2>1, <2>4 DEF P
<1>5. ASSUME NEW b \in 0 .. n - 1, b # to
      PROVE  /\ Chain(Part(S \cup {e}, n, b), heads[b], link2)
             /\ Back(Part(S \cup {e}, n, b), heads[b], link2, back2)
  <2> DEFINE P == Part(S, n, b)
  <2>1. Part(S \cup {e}, n, b) = P /\ P \in SUBSET S
    BY <1>2, <1>5
  <2>2. ASSUME NEW d \in P PROVE d # e /\ d # heads[to]
    <3>1. d \in S /\ HASH_TO_BKT(hashv(d), n) = b
      BY <1>2, <2>1
    <3>2. heads[to] # NULL => HASH_TO_BKT(hashv(heads[to]), n) = to
      BY <1>2, <1>3
    <3> QED
      BY <1>5, <3>1, <3>2, Constants
  <2>3. \A d \in P : link2[d] = link[d] /\ back2[d] = back[d]
    BY <2>1, <2>2 DEF PutFirst
  <2>4. Chain(P, heads[b], link) /\ Back(P, heads[b], link, back)
    BY DEF ChainsOf
  <2> HIDE DEF P
  <2>5. Chain(P, heads[b], link2) /\ Back(P, heads[b], link2, back2)
    BY <2>3, <2>4, ChainFrame
  <2> QED
    BY <2>1, <2>5 DEF P
<1>6. ASSUME NEW b \in 0 .. n - 1
      PROVE  /\ Chain(Part(S \cup {e}, n, b), heads2[b], link2)
             /\ Back(Part(S \cup {e}, n, b), heads2[b], link2, back2)
  <2>1. CASE b = to
    BY <1>4, <2>1
  <2>2. CASE b # to
    BY <1>5, <2>2
  <2> QED
    BY <2>1, <2>2
<1> QED
  BY <1>6 DEF ChainsOf

LEMMA AddToBktKeeps ==
  ASSUME TableInv, AddToBkt
  PROVE  TableInv'
<1> DEFINE n == tbl.num_buckets
           to == ElemBkt
           old == tbl.buckets[to].hh_head
           longer == tbl.buckets[to].count + 1
           more == tbl.num_items + 1
<1>1. upc = "add_to_bkt" /\ upc' = "link"
  BY DEF AddToBkt
<1>2. UNCHANGED <<list, entries, elem, grow>> /\ Observe
  BY DEF AddToBkt
<1>3. /\ n \in Nat /\ (tbl # NoTable <=> n > 0) /\ tbl \in Tables(n, Buckets(n)) /\ elem \in Elements
      /\ TblOK /\ GrowOK /\ LinksOK /\ LookOK /\ ControlInv /\ ListInv
  BY <1>1, TableIs
<1>4. /\ Linked = entries \cup {elem} /\ Linked' = Linked
      /\ Chained = entries /\ Chained' = entries \cup {elem} /\ entries \in SUBSET Elements
  BY <1>1, <1>2, <1>3 DEF Linked, Chained, Adding, Building, LinksOK
<1>5. elem \notin entries
  BY <1>1, <1>3 DEF ControlInv, Adding
<1>6. n > 0 /\ tbl # NoTable
  BY <1>1, <1>3, <1>4 DEF ListInv
<1>7. ControlInv'
  BY <1>1, <1>2, <1>3 DEF ControlInv, Adding, Building
<1>8. RebuildInv'
  BY <1>1 DEF RebuildInv
<1>9. GrowOK'
  BY <1>1, <1>2, <1>3 DEF GrowOK, Building
<1>10. LookOK'
  BY <1>2, <1>3, ObserveKeeps
<1>11. to \in 0 .. n - 1 /\ to = HASH_TO_BKT(hashv(elem), n)
  BY <1>3, <1>6, TableIs DEF ElemBkt
<1> DEFINE heads == [b \in 0 .. n - 1 |-> tbl.buckets[b].hh_head]
<1>12. \A b \in 0 .. n - 1 :
         /\ Chain(Part(entries, n, b), heads[b], hh_next)
         /\ Back(Part(entries, n, b), heads[b], hh_next, hh_prev)
         /\ tbl.buckets[b].count = Cardinality(Part(entries, n, b))
  BY <1>1, <1>4, <1>6 DEF TableInv, ChainsInv, Building, BucketOK, FirstIn
<1>13. /\ hh_next' \in [Elements -> Links] /\ hh_prev' \in [Elements -> Links]
       /\ \A d \in Elements : /\ hh_next'[d] = IF d = elem THEN old ELSE hh_next[d]
                              /\ hh_prev'[d] = IF d = elem THEN NULL ELSE IF d = old THEN elem ELSE hh_prev[d]
  <2>1. /\ hh_next' = [hh_next EXCEPT ![elem] = old]
        /\ hh_prev' = [a \in Elements |->
             IF a = elem THEN NULL ELSE IF a = old THEN elem ELSE hh_prev[a]]
    BY DEF AddToBkt
  <2>2. old \in Links
    BY <1>3, <1>11, TableFields, BucketFields
  <2>3. hh_next \in [Elements -> Links] /\ hh_prev \in [Elements -> Links] /\ elem \in Links /\ NULL \in Links
    BY <1>3 DEF LinksOK, Links
  <2> HIDE DEF old
  <2> QED
    BY <1>3, <2>1, <2>2, <2>3
<1> DEFINE heads2 == [b \in 0 .. n - 1 |-> IF b = to THEN elem ELSE tbl.buckets[b].hh_head]
           bigger == entries \cup {elem}
<1> HIDE DEF old, heads, heads2, to, n
<1>14. /\ old \in entries \cup {NULL}
       /\ ChainsOf(bigger, n, heads2, hh_next', hh_prev')
       /\ \A b \in 0 .. n - 1 :
            Cardinality(Part(bigger, n, b))
              = IF b = to THEN Cardinality(Part(entries, n, b)) + 1 ELSE Cardinality(Part(entries, n, b))
  <2>1. heads[to] = old
    BY <1>11 DEF heads, old
  <2>2. PutFirst(elem, heads[to], hh_next, hh_prev, hh_next', hh_prev')
    BY <1>13, <2>1 DEF PutFirst
  <2>3. ChainsOf(entries, n, heads, hh_next, hh_prev)
    BY <1>12 DEF ChainsOf
  <2>4. n \in Nat
    BY <1>3
  <2>5. entries \in SUBSET Elements
    BY <1>4
  <2>6. elem \in Elements \ entries
    BY <1>3, <1>5
  <2>7. \A b \in 0 .. n - 1 : heads2[b] = IF b = to THEN elem ELSE heads[b]
    BY DEF heads, heads2
  <2>8. to = HASH_TO_BKT(hashv(elem), n)
    BY <1>11
  <2>9. n > 0
    BY <1>6
  <2>10. ChainsOf(bigger, n, heads2, hh_next', hh_prev')
    BY <2>2, <2>3, <2>4, <2>5, <2>6, <2>7, <2>8, <2>9, BucketsPush
  <2>11. heads[to] \in Part(entries, n, to) \cup {NULL}
    BY <1>11, <2>3, <2>5, HeadIn
  <2>12. Part(entries, n, to) \in SUBSET entries
    BY DEF Part
  <2>13. ASSUME NEW b \in 0 .. n - 1
         PROVE  Cardinality(Part(bigger, n, b)) = IF to = b THEN Cardinality(Part(entries, n, b)) + 1
                                                  ELSE Cardinality(Part(entries, n, b))
    BY <2>5, <2>6, <2>8, PartGrows
  <2> QED
    BY <2>1, <2>10, <2>11, <2>12, <2>13
<1>15. more \in Upto /\ longer \in Upto /\ more = Cardinality(entries \cup {elem})
  <2>1. tbl.num_items = Cardinality(entries)
    BY <1>4, <1>3, <1>6 DEF ListInv
  <2>2. entries \cup {elem} \in SUBSET Elements /\ IsFiniteSet(entries)
    BY <1>3, <1>4, Members
  <2>3. more = Cardinality(entries \cup {elem})
    BY <1>5, <2>1, <2>2, FS_AddElement
  <2>4. Cardinality(entries \cup {elem}) \in Nat /\ Cardinality(entries \cup {elem}) <= Cardinality(Elements)
    BY <2>2, Constants, FS_Subset, FS_CardinalityType
  <2>5. longer = Cardinality(Part(entries \cup {elem}, n, to))
    BY <1>11, <1>12, <1>14
  <2>6. Cardinality(Part(entries \cup {elem}, n, to)) \in Upto
    BY <1>3, <1>6, <2>2, PartOK
  <2> QED
    BY <2>3, <2>4, <2>5, <2>6, Constants DEF Upto
<1>16. /\ tbl' \in Tables(n, Buckets(n)) /\ SameSizes(tbl, tbl') /\ tbl'.tail = tbl.tail /\ tbl'.num_items = more
       /\ \A c \in 0 .. n - 1 :
            /\ tbl'.buckets[c].hh_head = tbl.buckets[c].hh_head
            /\ tbl'.buckets[c].expand_mult = tbl.buckets[c].expand_mult
            /\ tbl'.buckets[c].count = IF c = to THEN longer ELSE tbl.buckets[c].count
  <2>1. tbl' = Counted(tbl, to, more, longer)
    BY DEF AddToBkt, Counted, to, longer, more
  <2>2. n \in Nat
    BY <1>3
  <2>3. tbl \in Tables(n, Buckets(n))
    BY <1>3
  <2> HIDE DEF more, longer
  <2>4. to \in 0 .. n - 1
    BY <1>11
  <2>5. more \in Upto
    BY <1>15
  <2>6. longer \in Upto
    BY <1>15
  <2>7. PICK u : u = Counted(tbl, to, more, longer)
    OBVIOUS
  <2>8. /\ u \in Tables(n, Buckets(n)) /\ SameSizes(tbl, u) /\ u.tail = tbl.tail /\ u.num_items = more
        /\ \A c \in 0 .. n - 1 :
            /\ u.buckets[c].hh_head = tbl.buckets[c].hh_head
            /\ u.buckets[c].expand_mult = tbl.buckets[c].expand_mult
            /\ u.buckets[c].count = IF c = to THEN longer ELSE tbl.buckets[c].count
    BY <2>2, <2>3, <2>4, <2>5, <2>6, <2>7, CountChanged
  <2>9. tbl' = u
    BY <2>1, <2>7
  <2> QED
    BY <2>8, <2>9
<1>17. tbl'.num_buckets = n /\ n' = n /\ to' = to
  BY <1>2, <1>16 DEF SameSizes, n, to, ElemBkt
<1>18. TblOK'
  BY <1>1, <1>3, <1>16, <1>17 DEF TblOK, n
<1>19. LinksOK'
  BY <1>1, <1>2, <1>3, <1>13 DEF LinksOK, Adding, list
<1>20. ListInv'
  <2>1. tbl' # NoTable
    BY <1>6, <1>17 DEF NoTable
  <2>2. head' = head /\ next' = next /\ prev' = prev
    BY <1>2 DEF list
  <2>3. tbl.tail \in Linked /\ next[tbl.tail] = NULL
    BY <1>3, <1>6 DEF ListInv
  <2> QED
    BY <1>1, <1>3, <1>4, <1>6, <1>15, <1>16, <1>17, <2>1, <2>2, <2>3 DEF ListInv
<1>21. ASSUME NEW b \in 0 .. n - 1
       PROVE  BucketOK(Part(Chained, n, b), FirstIn(b), tbl.buckets[b].count)'
  <2>1. Part(Chained, n, b)' = Part(entries \cup {elem}, n, b)
    BY <1>4, <1>17 DEF Part
  <2>2. FirstIn(b)' = heads2[b]
    BY <1>1, <1>2, <1>16, <1>17 DEF FirstIn, heads2, to
  <2>3. tbl'.buckets[b].count = Cardinality(Part(entries \cup {elem}, n, b))
    BY <1>12, <1>14, <1>16
  <2>4. /\ Chain(Part(entries \cup {elem}, n, b), FirstIn(b)', hh_next')
        /\ Back(Part(entries \cup {elem}, n, b), FirstIn(b)', hh_next', hh_prev')
    BY <1>14, <2>2 DEF ChainsOf
  <2> QED
    BY <2>1, <2>3, <2>4 DEF BucketOK
<1>22. ChainsInv'
  <2>1. hh_next'[elem] = tbl'.buckets[to].hh_head
    BY <1>3, <1>11, <1>13, <1>16 DEF old
  <2>2. \A d \in Elements : hh_next'[d] = NULL \/ (hh_next'[d] \in Chained' /\ d \in Chained')
    BY <1>1, <1>4, <1>13, <1>14 DEF ChainsInv, TableInv
  <2> QED
    BY <1>1, <1>2, <1>17, <1>21, <2>1, <2>2 DEF ChainsInv, to, n
<1>23. BoundInv'
  <2>1. ASSUME NEW b \in 0 .. n - 1, b # to, ~tbl'.noexpand
        PROVE  \E limit \in {HASH_BKT_CAPACITY_THRESH, tbl.ideal_chain_maxlen}' : WithinLimit(tbl.buckets[b], limit)'
    <3>1. \E limit \in {HASH_BKT_CAPACITY_THRESH, tbl.ideal_chain_maxlen} : WithinLimit(tbl.buckets[b], limit)
      BY <1>1, <1>16, <2>1 DEF BoundInv, TableInv, Building, SameSizes, n
    <3> QED
      BY <1>16, <2>1, <3>1 DEF WithinLimit, SameSizes
  <2> QED
    BY <1>1, <1>16, <1>17, <2>1 DEF BoundInv, TableInv, Building, SameSizes, to, n
<1> QED
  BY <1>7, <1>8, <1>9, <1>10, <1>18, <1>19, <1>20, <1>22, <1>23, TypeParts, PTL DEF TableInv

LEMMA LinkKeeps ==
  ASSUME TableInv, Link
  PROVE  TableInv'
<1> DEFINE n == tbl.num_buckets
           to == ElemBkt
<1>1. upc = "link" /\ tbl' = Headed(tbl, to, elem)
  BY DEF Link, Headed
<1>2. UNCHANGED <<list, hh_prev, hh_next>> /\ Observe
  BY DEF Link
<1>3. /\ n \in Nat /\ (tbl # NoTable <=> n > 0) /\ tbl \in Tables(n, Buckets(n)) /\ elem \in Elements
      /\ TblOK /\ GrowOK /\ LinksOK /\ LookOK /\ ControlInv /\ ListInv
  BY <1>1, TableIs
<1>4. \/ upc' = "expand" /\ UNCHANGED <<entries, elem, grow>> /\ MustExpand(tbl.buckets[to])
      \/ upc' = "idle" /\ entries' = entries \cup {elem} /\ elem' = NULL /\ grow' = NoGrowth
         /\ ~MustExpand(tbl.buckets[to])
  BY DEF Link, UpdateEnds
<1>5. /\ Linked = entries \cup {elem} /\ Linked' = Linked
      /\ Chained = entries \cup {elem} /\ Chained' = Chained /\ elem \notin entries
  <2>1. Linked = entries \cup {elem} /\ Chained = entries \cup {elem}
    BY <1>1 DEF Linked, Chained, Adding, Building
  <2>2. Linked' = entries \cup {elem} /\ Chained' = entries \cup {elem}
    BY <1>4 DEF Linked, Chained, Adding, Building
  <2> QED
    BY <1>1, <1>3, <2>1, <2>2 DEF ControlInv, Adding
<1>6. n > 0 /\ tbl # NoTable
  BY <1>1, <1>3, <1>5 DEF ListInv
<1>7. ControlInv'
  BY <1>3, <1>4, <1>5, Constants DEF ControlInv, Adding, Building
<1>8. RebuildInv'
  BY <1>4 DEF RebuildInv
<1>9. GrowOK'
  BY <1>1, <1>3, <1>4 DEF GrowOK, Building, NoGrowth, Links
<1>10. LookOK'
  BY <1>2, <1>3, ObserveKeeps
<1>11. to \in 0 .. n - 1
  BY <1>3, <1>6, TableIs DEF ElemBkt
<1>12. elem \in Links
  BY <1>3 DEF Links
<1> HIDE DEF n, to
<1>13. /\ tbl' \in Tables(n, Buckets(n)) /\ SameSizes(tbl, tbl') /\ tbl'.tail = tbl.tail
       /\ tbl'.num_items = tbl.num_items
       /\ \A c \in 0 .. n - 1 :
            /\ tbl'.buckets[c].hh_head = IF c = to THEN elem ELSE tbl.buckets[c].hh_head
            /\ tbl'.buckets[c].expand_mult = tbl.buckets[c].expand_mult
            /\ tbl'.buckets[c].count = tbl.buckets[c].count
  <2>1. n \in Nat
    BY <1>3
  <2>2. tbl \in Tables(n, Buckets(n))
    BY <1>3
  <2>3. tbl' = Headed(tbl, to, elem)
    BY <1>1
  <2> QED
    BY <1>11, <1>12, <2>1, <2>2, <2>3, HeadChanged
<1>14. tbl'.num_buckets = n /\ n' = n
  BY <1>13 DEF SameSizes, n
<1>15. TblOK'
  BY <1>4, <1>3, <1>13, <1>14 DEF TblOK, n
<1>16. LinksOK'
  <2>1. entries' \in SUBSET Elements /\ elem' \in Links
    BY <1>3, <1>4 DEF LinksOK, Links
  <2> QED
    BY <1>2, <1>3, <1>4, <2>1 DEF LinksOK, Adding, list
<1>17. ListInv'
  <2>1. tbl' # NoTable
    BY <1>6, <1>14 DEF NoTable
  <2>2. head' = head /\ next' = next /\ prev' = prev
    BY <1>2 DEF list
  <2> QED
    BY <1>1, <1>3, <1>4, <1>5, <1>6, <1>13, <1>14, <2>1, <2>2 DEF ListInv, n
<1>18. ASSUME NEW b \in 0 .. n - 1
       PROVE  BucketOK(Part(Chained, n, b), FirstIn(b), tbl.buckets[b].count)'
  <2>1. BucketOK(Part(Chained, n, b), FirstIn(b), tbl.buckets[b].count)
    BY <1>1, <1>6 DEF TableInv, ChainsInv, Building, n
  <2>2. FirstIn(b) = IF b = to THEN elem ELSE tbl.buckets[b].hh_head
    BY <1>1 DEF FirstIn, to
  <2>3. FirstIn(b)' = FirstIn(b) /\ tbl'.buckets[b].count = tbl.buckets[b].count
    BY <1>4, <1>13, <2>2 DEF FirstIn
  <2>4. Part(Chained, n, b)' = Part(Chained, n, b)
    BY <1>5, <1>14 DEF Part
  <2> QED
    BY <1>2, <2>1, <2>3, <2>4 DEF BucketOK
<1>19. ChainsInv'
  <2>1. \A d \in Elements : hh_next'[d] = NULL \/ (hh_next'[d] \in Chained' /\ d \in Chained')
    BY <1>1, <1>2, <1>5 DEF ChainsInv, TableInv
  <2> QED
    BY <1>4, <1>14, <1>18, <2>1 DEF ChainsInv, n
<1>20. BoundInv'
  <2>1. ASSUME NEW b \in 0 .. n - 1, ~tbl'.noexpand, ~MustExpand(tbl.buckets[to])
        PROVE  \E limit \in {HASH_BKT_CAPACITY_THRESH, tbl.ideal_chain_maxlen}' : WithinLimit(tbl.buckets[b], limit)'
    <3>1. CASE b = to
      <4>1. tbl.buckets[b].count \in Nat /\ tbl.buckets[b].expand_mult \in Nat
        <5>1. n \in Nat /\ tbl.buckets \in Buckets(n)
          BY <1>3, TableFields DEF n
        <5> QED
          BY <5>1, BucketFields, UptoNat
      <4>2. WithinLimit(tbl.buckets[b], HASH_BKT_CAPACITY_THRESH)
        <5> DEFINE m == (tbl.buckets[b].expand_mult + 1) * HASH_BKT_CAPACITY_THRESH
        <5>1. m \in Nat
          <6>1. tbl.buckets[b].expand_mult + 1 \in Nat
            BY <4>1
          <6> QED
            BY <6>1, Constants, Products
        <5>2. tbl.buckets[b].count \in Nat
          BY <4>1
        <5>3. ~ (tbl.buckets[b].count >= m)
          BY <1>13, <2>1, <3>1 DEF MustExpand, SameSizes
        <5> HIDE DEF m
        <5>4. tbl.buckets[b].count <= m
          BY <5>1, <5>2, <5>3
        <5> QED
          BY <5>4 DEF WithinLimit, m
      <4> QED
        BY <1>13, <4>2 DEF WithinLimit
    <3>2. CASE b # to
      <4>1. \E limit \in {HASH_BKT_CAPACITY_THRESH, tbl.ideal_chain_maxlen} : WithinLimit(tbl.buckets[b], limit)
        BY <1>1, <1>13, <2>1, <3>2 DEF BoundInv, TableInv, Building, SameSizes, n, to
      <4> QED
        BY <1>13, <4>1 DEF WithinLimit, SameSizes
    <3> QED
      BY <3>1, <3>2
  <2>2. ~tbl'.noexpand => tbl'.ineff_expands <= 1
    BY <1>13 DEF BoundInv, TableInv, SameSizes
  <2>3. upc' = "expand" => ~tbl'.noexpand
    BY <1>4, <1>13 DEF MustExpand, SameSizes
  <2> QED
    BY <1>4, <1>14, <2>1, <2>2, <2>3 DEF BoundInv, Building, n
<1> QED
  BY <1>7, <1>8, <1>9, <1>10, <1>15, <1>16, <1>17, <1>19, <1>20, TypeParts, PTL DEF TableInv

-----------------------------------------------------------------------------
(* The expansion                                                           *)

LEMMA Division ==
  ASSUME NEW k \in Nat, NEW l \in Nat, l > 0, k >= l
  PROVE  k \div l \in Nat /\ k \div l > 0
OBVIOUS

LEMMA NextBktIs ==
  ASSUME tbl.num_buckets \in Nat, NEW b \in 0 .. tbl.num_buckets
  PROVE  /\ NextBkt(b) \in b .. tbl.num_buckets
         /\ NextBkt(b) < tbl.num_buckets => tbl.buckets[NextBkt(b)].hh_head # NULL
         /\ \A d \in b .. NextBkt(b) - 1 : tbl.buckets[d].hh_head = NULL
<1> DEFINE n == tbl.num_buckets
           Held(c) == tbl.buckets[c].hh_head # NULL
           T == {c \in Nat : b <= c /\ c <= n /\ (c < n => Held(c))}
<1>1. n \in T /\ T \in SUBSET Nat
  OBVIOUS
<1>2. PICK m \in T : \A k \in T : m <= k
  <2> HIDE DEF T
  <2> QED
    BY <1>1, LeastNatural
<1>3. m \in b .. n /\ (m < n => Held(m))
  OBVIOUS
<1>4. ASSUME NEW d \in b .. m - 1 PROVE ~Held(d)
  <2>1. d \in Nat /\ b <= d /\ d <= n /\ ~(m <= d)
    BY <1>3
  <2> QED
    BY <1>2, <2>1
<1> DEFINE P(c) == (c < n => Held(c)) /\ \A d \in b .. c - 1 : ~Held(d)
<1>5. m \in b .. n /\ P(m)
  BY <1>3, <1>4
<1>6. NextBkt(b) = CHOOSE c \in b .. n : P(c)
  BY DEF NextBkt
<1> HIDE DEF P, n
<1>7. NextBkt(b) \in b .. n /\ P(NextBkt(b))
  BY <1>5, <1>6
<1> QED
  BY <1>7 DEF P, n

\* Of the elements of S none is in a bucket before b; in b they are chained from thh,
\* or from the bucket's head, and in the buckets behind b from the head.
Left(S, n, buckets, b, thh, link) ==
  \A c \in 0 .. n - 1 :
    IF c < b THEN Part(S, n, c) = {}
             ELSE Chain(Part(S, n, c), IF c = b /\ thh # NULL THEN thh ELSE buckets[c].hh_head, link)

LEMMA LeftNothing ==
  ASSUME NEW S \in SUBSET Elements, NEW n \in Nat, n > 0, \A c \in 0 .. n - 1 : Part(S, n, c) = {}
  PROVE  S = {}
<1>1. ASSUME NEW e \in S PROVE FALSE
  <2>1. HASH_TO_BKT(hashv(e), n) \in 0 .. n - 1
    BY Hashed
  <2>2. e \in Part(S, n, HASH_TO_BKT(hashv(e), n))
    BY DEF Part
  <2> QED
    BY <2>1, <2>2
<1> QED
  BY <1>1

LEMMA GoOnIs ==
  ASSUME tbl.num_buckets \in Nat, NEW b \in 0 .. tbl.num_buckets, NEW thh, NEW buckets,
         NEW S \in SUBSET Elements, NEW link, thh # NULL => b < tbl.num_buckets, S # {},
         tbl.num_buckets > 0,
         Left(S, tbl.num_buckets, tbl.buckets, b, thh, link), GoOn(b, thh, buckets)
  PROVE  /\ upc' = "rethread" /\ grow' = [bkt |-> grow'.bkt, thh |-> grow'.thh, buckets |-> buckets]
         /\ grow'.bkt \in 0 .. tbl.num_buckets - 1 /\ grow'.thh \in Part(S, tbl.num_buckets, grow'.bkt)
         /\ Left(S, tbl.num_buckets, tbl.buckets, grow'.bkt, grow'.thh, link)
<1> DEFINE n == tbl.num_buckets
           c == IF thh # NULL THEN b ELSE NextBkt(b)
           first == IF thh # NULL THEN thh ELSE tbl.buckets[c].hh_head
<1>1. /\ c \in b .. n /\ (c < n => first # NULL)
      /\ thh = NULL => \A d \in b .. c - 1 : tbl.buckets[d].hh_head = NULL
  BY NextBktIs
<1>2. ASSUME NEW d \in 0 .. n - 1, d < c PROVE Part(S, n, d) = {}
  <2>1. CASE d < b
    BY <2>1 DEF Left
  <2>2. CASE ~(d < b)
    <3>1. thh = NULL /\ tbl.buckets[d].hh_head = NULL
      BY <1>1, <1>2, <2>2
    <3>2. Chain(Part(S, n, d), NULL, link)
      BY <2>2, <3>1 DEF Left
    <3>3. Part(S, n, d) \in SUBSET Elements
      BY DEF Part
    <3> QED
      BY <3>2, <3>3, ChainLinks
  <2> QED
    BY <2>1, <2>2
<1>3. c # n
  <2>1. ASSUME c = n PROVE FALSE
    <3>1. \A d \in 0 .. n - 1 : Part(S, n, d) = {}
      <4> HIDE DEF c
      <4> QED
        BY <1>2, <2>1
    <3> QED
      BY <3>1, LeftNothing
  <2> QED
    BY <2>1
<1>4. upc' = "rethread" /\ grow' = [bkt |-> c, thh |-> first, buckets |-> buckets]
  BY <1>3 DEF GoOn
<1>5. grow'.bkt = c /\ grow'.thh = first
  BY <1>4
<1>6. c \in 0 .. n - 1 /\ first # NULL
  BY <1>1, <1>3
<1>7. Chain(Part(S, n, c), first, link)
  BY <1>1, <1>6 DEF Left
<1>8. first \in Part(S, n, c)
  <2>1. Part(S, n, c) \in SUBSET Elements
    BY DEF Part
  <2> QED
    BY <1>6, <1>7, <2>1, ChainLinks
<1>9. Left(S, n, tbl.buckets, c, first, link)
  <2>1. ASSUME NEW d \in 0 .. n - 1, ~(d < c), d # c
        PROVE  Chain(Part(S, n, d), tbl.buckets[d].hh_head, link)
    BY <1>1, <2>1 DEF Left
  <2> HIDE DEF c, first
  <2> QED
    BY <1>2, <1>6, <1>7, <2>1 DEF Left
<1> QED
  BY <1>4, <1>5, <1>6, <1>8, <1>9

LEMMA GoOnEnds ==
  ASSUME tbl.num_buckets \in Nat, NEW b \in 0 .. tbl.num_buckets, NEW thh, NEW buckets,
         NEW link, thh # NULL => b < tbl.num_buckets,
         Left({}, tbl.num_buckets, tbl.buckets, b, thh, link), GoOn(b, thh, buckets)
  PROVE  upc' = "free" /\ grow' = [bkt |-> 0, thh |-> NULL, buckets |-> buckets]
<1> DEFINE n == tbl.num_buckets
           c == IF thh # NULL THEN b ELSE NextBkt(b)
<1>1. ASSUME NEW d \in 0 .. n - 1, ~(d < b)
      PROVE  (IF d = b /\ thh # NULL THEN thh ELSE tbl.buckets[d].hh_head) = NULL
  <2>1. Part({}, n, d) = {}
    BY DEF Part
  <2>2. Chain({}, IF d = b /\ thh # NULL THEN thh ELSE tbl.buckets[d].hh_head, link)
    BY <1>1, <2>1 DEF Left
  <2> QED
    BY <2>2 DEF Chain
<1>2. thh = NULL
  BY <1>1
<1>3. NextBkt(b) = n
  <2>1. NextBkt(b) \in b .. n /\ (NextBkt(b) < n => tbl.buckets[NextBkt(b)].hh_head # NULL)
    BY NextBktIs
  <2>2. NextBkt(b) < n => tbl.buckets[NextBkt(b)].hh_head = NULL
    BY <1>1, <1>2, <2>1
  <2> QED
    BY <2>1, <2>2
<1> QED
  BY <1>2, <1>3 DEF GoOn

\* New chains and their counts.
NewBucketsOK(S, buckets, n, link, back) ==
  \A b \in 0 .. n - 1 : /\ Chain(Part(S, n, b), buckets[b].hh_head, link)
                        /\ Back(Part(S, n, b), buckets[b].hh_head, link, back)
                        /\ buckets[b].count = Cardinality(Part(S, n, b))

LEMMA EmptyNew ==
  ASSUME NEW n \in Nat, NEW link, NEW back
  PROVE  NewBucketsOK({}, EmptyBuckets(n), n, link, back)
<1>1. ASSUME NEW b \in 0 .. n - 1
      PROVE  /\ Chain(Part({}, n, b), EmptyBuckets(n)[b].hh_head, link)
             /\ Back(Part({}, n, b), EmptyBuckets(n)[b].hh_head, link, back)
             /\ EmptyBuckets(n)[b].count = Cardinality(Part({}, n, b))
  <2>1. EmptyBuckets(n)[b].hh_head = NULL /\ EmptyBuckets(n)[b].count = 0
    BY EmptyBucketsOK
  <2>2. Part({}, n, b) = {}
    BY DEF Part
  <2> QED
    BY <2>1, <2>2, ChainEmpty, FS_EmptySet
<1> QED
  BY <1>1 DEF NewBucketsOK

\* The form in which a step of the expansion establishes what is half done.
LEMMA HalfwayIs ==
  ASSUME NEW M \in SUBSET Chained', tbl'.num_buckets \in Nat, grow'.bkt \in Nat,
         NewBucketsOK(M, grow'.buckets, NewSize', hh_next', hh_prev'),
         Left(Chained' \ M, tbl'.num_buckets, tbl'.buckets, grow'.bkt, grow'.thh, hh_next'),
         grow'.bkt < tbl'.num_buckets, grow'.thh # NULL, tbl'.nonideal_items <= Cardinality(M)
  PROVE  Halfway(M)'
<1>1. \A b \in 0 .. NewSize' - 1 :
        BucketOK(Part(M, NewSize, b), grow.buckets[b].hh_head, grow.buckets[b].count)'
  BY DEF NewBucketsOK, BucketOK, Part
<1>2. \A b \in 0 .. tbl'.num_buckets - 1 :
        (LET left == Part(Chained \ M, tbl.num_buckets, b)
         IN IF b < grow.bkt
              THEN left = {}
              ELSE Chain(left, IF b = grow.bkt THEN grow.thh ELSE tbl.buckets[b].hh_head, hh_next))'
  BY DEF Left, Part
<1> QED
  BY <1>1, <1>2 DEF Halfway

LEMMA ExpandKeeps ==
  ASSUME TableInv, Expand
  PROVE  TableInv'
<1> DEFINE n == tbl.num_buckets
           wider == n * 2
           ideal == (tbl.num_items + wider - 1) \div wider
<1>1. upc = "expand" /\ GoOn(0, NULL, EmptyBuckets(wider))
      /\ tbl' = [tbl EXCEPT !.ideal_chain_maxlen = ideal, !.nonideal_items = 0]
  BY DEF Expand
<1>2. UNCHANGED <<list, hh_prev, hh_next, entries, elem>> /\ Observe
  BY DEF Expand
<1>3. /\ n \in Nat /\ (tbl # NoTable <=> n > 0) /\ tbl \in Tables(n, Buckets(n)) /\ elem \in Elements
      /\ TblOK /\ GrowOK /\ LinksOK /\ LookOK /\ ControlInv /\ ListInv
  BY <1>1, TableIs
<1>4. /\ Linked = entries \cup {elem} /\ Chained = entries \cup {elem} /\ elem \notin entries
      /\ Chained \in SUBSET Elements /\ IsFiniteSet(Chained)
  <2>1. Linked = entries \cup {elem} /\ Chained = entries \cup {elem}
    BY <1>1 DEF Linked, Chained, Adding, Building
  <2> QED
    BY <1>1, <1>3, <2>1, Members DEF ControlInv, Adding
<1>5. n > 0 /\ tbl # NoTable /\ tbl.num_items = Cardinality(Chained)
  BY <1>1, <1>3, <1>4 DEF ListInv
<1>6. wider \in Nat /\ wider > 0
  BY <1>3, <1>5
<1>7. ideal \in Nat /\ ideal > 0
  <2>1. tbl.num_items \in Nat /\ tbl.num_items # 0
    <3>1. Cardinality(Chained) \in Nat
      BY <1>4, FS_CardinalityType
    <3>2. Cardinality(Chained) # 0
      BY <1>4, FS_EmptySet
    <3> QED
      BY <1>5, <3>1, <3>2
  <2> HIDE DEF wider
  <2> DEFINE k == tbl.num_items + wider - 1
  <2>2. k \in Nat /\ k >= wider
    BY <1>6, <2>1
  <2> HIDE DEF k
  <2>3. k \div wider \in Nat /\ k \div wider > 0
    BY <1>6, <2>2, Division
  <2> QED
    BY <2>3 DEF k
<1>8. /\ tbl' \in Tables(n, Buckets(n)) /\ tbl'.ideal_chain_maxlen = ideal /\ tbl'.nonideal_items = 0
      /\ tbl'.num_buckets = n /\ tbl'.buckets = tbl.buckets /\ tbl'.noexpand = tbl.noexpand
      /\ tbl'.num_items = tbl.num_items /\ tbl'.tail = tbl.tail /\ tbl'.ineff_expands = tbl.ineff_expands
  <2> HIDE DEF ideal
  <2> QED
    BY <1>1, <1>3, <1>7, UptoNat DEF Tables
<1>9. Left(Chained, n, tbl.buckets, 0, NULL, hh_next)
  <2>1. \A b \in 0 .. n - 1 : Chain(Part(Chained, n, b), tbl.buckets[b].hh_head, hh_next)
    BY <1>1, <1>5 DEF TableInv, ChainsInv, Building, BucketOK, FirstIn
  <2> QED
    BY <2>1 DEF Left
<1> DEFINE new == EmptyBuckets(wider)
<1>10. /\ upc' = "rethread" /\ grow' = [bkt |-> grow'.bkt, thh |-> grow'.thh, buckets |-> new]
       /\ grow'.bkt \in 0 .. n - 1 /\ grow'.thh \in Part(Chained, n, grow'.bkt)
       /\ Left(Chained, n, tbl.buckets, grow'.bkt, grow'.thh, hh_next)
  <2>1. Chained # {}
    BY <1>4
  <2>2. 0 \in 0 .. tbl.num_buckets /\ tbl.num_buckets \in Nat /\ tbl.num_buckets > 0
    BY <1>3, <1>5
  <2>3. GoOn(0, NULL, new) /\ Left(Chained, tbl.num_buckets, tbl.buckets, 0, NULL, hh_next)
    BY <1>1, <1>9
  <2>4. Chained \in SUBSET Elements
    BY <1>4
  <2> DEFINE zero == 0
  <2> HIDE DEF new, zero
  <2>5. GoOn(zero, NULL, new) /\ Left(Chained, tbl.num_buckets, tbl.buckets, zero, NULL, hh_next)
        /\ zero \in 0 .. tbl.num_buckets
    BY <2>2, <2>3 DEF zero
  <2> QED
    BY <2>1, <2>2, <2>4, <2>5, GoOnIs
<1>11. grow'.buckets = new
  BY <1>10
<1>12. NewSize' = wider
  BY <1>8, <1>10 DEF NewSize
<1>13. Linked' = Linked /\ Chained' = Chained
  BY <1>2, <1>4, <1>10 DEF Linked, Chained, Adding, Building
<1>14. ControlInv'
  BY <1>1, <1>2, <1>3, <1>10 DEF ControlInv, Adding, Building
<1>15. GrowOK'
  <2>1. grow'.thh \in Links /\ grow'.bkt \in Nat
    BY <1>4, <1>10 DEF Links, Part
  <2>2. new \in Buckets(wider)
    BY <1>6, EmptyBucketsOK
  <2> HIDE DEF new, wider
  <2>3. grow' \in [bkt : Nat, thh : Links, buckets : Buckets(wider)]
    BY <1>10, <2>1, <2>2
  <2> QED
    BY <1>10, <1>12, <2>3 DEF GrowOK, Building
<1>16. LookOK'
  BY <1>2, <1>3, ObserveKeeps
<1>17. TblOK'
  BY <1>8, <1>3, <1>10 DEF TblOK
<1>18. LinksOK'
  BY <1>2, <1>3, <1>10 DEF LinksOK, Adding, Building, list
<1>19. ListInv'
  <2>1. tbl' # NoTable
    BY <1>5, <1>8 DEF NoTable
  <2>2. head' = head /\ next' = next /\ prev' = prev
    BY <1>2 DEF list
  <2> QED
    BY <1>1, <1>3, <1>4, <1>5, <1>8, <1>10, <1>13, <2>1, <2>2 DEF ListInv
<1>20. ChainsInv'
  <2>1. \A d \in Elements : hh_next'[d] = NULL \/ (hh_next'[d] \in Chained' /\ d \in Chained')
    BY <1>1, <1>2, <1>13 DEF ChainsInv, TableInv
  <2> QED
    BY <1>10, <2>1 DEF ChainsInv, Building
<1>21. RebuildInv'
  <2> DEFINE none == {}
  <2>1. NewBucketsOK(none, new, wider, hh_next', hh_prev')
    BY <1>6, EmptyNew
  <2>2. NewBucketsOK(none, grow'.buckets, NewSize', hh_next', hh_prev')
    BY <1>11, <1>12, <2>1
  <2>3. hh_next' = hh_next /\ Chained' \ none = Chained
    BY <1>2, <1>13
  <2>4. Left(Chained' \ none, tbl'.num_buckets, tbl'.buckets, grow'.bkt, grow'.thh, hh_next')
    BY <1>8, <1>10, <2>3
  <2>5. tbl'.nonideal_items <= Cardinality(none)
    BY <1>8, FS_EmptySet
  <2>6. none \in SUBSET Chained'
    OBVIOUS
  <2>7. grow'.bkt \in Nat /\ grow'.bkt < tbl'.num_buckets /\ grow'.thh # NULL /\ tbl'.num_buckets \in Nat
    BY <1>3, <1>4, <1>8, <1>10, Constants DEF Part
  <2> HIDE DEF none
  <2>8. Halfway(none)'
    BY <2>2, <2>4, <2>5, <2>6, <2>7, HalfwayIs
  <2> QED
    BY <1>10, <2>6, <2>8 DEF RebuildInv
<1>22. BoundInv'
  <2>1. ~tbl.noexpand /\ (~tbl.noexpand => tbl.ineff_expands <= 1)
    BY <1>1 DEF BoundInv, TableInv
  <2>2. ASSUME NEW b \in 0 .. wider - 1
        PROVE  /\ WithinLimit(grow.buckets[b], tbl.ideal_chain_maxlen)'
               /\ grow'.buckets[b].expand_mult <= grow'.buckets[b].count
    <3>1. new[b].count = 0 /\ new[b].expand_mult = 0
      BY <1>6, EmptyBucketsOK
    <3> HIDE DEF new
    <3>2. grow'.buckets[b].count = 0 /\ grow'.buckets[b].expand_mult = 0
      BY <1>11, <3>1
    <3> HIDE DEF ideal
    <3> QED
      BY <1>7, <1>8, <3>2 DEF WithinLimit
  <2> QED
    BY <1>7, <1>8, <1>10, <1>12, <2>1, <2>2 DEF BoundInv, Building
<1> QED
  BY <1>14, <1>15, <1>16, <1>17, <1>18, <1>19, <1>20, <1>21, <1>22, TypeParts, PTL DEF TableInv

\* A new bucket stays within the multiple of the ideal length that it is allowed.
LEMMA GrownBound ==
  ASSUME NEW old, old.count \in Nat, old.expand_mult \in Nat, old.expand_mult <= old.count,
         tbl.ideal_chain_maxlen \in Nat, tbl.ideal_chain_maxlen > 0,
         WithinLimit(old, tbl.ideal_chain_maxlen)
  PROVE  /\ Grown(old) = [hh_head |-> grow.thh, count |-> old.count + 1, expand_mult |-> Grown(old).expand_mult]
         /\ Grown(old).expand_mult \in Nat /\ Grown(old).expand_mult <= old.count + 1
         /\ old.count + 1 <= (Grown(old).expand_mult + 1) * tbl.ideal_chain_maxlen
<1> DEFINE k == old.count
           m == old.expand_mult
           ideal == tbl.ideal_chain_maxlen
           over == k + 1 > ideal /\ k + 1 > m * ideal
           mult == IF over THEN m + 1 ELSE m
<1>1. Grown(old) = [hh_head |-> grow.thh, count |-> k + 1, expand_mult |-> mult]
  BY DEF Grown
<1>2. Grown(old).expand_mult = mult
  BY <1>1
<1>3. k \in Nat /\ m \in Nat /\ ideal \in Nat /\ ideal > 0 /\ m <= k /\ k <= (m + 1) * ideal
  BY DEF WithinLimit
<1> HIDE DEF k, m, ideal
<1>4. /\ m * ideal \in Nat /\ (m + 1) * ideal = m * ideal + ideal
      /\ (m + 1 + 1) * ideal = (m + 1) * ideal + ideal
  BY <1>3, Products
<1>5. k + 1 <= (mult + 1) * ideal
  <2>1. CASE over
    <3> DEFINE p == (m + 1) * ideal
    <3>1. p \in Nat /\ k <= p
      BY <1>3, <1>4
    <3>2. (mult + 1) * ideal = p + ideal
      BY <1>4, <2>1
    <3> HIDE DEF p, mult
    <3> QED
      BY <1>3, <3>1, <3>2
  <2>2. CASE ~over
    <3> DEFINE p == m * ideal
    <3>1. p \in Nat /\ (k + 1 <= ideal \/ k + 1 <= p)
      <4>1. p \in Nat
        BY <1>4
      <4>2. ~(k + 1 > ideal /\ k + 1 > p)
        BY <2>2
      <4> HIDE DEF p
      <4> QED
        BY <1>3, <4>1, <4>2
    <3>2. (mult + 1) * ideal = p + ideal
      BY <1>4, <2>2
    <3> HIDE DEF p, mult
    <3> QED
      BY <1>3, <3>1, <3>2
  <2> QED
    BY <2>1, <2>2
<1>6. mult \in Nat /\ mult <= k + 1
  BY <1>3
<1> QED
  BY <1>1, <1>2, <1>5, <1>6 DEF k, ideal

\* The rest of the old chains once thh, the first of them, has been taken.
LEMMA LeftAfter ==
  ASSUME NEW S \in SUBSET Elements, NEW n \in Nat, NEW buckets, NEW b \in 0 .. n - 1, NEW thh \in Part(S, n, b),
         NEW link, NEW link2, Left(S, n, buckets, b, thh, link), \A d \in S \ {thh} : link2[d] = link[d]
  PROVE  Left(S \ {thh}, n, buckets, IF link[thh] = NULL THEN b + 1 ELSE b, link[thh], link2)
<1> DEFINE R == S \ {thh}
           b2 == IF link[thh] = NULL THEN b + 1 ELSE b
<1>0. thh # NULL /\ thh \in S /\ HASH_TO_BKT(hashv(thh), n) = b
  BY Constants DEF Part
<1>1. ASSUME NEW c \in 0 .. n - 1, NEW first,
             first = IF c = b2 /\ link[thh] # NULL THEN link[thh] ELSE buckets[c].hh_head
      PROVE  /\ c < b2 => Part(R, n, c) = {}
             /\ ~(c < b2) => Chain(Part(R, n, c), first, link2)
  <2>1. Part(R, n, c) = IF c = b THEN Part(S, n, c) \ {thh} ELSE Part(S, n, c)
    BY <1>0 DEF Part
  <2>2. Part(R, n, c) \in SUBSET R /\ Part(S, n, c) \in SUBSET Elements
    BY DEF Part
  <2>3. CASE c < b
    <3>1. c < b2
      BY <2>3
    <3>2. Part(R, n, c) = {}
      BY <2>1, <2>3 DEF Left
    <3> QED
      BY <3>1, <3>2
  <2>4. CASE c > b
    <3> DEFINE P == Part(R, n, c)
    <3>1. Chain(P, buckets[c].hh_head, link)
      BY <2>1, <2>4 DEF Left
    <3>2. \A d \in P : link2[d] = link[d]
      BY <2>2
    <3> HIDE DEF P
    <3>3. Chain(P, buckets[c].hh_head, link2)
      BY <3>1, <3>2, ChainFrame
    <3>4. ~(c < b2) /\ first = buckets[c].hh_head
      BY <1>1, <2>4
    <3> QED
      BY <3>3, <3>4 DEF P
  <2>5. CASE c = b
    <3> DEFINE Q == Part(S, n, b)
    <3>1. Chain(Q, thh, link)
      BY <1>0 DEF Left
    <3>2. Q \in SUBSET Elements /\ Q \ {thh} \in SUBSET R /\ thh \in Q /\ Part(R, n, c) = Q \ {thh}
      BY <2>1, <2>2, <2>5
    <3> HIDE DEF Q
    <3> DEFINE P == Q \ {thh}
    <3>3. Chain(P, link[thh], link)
      BY <3>1, <3>2, ChainPop
    <3>4. \A d \in P : link2[d] = link[d]
      BY <3>2
    <3>5. P \in SUBSET Elements /\ Part(R, n, c) = P
      BY <3>2
    <3> HIDE DEF P
    <3>6. Chain(P, link[thh], link2) /\ (link[thh] = NULL => P = {})
      BY <3>3, <3>4, <3>5, ChainFrame, ChainLinks
    <3>7. CASE link[thh] = NULL
      BY <2>5, <3>5, <3>6, <3>7
    <3>8. CASE link[thh] # NULL
      <4>1. ~(c < b2) /\ first = link[thh]
        BY <1>1, <2>5, <3>8
      <4> QED
        BY <3>5, <3>6, <4>1
    <3> QED
      BY <3>7, <3>8
  <2>6. c < b \/ c > b \/ c = b
    OBVIOUS
  <2> QED
    BY <2>3, <2>4, <2>5, <2>6
<1>2. Left(R, n, buckets, b2, link[thh], link2)
  <2> HIDE DEF b2, R
  <2>1. ASSUME NEW c \in 0 .. n - 1
        PROVE  IF c < b2 THEN Part(R, n, c) = {}
               ELSE Chain(Part(R, n, c), IF c = b2 /\ link[thh] # NULL THEN link[thh] ELSE buckets[c].hh_head, link2)
    BY <1>1
  <2> QED
    BY <2>1 DEF Left
<1> QED
  BY <1>2

LEMMA RethreadKeeps ==
  ASSUME TableInv, Rethread
  PROVE  TableInv'
<1> DEFINE n == tbl.num_buckets
           wider == n * 2
           thh == grow.thh
           nb == HASH_TO_BKT(hashv(thh), wider)
           to == grow.buckets[nb]
           new == [grow.buckets EXCEPT ![nb] = Grown(to)]
           from == IF hh_next[thh] = NULL THEN grow.bkt + 1 ELSE grow.bkt
           unfit == IF to.count + 1 > tbl.ideal_chain_maxlen THEN tbl.nonideal_items + 1 ELSE tbl.nonideal_items
<1>1. /\ upc = "rethread" /\ GoOn(from, hh_next[thh], new)
      /\ tbl' = [tbl EXCEPT !.nonideal_items = unfit]
  BY DEF Rethread
<1>2. UNCHANGED <<list, entries, elem>> /\ Observe
  BY DEF Rethread
<1>3. /\ n \in Nat /\ (tbl # NoTable <=> n > 0) /\ tbl \in Tables(n, Buckets(n)) /\ elem \in Elements
      /\ TblOK /\ GrowOK /\ LinksOK /\ LookOK /\ ControlInv /\ ListInv
  BY <1>1, TableIs
<1>4. /\ Linked = entries \cup {elem} /\ Chained = entries \cup {elem} /\ elem \notin entries
      /\ Chained \in SUBSET Elements /\ IsFiniteSet(Chained)
  <2>1. Linked = entries \cup {elem} /\ Chained = entries \cup {elem}
    BY <1>1 DEF Linked, Chained, Adding, Building
  <2> QED
    BY <1>1, <1>3, <2>1, Members DEF ControlInv, Adding, Building
<1>5. n > 0 /\ tbl # NoTable /\ tbl.num_items = Cardinality(Chained)
  BY <1>1, <1>3, <1>4 DEF ListInv
<1>6. wider \in Nat /\ wider > 0 /\ NewSize = wider
  BY <1>1, <1>3, <1>5 DEF NewSize
<1>7. grow.buckets \in Buckets(wider) /\ grow.bkt \in Nat /\ grow.thh \in Links
  BY <1>1, <1>3, <1>6 DEF GrowOK, Building
<1>8. PICK M \in SUBSET Chained : Halfway(M)
  BY <1>1 DEF TableInv, RebuildInv
<1> DEFINE rest == Chained \ M
           more == M \cup {thh}
<1>9. /\ grow.bkt \in 0 .. n - 1 /\ thh # NULL
      /\ Left(rest, n, tbl.buckets, grow.bkt, thh, hh_next)
  <2>1. grow.bkt < n /\ thh # NULL
    BY <1>8 DEF Halfway
  <2>2. ASSUME NEW b \in 0 .. n - 1
        PROVE  IF b < grow.bkt THEN Part(rest, n, b) = {}
               ELSE Chain(Part(rest, n, b), IF b = grow.bkt THEN thh ELSE tbl.buckets[b].hh_head, hh_next)
    BY <1>8 DEF Halfway
  <2>3. grow.bkt \in 0 .. n - 1
    BY <1>3, <1>7, <2>1
  <2> HIDE DEF n, thh, rest
  <2>4. Left(rest, n, tbl.buckets, grow.bkt, thh, hh_next)
    BY <2>1, <2>2 DEF Left
  <2> QED
    BY <2>1, <2>3, <2>4
<1>10. thh \in Part(rest, n, grow.bkt) /\ thh \in rest /\ thh \in Elements \ M
  <2> DEFINE P == Part(rest, n, grow.bkt)
  <2>0. rest \in SUBSET Elements
    BY <1>4
  <2> HIDE DEF n, thh, rest
  <2>1. Chain(P, thh, hh_next)
    BY <1>3, <1>9 DEF Left
  <2>2. P \in SUBSET rest
    BY DEF Part
  <2> HIDE DEF P
  <2>3. thh \in P
    BY <1>9, <2>0, <2>1, <2>2, ChainLinks
  <2> QED
    BY <2>0, <2>2, <2>3 DEF P, rest
<1>11. nb \in 0 .. wider - 1
  BY <1>6, <1>10, Hashed
<1> DEFINE heads == [b \in 0 .. wider - 1 |-> grow.buckets[b].hh_head]
           heads2 == [b \in 0 .. wider - 1 |-> IF b = nb THEN thh ELSE grow.buckets[b].hh_head]
<1>12. /\ ChainsOf(M, wider, heads, hh_next, hh_prev)
       /\ \A b \in 0 .. wider - 1 : grow.buckets[b].count = Cardinality(Part(M, wider, b))
  <2>1. ASSUME NEW b \in 0 .. wider - 1
        PROVE  /\ Chain(Part(M, wider, b), heads[b], hh_next)
               /\ Back(Part(M, wider, b), heads[b], hh_next, hh_prev)
               /\ grow.buckets[b].count = Cardinality(Part(M, wider, b))
    BY <1>6, <1>8 DEF Halfway, BucketOK
  <2> HIDE DEF heads
  <2> QED
    BY <2>1 DEF ChainsOf
<1>13. /\ hh_next' \in [Elements -> Links] /\ hh_prev' \in [Elements -> Links]
       /\ PutFirst(thh, heads[nb], hh_next, hh_prev, hh_next', hh_prev')
  <2>1. /\ hh_next' = [hh_next EXCEPT ![thh] = to.hh_head]
        /\ hh_prev' = [a \in Elements |->
             IF a = thh THEN NULL ELSE IF a = to.hh_head THEN thh ELSE hh_prev[a]]
    BY DEF Rethread
  <2>2. to.hh_head \in Links /\ heads[nb] = to.hh_head
    BY <1>6, <1>7, <1>11, BucketFields
  <2>3. hh_next \in [Elements -> Links] /\ hh_prev \in [Elements -> Links] /\ NULL \in Links
        /\ thh \in Elements /\ thh \in Links
    BY <1>3, <1>10 DEF LinksOK, Links
  <2> HIDE DEF to, thh, heads
  <2> QED
    BY <2>1, <2>2, <2>3 DEF PutFirst
<1>14. to.count \in Upto /\ to.count \in Nat /\ to.expand_mult \in Nat /\ to.hh_head \in M \cup {NULL}
  <2>1. to.count \in Upto /\ to.expand_mult \in Upto
    BY <1>6, <1>7, <1>11, BucketFields
  <2>2. M \in SUBSET Elements /\ heads[nb] = to.hh_head
    BY <1>4, <1>11
  <2>3. Part(M, wider, nb) \in SUBSET M
    BY DEF Part
  <2> HIDE DEF heads, to, wider, nb
  <2>4. heads[nb] \in Part(M, wider, nb) \cup {NULL}
    BY <1>11, <1>12, <2>2, HeadIn
  <2> QED
    BY <2>1, <2>2, <2>3, <2>4, UptoNat
<1> DEFINE k == Grown(to).expand_mult
           grown == Grown(to)
<1>15. /\ ~tbl.noexpand /\ (~tbl.noexpand => tbl.ineff_expands <= 1)
       /\ tbl.ideal_chain_maxlen \in Nat /\ tbl.ideal_chain_maxlen > 0
       /\ \A b \in 0 .. wider - 1 : /\ WithinLimit(grow.buckets[b], tbl.ideal_chain_maxlen)
                                    /\ grow.buckets[b].expand_mult <= grow.buckets[b].count
  <2>1. tbl.ideal_chain_maxlen \in Nat
    BY <1>3, TableFields
  <2> QED
    BY <1>1, <1>6, <2>1 DEF TableInv, BoundInv, Building
<1>16. /\ grown = [hh_head |-> thh, count |-> to.count + 1, expand_mult |-> k]
       /\ k \in Nat /\ k <= to.count + 1 /\ to.count + 1 <= (k + 1) * tbl.ideal_chain_maxlen
  <2>1. to.expand_mult <= to.count /\ WithinLimit(to, tbl.ideal_chain_maxlen)
    BY <1>11, <1>15
  <2> HIDE DEF to
  <2> QED
    BY <1>14, <1>15, <2>1, GrownBound
<1> HIDE DEF n, wider, thh, nb, to, new, from, unfit, rest, heads, heads2, k, grown
<1>17. more \in SUBSET Chained /\ more \in SUBSET Elements /\ IsFiniteSet(M)
       /\ Cardinality(more) = Cardinality(M) + 1 /\ Cardinality(more) \in Upto
  <2>1. more \in SUBSET Chained /\ more \in SUBSET Elements
    BY <1>4, <1>10 DEF rest
  <2>2. IsFiniteSet(M) /\ IsFiniteSet(more) /\ Cardinality(more) <= Cardinality(Elements)
    BY <2>1, Constants, FS_Subset
  <2>3. Cardinality(more) = Cardinality(M) + 1
    BY <1>10, <2>2, FS_AddElement
  <2>4. Cardinality(more) \in Nat
    BY <2>2, FS_CardinalityType
  <2> QED
    BY <2>1, <2>2, <2>3, <2>4, Constants DEF Upto
<1>18. ChainsOf(more, wider, heads2, hh_next', hh_prev')
  <2>1. M \in SUBSET Elements
    BY <1>17
  <2>2. thh \in Elements \ M
    BY <1>10
  <2>3. wider \in Nat
    BY <1>6
  <2>4. wider > 0
    BY <1>6
  <2>5. nb = HASH_TO_BKT(hashv(thh), wider)
    BY DEF nb
  <2>6. ChainsOf(M, wider, heads, hh_next, hh_prev)
    BY <1>12
  <2>7. PutFirst(thh, heads[nb], hh_next, hh_prev, hh_next', hh_prev')
    BY <1>13
  <2>8. \A b \in 0 .. wider - 1 : heads2[b] = IF b = nb THEN thh ELSE heads[b]
    BY DEF heads, heads2
  <2> QED
    BY <2>1, <2>2, <2>3, <2>4, <2>5, <2>6, <2>7, <2>8, BucketsPush
<1>19. ASSUME NEW b \in 0 .. wider - 1
       PROVE  Cardinality(Part(more, wider, b)) = IF b = nb THEN to.count + 1 ELSE grow.buckets[b].count
  <2>1. Cardinality(Part(more, wider, b)) = IF nb = b THEN Cardinality(Part(M, wider, b)) + 1
                                            ELSE Cardinality(Part(M, wider, b))
    BY <1>10, <1>17, PartGrows DEF nb
  <2> QED
    BY <1>12, <2>1 DEF to
<1>20. grown \in BucketSet /\ grown.hh_head = thh /\ grown.count = to.count + 1 /\ grown.expand_mult = k
  <2>1. Cardinality(Part(more, wider, nb)) \in Upto
    BY <1>6, <1>17, PartOK
  <2>2. to.count + 1 \in Upto
    BY <1>11, <1>19, <2>1
  <2>3. k \in Upto
    BY <1>16, <2>2, Constants DEF Upto
  <2>4. thh \in Links
    BY <1>10 DEF Links
  <2> QED
    BY <1>16, <2>2, <2>3, <2>4 DEF BucketSet
<1>21. /\ new \in Buckets(wider)
       /\ \A b \in 0 .. wider - 1 : new[b] = IF b = nb THEN grown ELSE grow.buckets[b]
  <2>1. new = [grow.buckets EXCEPT ![nb] = grown]
    BY DEF new, grown
  <2> QED
    BY <1>6, <1>7, <1>11, <1>20, <2>1, BucketChanged
<1>22. ASSUME NEW b \in 0 .. wider - 1
       PROVE  /\ new[b].hh_head = heads2[b] /\ new[b].count = Cardinality(Part(more, wider, b))
              /\ WithinLimit(new[b], tbl.ideal_chain_maxlen) /\ new[b].expand_mult <= new[b].count
  <2>1. CASE b = nb
    <3>1. new[b] = grown
      BY <1>21, <2>1
    <3>2. heads2[b] = thh /\ Cardinality(Part(more, wider, b)) = to.count + 1
      BY <1>19, <2>1 DEF heads2
    <3> QED
      BY <1>16, <1>20, <3>1, <3>2 DEF WithinLimit
  <2>2. CASE b # nb
    <3>1. new[b] = grow.buckets[b]
      BY <1>21, <2>2
    <3>2. heads2[b] = grow.buckets[b].hh_head /\ Cardinality(Part(more, wider, b)) = grow.buckets[b].count
      BY <1>19, <2>2 DEF heads2
    <3> QED
      BY <1>15, <3>1, <3>2
  <2> QED
    BY <2>1, <2>2
<1>23. NewBucketsOK(more, new, wider, hh_next', hh_prev')
  BY <1>18, <1>22 DEF NewBucketsOK, ChainsOf
<1>24. Left(Chained \ more, n, tbl.buckets, from, hh_next[thh], hh_next') /\ Chained \ more = rest \ {thh}
  <2>1. Chained \ more = rest \ {thh}
    BY DEF rest
  <2>2. \A d \in rest \ {thh} : hh_next'[d] = hh_next[d]
    BY <1>4, <1>13 DEF PutFirst, rest
  <2>3. rest \in SUBSET Elements
    BY <1>4 DEF rest
  <2>4. Left(rest \ {thh}, n, tbl.buckets, IF hh_next[thh] = NULL THEN grow.bkt + 1 ELSE grow.bkt,
             hh_next[thh], hh_next')
    BY <1>3, <1>9, <1>10, <2>2, <2>3, LeftAfter
  <2> QED
    BY <2>1, <2>4 DEF from
<1>25. from \in 0 .. n /\ (hh_next[thh] # NULL => from < n)
  BY <1>3, <1>9 DEF from
<1>26. unfit \in Nat /\ unfit <= Cardinality(more) /\ unfit \in Upto
  <2>1. tbl.nonideal_items <= Cardinality(M)
    BY <1>8 DEF Halfway
  <2>2. tbl.nonideal_items \in Nat
    BY <1>3, TableFields, UptoNat
  <2>3. Cardinality(M) \in Nat
    BY <1>17, FS_CardinalityType
  <2>4. unfit \in {tbl.nonideal_items, tbl.nonideal_items + 1}
    BY DEF unfit
  <2>5. unfit \in Nat /\ unfit <= Cardinality(more)
    BY <1>17, <2>1, <2>2, <2>3, <2>4
  <2> QED
    BY <1>17, <2>5, Constants DEF Upto
<1>27. /\ tbl' \in Tables(n, Buckets(n)) /\ tbl'.ideal_chain_maxlen = tbl.ideal_chain_maxlen
       /\ tbl'.nonideal_items = unfit /\ tbl'.num_buckets = n /\ tbl'.buckets = tbl.buckets
       /\ tbl'.noexpand = tbl.noexpand /\ tbl'.num_items = tbl.num_items /\ tbl'.tail = tbl.tail
       /\ tbl'.ineff_expands = tbl.ineff_expands
  BY <1>1, <1>3, <1>26 DEF Tables
<1>28. /\ grow'.buckets = new /\ grow'.bkt \in Nat /\ grow'.thh \in Links
       /\ grow' = [bkt |-> grow'.bkt, thh |-> grow'.thh, buckets |-> new]
       /\ \/ upc' = "free" /\ Chained = more
          \/ /\ upc' = "rethread" /\ grow'.bkt < n /\ grow'.thh # NULL
             /\ Left(Chained \ more, n, tbl.buckets, grow'.bkt, grow'.thh, hh_next')
  <2>0. tbl.num_buckets = n
    BY DEF n
  <2>1. CASE Chained \ more = {}
    <3>1. Chained = more
      BY <1>17, <2>1
    <3> DEFINE none == {}
               next_thh == hh_next[thh]
    <3>2. Left(none, tbl.num_buckets, tbl.buckets, from, next_thh, hh_next')
      BY <1>24, <2>0, <2>1
    <3>3. GoOn(from, next_thh, new)
      BY <1>1
    <3>4. from \in 0 .. tbl.num_buckets /\ (next_thh # NULL => from < tbl.num_buckets) /\ tbl.num_buckets \in Nat
      BY <1>3, <1>25, <2>0
    <3> HIDE DEF next_thh
    <3>5. upc' = "free" /\ grow' = [bkt |-> 0, thh |-> NULL, buckets |-> new]
      BY <3>2, <3>3, <3>4, GoOnEnds
    <3> QED
      BY <3>1, <3>5 DEF Links
  <2>2. CASE Chained \ more # {}
    <3> DEFINE S == Chained \ more
               next_thh == hh_next[thh]
    <3>1. S \in SUBSET Elements /\ S # {}
      BY <1>4, <2>2
    <3>2. Left(S, tbl.num_buckets, tbl.buckets, from, next_thh, hh_next')
      BY <1>24, <2>0
    <3>3. GoOn(from, next_thh, new)
      BY <1>1
    <3>4. /\ from \in 0 .. tbl.num_buckets /\ (next_thh # NULL => from < tbl.num_buckets)
          /\ tbl.num_buckets \in Nat /\ tbl.num_buckets > 0
      BY <1>3, <1>5, <1>25, <2>0
    <3> HIDE DEF next_thh, S
    <3>5. /\ upc' = "rethread" /\ grow' = [bkt |-> grow'.bkt, thh |-> grow'.thh, buckets |-> new]
          /\ grow'.bkt \in 0 .. tbl.num_buckets - 1 /\ grow'.thh \in Part(S, tbl.num_buckets, grow'.bkt)
          /\ Left(S, tbl.num_buckets, tbl.buckets, grow'.bkt, grow'.thh, hh_next')
      BY <3>1, <3>2, <3>3, <3>4, GoOnIs
    <3>6. grow'.thh \in Elements
      BY <3>1, <3>5 DEF Part
    <3>7. grow'.buckets = new
      BY <3>5
    <3> QED
      BY <1>3, <2>0, <3>5, <3>6, <3>7, Constants DEF Links, S
  <2> QED
    BY <2>1, <2>2
<1>29. NewSize' = wider /\ upc' \in Building
  BY <1>6, <1>1, <1>27, <1>28 DEF NewSize, Building, wider, n
<1>30. Linked' = Linked /\ Chained' = Chained
  BY <1>2, <1>4, <1>28 DEF Linked, Chained, Adding, Building
<1>31. ControlInv'
  BY <1>1, <1>2, <1>3, <1>28 DEF ControlInv, Adding, Building
<1>32. GrowOK'
  BY <1>21, <1>28, <1>29 DEF GrowOK
<1>33. LookOK'
  BY <1>2, <1>3, ObserveKeeps
<1>34. TblOK'
  BY <1>3, <1>27, <1>28 DEF TblOK
<1>35. LinksOK'
  BY <1>2, <1>3, <1>13, <1>28 DEF LinksOK, Adding, Building, list
<1>36. ListInv'
  <2>1. tbl' # NoTable
    BY <1>5, <1>27 DEF NoTable
  <2>2. head' = head /\ next' = next /\ prev' = prev
    BY <1>2 DEF list
  <2> QED
    BY <1>1, <1>3, <1>4, <1>5, <1>27, <1>28, <1>30, <2>1, <2>2 DEF ListInv
<1>37. ChainsInv'
  <2>1. to.hh_head = heads[nb]
    BY <1>11 DEF to, heads
  <2>2. ASSUME NEW d \in Elements
        PROVE  hh_next'[d] = NULL \/ (hh_next'[d] \in Chained' /\ d \in Chained')
    <3>1. CASE d = thh
      <4>1. hh_next'[d] = to.hh_head
        BY <1>13, <2>1, <3>1, <1>10 DEF PutFirst
      <4> QED
        BY <1>10, <1>14, <1>30, <3>1, <4>1 DEF rest
    <3>2. CASE d # thh
      <4>1. hh_next'[d] = hh_next[d]
        BY <1>13, <3>2 DEF PutFirst
      <4> QED
        BY <1>1, <1>30, <4>1 DEF ChainsInv, TableInv
    <3> QED
      BY <3>1, <3>2
  <2> QED
    BY <1>28, <1>29, <2>2 DEF ChainsInv
<1>38. RebuildInv'
  <2>1. NewBucketsOK(more, grow'.buckets, NewSize', hh_next', hh_prev')
    BY <1>23, <1>28, <1>29
  <2>2. CASE upc' = "free" /\ Chained = more
    <3>1. \A b \in 0 .. NewSize' - 1 :
            BucketOK(Part(Chained, NewSize, b), grow.buckets[b].hh_head, grow.buckets[b].count)'
      <4>1. Chained' = more
        BY <1>30, <2>2
      <4> QED
        BY <2>1, <4>1 DEF NewBucketsOK, BucketOK, Part
    <3> QED
      BY <2>2, <3>1 DEF RebuildInv
  <2>3. CASE upc' = "rethread"
    <3>1. more \in SUBSET Chained'
      BY <1>17, <1>30
    <3>2. Left(Chained' \ more, tbl'.num_buckets, tbl'.buckets, grow'.bkt, grow'.thh, hh_next')
      BY <1>27, <1>28, <1>30, <2>3
    <3>3. tbl'.nonideal_items <= Cardinality(more)
      BY <1>26, <1>27
    <3>4. grow'.bkt \in Nat /\ grow'.bkt < tbl'.num_buckets /\ grow'.thh # NULL /\ tbl'.num_buckets \in Nat
      BY <1>3, <1>27, <1>28, <2>3 DEF n
    <3>5. PICK U : U = more
      OBVIOUS
    <3> HIDE DEF more
    <3>6. U \in SUBSET Chained' /\ tbl'.nonideal_items <= Cardinality(U)
      BY <3>1, <3>3, <3>5
    <3>7. NewBucketsOK(U, grow'.buckets, NewSize', hh_next', hh_prev')
      BY <2>1, <3>5
    <3>8. Left(Chained' \ U, tbl'.num_buckets, tbl'.buckets, grow'.bkt, grow'.thh, hh_next')
      BY <3>2, <3>5
    <3>9. Halfway(U)'
      BY <3>4, <3>6, <3>7, <3>8, HalfwayIs
    <3> QED
      BY <2>3, <3>6, <3>9 DEF RebuildInv
  <2> QED
    BY <1>28, <2>2, <2>3
<1>39. BoundInv'
  <2>1. ASSUME NEW b \in 0 .. wider - 1
        PROVE  /\ WithinLimit(grow.buckets[b], tbl.ideal_chain_maxlen)'
               /\ grow'.buckets[b].expand_mult <= grow'.buckets[b].count
    BY <1>22, <1>27, <1>28 DEF WithinLimit
  <2> QED
    BY <1>15, <1>27, <1>28, <1>29, <2>1 DEF BoundInv, Building
<1> QED
  BY <1>31, <1>32, <1>33, <1>34, <1>35, <1>36, <1>37, <1>38, <1>39, TypeParts, PTL DEF TableInv

LEMMA FreeBucketsKeeps ==
  ASSUME TableInv, FreeBuckets
  PROVE  TableInv'
<1> DEFINE n == tbl.num_buckets
           wider == 2 * n
<1>1. /\ upc = "free" /\ upc' = "swap" /\ tbl' = [tbl EXCEPT !.buckets = <<>>, !.num_buckets = wider]
      /\ UNCHANGED <<list, hh_prev, hh_next, entries, elem, grow>> /\ Observe
  BY DEF FreeBuckets
<1>2. /\ n \in Nat /\ (tbl # NoTable <=> n > 0) /\ tbl \in Tables(n, Buckets(n)) /\ elem \in Elements
      /\ TblOK /\ GrowOK /\ LinksOK /\ LookOK /\ ControlInv /\ ListInv
  BY <1>1, TableIs
<1>3. Linked = entries \cup {elem} /\ Chained = entries \cup {elem}
  BY <1>1 DEF Linked, Chained, Adding, Building
<1>4. n > 0 /\ tbl # NoTable
  BY <1>1, <1>2, <1>3 DEF ListInv
<1>5. wider \in Nat /\ wider > 0 /\ NewSize = wider
  BY <1>1, <1>2, <1>4 DEF NewSize
<1> HIDE DEF wider
<1>6. /\ tbl' \in Tables(wider, {<<>>}) /\ tbl'.num_buckets = wider /\ tbl'.num_items = tbl.num_items
      /\ tbl'.tail = tbl.tail /\ tbl'.ideal_chain_maxlen = tbl.ideal_chain_maxlen
      /\ tbl'.noexpand = tbl.noexpand /\ tbl'.ineff_expands = tbl.ineff_expands
  BY <1>1, <1>2, <1>5 DEF Tables
<1>7. NewSize' = wider
  BY <1>1, <1>6 DEF NewSize
<1>8. Linked' = Linked /\ Chained' = Chained
  BY <1>1, <1>3 DEF Linked, Chained, Adding, Building
<1>9. ControlInv'
  BY <1>1, <1>2 DEF ControlInv, Adding, Building
<1>10. GrowOK'
  BY <1>1, <1>2, <1>5, <1>7 DEF GrowOK, Building
<1>11. LookOK'
  BY <1>1, <1>2, ObserveKeeps
<1>12. TblOK'
  BY <1>1, <1>5, <1>6 DEF TblOK
<1>13. LinksOK'
  BY <1>1, <1>2 DEF LinksOK, Adding, Building, list
<1>14. ListInv'
  <2>1. tbl' # NoTable
    BY <1>5, <1>6 DEF NoTable
  <2>2. head' = head /\ next' = next /\ prev' = prev
    BY <1>1 DEF list
  <2> QED
    BY <1>1, <1>2, <1>3, <1>4, <1>5, <1>6, <1>8, <2>1, <2>2 DEF ListInv
<1>15. ChainsInv'
  <2>1. \A d \in Elements : hh_next'[d] = NULL \/ (hh_next'[d] \in Chained' /\ d \in Chained')
    BY <1>1, <1>8 DEF ChainsInv, TableInv
  <2> QED
    BY <1>1, <2>1 DEF ChainsInv, Building
<1>16. RebuildInv'
  <2>1. ASSUME NEW b \in 0 .. wider - 1
        PROVE  BucketOK(Part(Chained, wider, b), grow.buckets[b].hh_head, grow.buckets[b].count)
    BY <1>1, <1>5 DEF TableInv, RebuildInv
  <2>2. ASSUME NEW b \in 0 .. NewSize' - 1
        PROVE  BucketOK(Part(Chained, NewSize, b), grow.buckets[b].hh_head, grow.buckets[b].count)'
    BY <1>1, <1>7, <1>8, <2>1 DEF BucketOK, Part
  <2> QED
    BY <1>1, <2>2 DEF RebuildInv
<1>17. BoundInv'
  <2>1. /\ ~tbl.noexpand /\ tbl.ideal_chain_maxlen > 0 /\ tbl.ineff_expands <= 1
        /\ \A b \in 0 .. wider - 1 : /\ WithinLimit(grow.buckets[b], tbl.ideal_chain_maxlen)
                                     /\ grow.buckets[b].expand_mult <= grow.buckets[b].count
    BY <1>1, <1>5 DEF TableInv, BoundInv, Building
  <2> QED
    BY <1>1, <1>6, <1>7, <2>1 DEF BoundInv, Building, WithinLimit
<1> QED
  BY <1>9, <1>10, <1>11, <1>12, <1>13, <1>14, <1>15, <1>16, <1>17, TypeParts, PTL DEF TableInv

LEMMA SwapBucketsKeeps ==
  ASSUME TableInv, SwapBuckets
  PROVE  TableInv'
<1> DEFINE n == tbl.num_buckets
           ineff == IF tbl.nonideal_items > tbl.num_items \div 2 THEN tbl.ineff_expands + 1 ELSE 0
<1>1. /\ upc = "swap" /\ upc' = "idle" /\ entries' = entries \cup {elem} /\ elem' = NULL /\ grow' = NoGrowth
      /\ tbl' = [tbl EXCEPT !.buckets = grow.buckets, !.ineff_expands = ineff,
                            !.noexpand = tbl.noexpand \/ ineff > 1]
      /\ UNCHANGED <<list, hh_prev, hh_next>> /\ Observe
  BY DEF SwapBuckets, UpdateEnds
<1>2. /\ n \in Nat /\ (tbl # NoTable <=> n > 0) /\ elem \in Elements
      /\ TblOK /\ GrowOK /\ LinksOK /\ LookOK /\ ControlInv /\ ListInv
  BY <1>1, TableIs
<1>3. Linked = entries \cup {elem} /\ Chained = entries \cup {elem}
  BY <1>1 DEF Linked, Chained, Adding, Building
<1>4. n > 0 /\ tbl # NoTable
  BY <1>1, <1>2, <1>3 DEF ListInv
<1>5. NewSize = n /\ grow.buckets \in Buckets(n) /\ tbl \in Tables(n, {<<>>})
  BY <1>1, <1>2 DEF NewSize, GrowOK, Building, TblOK
<1>6. /\ ~tbl.noexpand /\ tbl.ideal_chain_maxlen > 0 /\ tbl.ineff_expands <= 1
      /\ \A b \in 0 .. n - 1 : WithinLimit(grow.buckets[b], tbl.ideal_chain_maxlen)
  BY <1>1, <1>5 DEF TableInv, BoundInv, Building
<1>7. ineff \in 0 .. 2
  <2>1. tbl.ineff_expands \in 0 .. 2
    BY <1>2, <1>5, TableFields
  <2>2. ineff \in {0, tbl.ineff_expands + 1}
    OBVIOUS
  <2> HIDE DEF ineff
  <2> QED
    BY <1>6, <2>1, <2>2
<1> HIDE DEF ineff, n
<1>8. /\ tbl' \in Tables(n, Buckets(n)) /\ tbl'.num_buckets = n /\ tbl'.num_items = tbl.num_items
      /\ tbl'.tail = tbl.tail /\ tbl'.ideal_chain_maxlen = tbl.ideal_chain_maxlen
      /\ tbl'.buckets = grow.buckets /\ tbl'.ineff_expands = ineff /\ (~tbl'.noexpand => ineff <= 1)
  <2> DEFINE off == tbl.noexpand \/ ineff > 1
  <2>1. off \in BOOLEAN /\ (~off => ineff <= 1)
    BY <1>7
  <2>2. tbl' = [tbl EXCEPT !.buckets = grow.buckets, !.ineff_expands = ineff, !.noexpand = off]
    BY <1>1
  <2> HIDE DEF off
  <2>3. tbl'.noexpand = off
    BY <1>5, <2>2 DEF Tables
  <2> QED
    BY <1>5, <1>7, <2>1, <2>2, <2>3 DEF Tables
<1>9. Linked' = Linked /\ Chained' = Chained
  BY <1>1, <1>3 DEF Linked, Chained, Adding, Building
<1>10. ControlInv'
  BY <1>1, Constants DEF ControlInv, Adding, Building
<1>11. GrowOK'
  BY <1>1 DEF GrowOK, Building, NoGrowth, Links
<1>12. LookOK'
  BY <1>1, <1>2, ObserveKeeps
<1>13. TblOK'
  BY <1>1, <1>2, <1>8 DEF TblOK, n
<1>14. LinksOK'
  <2>1. entries' \in SUBSET Elements /\ elem' \in Links
    BY <1>1, <1>2 DEF LinksOK, Links
  <2> QED
    BY <1>1, <1>2, <2>1 DEF LinksOK, list
<1>15. ListInv'
  <2>1. tbl' # NoTable
    BY <1>4, <1>8 DEF NoTable
  <2>2. head' = head /\ next' = next /\ prev' = prev
    BY <1>1 DEF list
  <2> QED
    BY <1>1, <1>2, <1>3, <1>4, <1>8, <1>9, <2>1, <2>2 DEF ListInv, n
<1>16. ASSUME NEW b \in 0 .. n - 1
       PROVE  BucketOK(Part(Chained, tbl.num_buckets, b), FirstIn(b), tbl.buckets[b].count)'
  <2>1. BucketOK(Part(Chained, n, b), grow.buckets[b].hh_head, grow.buckets[b].count)
    BY <1>1, <1>5 DEF TableInv, RebuildInv
  <2>2. FirstIn(b)' = grow.buckets[b].hh_head /\ tbl'.buckets[b].count = grow.buckets[b].count
    BY <1>1, <1>8 DEF FirstIn
  <2>3. Part(Chained, tbl.num_buckets, b)' = Part(Chained, n, b)
    BY <1>8, <1>9 DEF Part
  <2> QED
    BY <1>1, <2>1, <2>2, <2>3 DEF BucketOK
<1>17. ChainsInv'
  <2>1. \A d \in Elements : hh_next'[d] = NULL \/ (hh_next'[d] \in Chained' /\ d \in Chained')
    BY <1>1, <1>9 DEF ChainsInv, TableInv
  <2> QED
    BY <1>1, <1>8, <1>16, <2>1 DEF ChainsInv
<1>18. RebuildInv'
  BY <1>1 DEF RebuildInv
<1>19. BoundInv'
  BY <1>1, <1>6, <1>8 DEF BoundInv, Building, WithinLimit
<1> QED
  BY <1>10, <1>11, <1>12, <1>13, <1>14, <1>15, <1>17, <1>18, <1>19, TypeParts, PTL DEF TableInv

-----------------------------------------------------------------------------
(* Deletions                                                               *)

\* An element of the list has a neighbour unless it is the only one.
LEMMA Neighbours ==
  ASSUME TableInv, Linked = entries, NEW e \in entries
  PROVE  /\ prev[e] = NULL <=> e = head
         /\ prev[e] # NULL => prev[e] \in entries \ {e} /\ next[prev[e]] = e
         /\ next[e] \in (entries \ {e}) \cup {NULL}
         /\ prev[e] = NULL /\ next[e] = NULL <=> entries = {e}
<1>1. Chain(entries, head, next) /\ Back(entries, head, next, prev)
  BY DEF TableInv, ListInv
<1>2. entries \in SUBSET Elements /\ NULL \notin entries
  BY TableIs, Constants DEF LinksOK
<1>3. /\ head \in entries /\ (e = head => prev[e] = NULL)
      /\ e # head => prev[e] \in entries /\ next[prev[e]] = e
  BY <1>1 DEF Chain, Back
<1>4. \A d \in entries : next[d] # d
  BY <1>1, <1>2, NoLoop
<1>5. next[e] \in entries \cup {NULL} /\ next[e] # head
  BY <1>1, <1>2, ChainLinks
<1>6. ASSUME prev[e] = NULL, next[e] = NULL PROVE entries = {e}
  <2> DEFINE T == {e}
  <2>1. T \in SUBSET entries /\ head \in T /\ \A d \in T : next[d] \in T \cup {NULL}
    BY <1>2, <1>3, <1>6
  <2>2. entries = T
    BY <1>1, <2>1 DEF Chain
  <2> QED
    BY <2>2
<1> QED
  BY <1>2, <1>3, <1>4, <1>5, <1>6

LEMMA UnlinkElementKeeps ==
  ASSUME TableInv, NEW e \in Elements, UnlinkElement(e)
  PROVE  TableInv'
<1> DEFINE n == tbl.num_buckets
           last == TailAfter(e)
<1>1. /\ upc = "idle" /\ e \in entries /\ (prev[e] # NULL \/ next[e] # NULL)
      /\ upc' = "del_in_bkt" /\ elem' = e /\ tbl' = [tbl EXCEPT !.tail = last]
      /\ head' = IF prev[e] = NULL THEN next[e] ELSE head
      /\ next' = [a \in Elements |-> IF a = prev[e] THEN next[e] ELSE next[a]]
      /\ prev' = [a \in Elements |-> IF a = next[e] THEN prev[e] ELSE prev[a]]
      /\ UNCHANGED <<hh_prev, hh_next, entries, grow>> /\ Observe
  BY DEF UnlinkElement
<1>2. /\ n \in Nat /\ (tbl # NoTable <=> n > 0) /\ tbl \in Tables(n, Buckets(n))
      /\ TblOK /\ GrowOK /\ LinksOK /\ LookOK /\ ControlInv /\ ListInv
  BY <1>1, TableIs
<1>3. Linked = entries /\ Chained = entries /\ Linked' = entries \ {e} /\ Chained' = entries
  BY <1>1 DEF Linked, Chained, Adding, Building
<1>4. entries \in SUBSET Elements /\ next \in [Elements -> Links] /\ prev \in [Elements -> Links]
  BY <1>2 DEF LinksOK
<1>5. n > 0 /\ tbl # NoTable /\ tbl.tail \in entries /\ next[tbl.tail] = NULL /\ tbl.num_items = Cardinality(entries)
  BY <1>1, <1>2, <1>3 DEF ListInv
<1>6. /\ prev[e] = NULL <=> e = head
      /\ prev[e] # NULL => prev[e] \in entries \ {e} /\ next[prev[e]] = e
      /\ next[e] \in (entries \ {e}) \cup {NULL} /\ entries # {e}
  BY <1>1, <1>3, Neighbours
<1>7. last \in entries \ {e} /\ next'[last] = NULL
  <2>1. CASE tbl.tail = e
    <3>1. last = prev[e] /\ next[e] = NULL
      BY <1>5, <2>1 DEF TailAfter
    <3> QED
      BY <1>1, <1>4, <1>6, <3>1
  <2>2. CASE tbl.tail # e
    <3>1. last = tbl.tail
      BY <2>2 DEF TailAfter
    <3>2. tbl.tail # prev[e]
      <4>1. tbl.tail # NULL /\ next[tbl.tail] # e
        BY <1>4, <1>5, Constants
      <4> HIDE DEF last
      <4> QED
        BY <1>6, <4>1
    <3> QED
      BY <1>1, <1>4, <1>5, <2>2, <3>1, <3>2
  <2> QED
    BY <2>1, <2>2
<1>8. last \in Links
  BY <1>4, <1>7 DEF Links
<1> HIDE DEF n, last
<1>9. /\ tbl' \in Tables(n, Buckets(n)) /\ SameSizes(tbl, tbl') /\ tbl'.tail = last
      /\ tbl'.num_items = tbl.num_items /\ tbl'.buckets = tbl.buckets
  <2>1. tbl' = [tbl EXCEPT !.tail = last]
    BY <1>1
  <2> QED
    BY <1>2, <1>8, <2>1, TailChanged
<1>10. tbl'.num_buckets = n
  BY <1>9 DEF SameSizes, n
<1>11. Chain(entries \ {e}, head', next') /\ Back(entries \ {e}, head', next', prev')
  <2>1. Chain(entries, head, next) /\ Back(entries, head, next, prev)
    BY <1>2, <1>3 DEF ListInv
  <2>2. TakenOut(entries, e, next, prev, next', prev')
    BY <1>1, <1>4 DEF TakenOut
  <2>3. head' = IF head = e THEN next[e] ELSE head
    BY <1>1, <1>6
  <2>4. e \in entries
    BY <1>1
  <2>5. entries \in SUBSET Elements
    BY <1>4
  <2> QED
    BY <2>1, <2>2, <2>3, <2>4, <2>5, ChainRemove
<1>12. ControlInv'
  BY <1>1, <1>4, <1>6, Constants DEF ControlInv, Adding, Building
<1>13. GrowOK'
  BY <1>1, <1>2 DEF GrowOK, Building
<1>14. LookOK'
  BY <1>1, <1>2, ObserveKeeps
<1>15. TblOK'
  BY <1>1, <1>2, <1>9, <1>10 DEF TblOK, n
<1>16. LinksOK'
  <2>1. head' \in Links /\ elem' \in Links
    BY <1>1, <1>2, <1>4 DEF LinksOK, Links
  <2>2. next' \in [Elements -> Links] /\ prev' \in [Elements -> Links]
    BY <1>1, <1>4
  <2> QED
    BY <1>1, <1>2, <2>1, <2>2 DEF LinksOK
<1>17. ListInv'
  <2>1. tbl' # NoTable
    BY <1>5, <1>10 DEF NoTable, n
  <2>2. entries \ {e} # {}
    BY <1>7
  <2> QED
    BY <1>1, <1>3, <1>5, <1>7, <1>9, <1>10, <1>11, <2>1, <2>2 DEF ListInv, n
<1>18. ASSUME NEW b \in 0 .. n - 1
       PROVE  BucketOK(Part(Chained, tbl.num_buckets, b), FirstIn(b), tbl.buckets[b].count)'
  <2>1. BucketOK(Part(Chained, n, b), FirstIn(b), tbl.buckets[b].count)
    BY <1>1, <1>5 DEF TableInv, ChainsInv, Building, n
  <2>2. FirstIn(b)' = FirstIn(b) /\ tbl'.buckets[b].count = tbl.buckets[b].count
    BY <1>1, <1>9 DEF FirstIn
  <2>3. Part(Chained, tbl.num_buckets, b)' = Part(Chained, n, b)
    BY <1>3, <1>10 DEF Part
  <2> QED
    BY <1>1, <2>1, <2>2, <2>3 DEF BucketOK
<1>19. ChainsInv'
  <2>1. \A d \in Elements : hh_next'[d] = NULL \/ (hh_next'[d] \in Chained' /\ d \in Chained')
    BY <1>1, <1>3 DEF ChainsInv, TableInv
  <2> QED
    BY <1>1, <1>10, <1>18, <2>1 DEF ChainsInv
<1>20. RebuildInv'
  BY <1>1 DEF RebuildInv
<1>21. BoundInv'
  BY <1>1, <1>9, <1>10 DEF BoundInv, Building, TableInv, SameSizes, WithinLimit, n
<1> QED
  BY <1>12, <1>13, <1>14, <1>15, <1>16, <1>17, <1>19, <1>20, <1>21, TypeParts, PTL DEF TableInv

LEMMA FreeTableKeeps ==
  ASSUME TableInv, NEW e \in Elements, FreeTable(e)
  PROVE  TableInv'
<1>1. /\ upc = "idle" /\ e \in entries /\ prev[e] = NULL /\ next[e] = NULL
      /\ upc' = "clear_head" /\ elem' = e /\ tbl' = NoTable
      /\ UNCHANGED <<list, hh_prev, hh_next, entries, grow>> /\ Observe
  BY DEF FreeTable
<1>2. TblOK /\ GrowOK /\ LinksOK /\ LookOK /\ ControlInv /\ ListInv
      /\ tbl.num_buckets \in Nat /\ (tbl # NoTable <=> tbl.num_buckets > 0)
  BY TableIs
<1>3. Linked = entries /\ Chained = entries /\ Linked' = entries /\ Chained' = entries
  BY <1>1 DEF Linked, Chained, Adding, Building
<1>4. entries = {e}
  BY <1>1, <1>3, Neighbours
<1>5. hh_next[e] = NULL
  <2> DEFINE n == tbl.num_buckets
             b == HASH_TO_BKT(hashv(e), n)
  <2>1. n > 0 /\ tbl # NoTable
    BY <1>1, <1>2, <1>3 DEF ListInv
  <2>2. b \in 0 .. n - 1
    BY <1>2, <2>1, Hashed
  <2>3. Chain(Part(entries, n, b), FirstIn(b), hh_next)
    BY <1>1, <1>3, <2>1, <2>2 DEF TableInv, ChainsInv, Building, BucketOK
  <2>4. e \in Part(entries, n, b) /\ Part(entries, n, b) \in SUBSET Elements
    BY <1>1, <1>2 DEF Part, LinksOK
  <2>5. hh_next[e] # e
    BY <2>3, <2>4, NoLoop
  <2>6. hh_next[e] \in entries \cup {NULL}
    BY <1>1, <1>3 DEF TableInv, ChainsInv
  <2> QED
    BY <1>4, <2>5, <2>6
<1>6. /\ NoTable.num_buckets = 0 /\ NoTable.noexpand = FALSE /\ NoTable.ineff_expands = 0
      /\ NoTable \in Tables(0, Buckets(0))
  <2>1. <<>> \in Buckets(0)
    BY DEF Buckets
  <2>2. NULL \in Links
    BY DEF Links
  <2> QED
    BY <2>1, <2>2, UptoNat DEF NoTable, Tables
<1>7. ControlInv'
  BY <1>1, <1>4, <1>5, Constants DEF ControlInv, Adding, Building
<1>8. GrowOK'
  BY <1>1, <1>2 DEF GrowOK, Building
<1>9. LookOK'
  BY <1>1, <1>2, ObserveKeeps
<1>10. TblOK'
  BY <1>1, <1>6 DEF TblOK
<1>11. LinksOK'
  BY <1>1, <1>2 DEF LinksOK, Links, list
<1>12. ListInv'
  <2>1. head' = head /\ next' = next /\ prev' = prev
    BY <1>1 DEF list
  <2> QED
    BY <1>1, <1>2, <1>3, <2>1 DEF ListInv
<1>13. ChainsInv'
  <2>1. \A d \in Elements : hh_next'[d] = NULL \/ (hh_next'[d] \in Chained' /\ d \in Chained')
    BY <1>1, <1>3 DEF ChainsInv, TableInv
  <2> QED
    BY <1>1, <2>1 DEF ChainsInv
<1>14. RebuildInv'
  BY <1>1 DEF RebuildInv
<1>15. BoundInv'
  BY <1>1, <1>6 DEF BoundInv, Building
<1> QED
  BY <1>7, <1>8, <1>9, <1>10, <1>11, <1>12, <1>13, <1>14, <1>15, TypeParts, PTL DEF TableInv

LEMMA ClearHeadKeeps ==
  ASSUME TableInv, ClearHead
  PROVE  TableInv'
<1>1. /\ upc = "clear_head" /\ upc' = "close" /\ head' = NULL /\ entries' = entries \ {elem}
      /\ elem' = elem /\ grow' = NoGrowth
      /\ UNCHANGED <<tbl, prev, next, hh_prev, hh_next>> /\ Observe
  BY DEF ClearHead, UpdateEnds
<1>2. /\ TblOK /\ GrowOK /\ LinksOK /\ LookOK /\ ControlInv /\ ListInv /\ elem \in Elements
      /\ tbl.num_buckets \in Nat /\ (tbl # NoTable <=> tbl.num_buckets > 0)
  BY <1>1, TableIs
<1>3. entries = {elem} /\ hh_next[elem] = NULL /\ entries' = {}
  BY <1>1, <1>2 DEF ControlInv
<1>4. Linked' = {} /\ Chained = {elem} /\ Chained' = {}
  BY <1>1, <1>3 DEF Linked, Chained, Adding, Building
<1>5. ControlInv'
  BY <1>1, <1>2, <1>3, Constants DEF ControlInv, Adding, Building
<1>6. GrowOK'
  BY <1>1 DEF GrowOK, Building, NoGrowth, Links
<1>7. LookOK'
  BY <1>1, <1>2, ObserveKeeps
<1>8. TblOK'
  BY <1>1, <1>2 DEF TblOK
<1>9. LinksOK'
  BY <1>1, <1>2, <1>3 DEF LinksOK, Links
<1>10. tbl' = NoTable
  BY <1>1, <1>2 DEF ListInv
<1>11. ListInv'
  BY <1>1, <1>4, <1>10, ChainEmpty DEF ListInv
<1>12. ChainsInv'
  <2>1. \A d \in Elements : hh_next[d] = NULL
    BY <1>1, <1>3, <1>4 DEF ChainsInv, TableInv
  <2> QED
    BY <1>1, <1>10, <2>1 DEF ChainsInv
<1>13. RebuildInv'
  BY <1>1 DEF RebuildInv
<1>14. BoundInv'
  <2>1. NoTable.num_buckets = 0 /\ NoTable.noexpand = FALSE /\ NoTable.ineff_expands = 0
    BY DEF NoTable
  <2> QED
    BY <1>1, <1>10, <2>1 DEF BoundInv, Building
<1> QED
  BY <1>5, <1>6, <1>7, <1>8, <1>9, <1>11, <1>12, <1>13, <1>14, TypeParts, PTL DEF TableInv

LEMMA PartShrinks ==
  ASSUME NEW S \in SUBSET Elements, NEW n, NEW e \in S, NEW b
  PROVE  Cardinality(Part(S \ {e}, n, b))
           = IF HASH_TO_BKT(hashv(e), n) = b THEN Cardinality(Part(S, n, b)) - 1 ELSE Cardinality(Part(S, n, b))
<1>1. /\ Part(S \ {e}, n, b)
           = IF HASH_TO_BKT(hashv(e), n) = b THEN Part(S, n, b) \ {e} ELSE Part(S, n, b)
      /\ Part(S, n, b) \in SUBSET Elements /\ (HASH_TO_BKT(hashv(e), n) = b => e \in Part(S, n, b))
  BY DEF Part
<1>2. IsFiniteSet(Part(S, n, b))
  BY <1>1, Constants, FS_Subset
<1> QED
  BY <1>1, <1>2, FS_RemoveElement

\* One element is taken out of its bucket.
LEMMA BucketsRemove ==
  ASSUME NEW S \in SUBSET Elements, NEW n \in Nat, n > 0, NEW e \in S,
         NEW heads, NEW link, NEW back, NEW link2, NEW back2, NEW heads2,
         NEW to, to = HASH_TO_BKT(hashv(e), n),
         ChainsOf(S, n, heads, link, back), TakenOut(Elements, e, link, back, link2, back2),
         \A b \in 0 .. n - 1 : heads2[b] = IF b = to /\ heads[b] = e THEN link[e] ELSE heads[b]
  PROVE  ChainsOf(S \ {e}, n, heads2, link2, back2)
<1>1. to \in 0 .. n - 1
  BY Hashed
<1>2. ASSUME NEW b
      PROVE  /\ Part(S, n, b) \in SUBSET S
             /\ \A d \in S : d \in Part(S, n, b) <=> HASH_TO_BKT(hashv(d), n) = b
             /\ Part(S \ {e}, n, b) = IF to = b THEN Part(S, n, b) \ {e} ELSE Part(S, n, b)
  BY DEF Part
<1> DEFINE P == Part(S, n, to)
<1>3. e \in P /\ P \in SUBSET Elements /\ Chain(P, heads[to], link) /\ Back(P, heads[to], link, back)
  BY <1>1, <1>2 DEF ChainsOf
<1>4. link[e] \in P \cup {NULL} /\ back[e] \in P \cup {NULL}
  <2> HIDE DEF P
  <2>1. link[e] \in P \cup {NULL}
    BY <1>3, ChainLinks
  <2>2. back[e] \in P \cup {NULL}
    BY <1>3 DEF Back
  <2> QED
    BY <2>1, <2>2
<1>5. ASSUME NEW b \in 0 .. n - 1, b = to
      PROVE  Chain(Part(S \ {e}, n, b), heads2[b], link2) /\ Back(Part(S \ {e}, n, b), heads2[b], link2, back2)
  <2>1. Part(S \ {e}, n, b) = P \ {e}
    BY <1>2, <1>5
  <2>2. TakenOut(P, e, link, back, link2, back2)
    BY <1>3 DEF TakenOut
  <2> DEFINE first == heads[to]
             first2 == heads2[to]
  <2>3. first2 = IF first = e THEN link[e] ELSE first
    BY <1>1
  <2>4. Chain(P, first, link) /\ Back(P, first, link, back)
    BY <1>3
  <2> HIDE DEF P, first, first2
  <2>5. Chain(P \ {e}, first2, link2) /\ Back(P \ {e}, first2, link2, back2)
    BY <1>3, <2>2, <2>3, <2>4, ChainRemove
  <2> QED
    BY <1>5, <2>1, <2>5 DEF first2
<1>6. ASSUME NEW b \in 0 .. n - 1, b # to
      PROVE  Chain(Part(S \ {e}, n, b), heads2[b], link2) /\ Back(Part(S \ {e}, n, b), heads2[b], link2, back2)
  <2> DEFINE Q == Part(S, n, b)
  <2>1. Part(S \ {e}, n, b) = Q /\ Q \in SUBSET Elements
    BY <1>2, <1>6
  <2>2. ASSUME NEW d \in Q PROVE d # link[e] /\ d # back[e]
    <3>1. d \notin P /\ d # NULL
      BY <1>2, <1>6, Constants
    <3> QED
      BY <1>4, <3>1
  <2>3. \A d \in Q : link2[d] = link[d] /\ back2[d] = back[d]
    BY <2>1, <2>2 DEF TakenOut
  <2>4. Chain(Q, heads[b], link) /\ Back(Q, heads[b], link, back) /\ heads2[b] = heads[b]
    BY <1>6 DEF ChainsOf
  <2> HIDE DEF Q
  <2>5. Chain(Q, heads[b], link2) /\ Back(Q, heads[b], link2, back2)
    BY <2>3, <2>4, ChainFrame
  <2> QED
    BY <2>1, <2>4, <2>5 DEF Q
<1>7. \A b \in 0 .. n - 1 :
        Chain(Part(S \ {e}, n, b), heads2[b], link2) /\ Back(Part(S \ {e}, n, b), heads2[b], link2, back2)
  BY <1>5, <1>6
<1> QED
  BY <1>7 DEF ChainsOf

LEMMA DelInBktKeeps ==
  ASSUME TableInv, DelInBkt
  PROVE  TableInv'
<1> DEFINE n == tbl.num_buckets
           to == ElemBkt
           fewer == tbl.num_items - 1
           shorter == tbl.buckets[to].count - 1
           first == IF tbl.buckets[to].hh_head = elem THEN hh_next[elem] ELSE tbl.buckets[to].hh_head
           left == entries \ {elem}
<1>1. /\ upc = "del_in_bkt" /\ upc' = "close" /\ entries' = left /\ elem' = elem /\ grow' = NoGrowth
      /\ hh_next' = Bypass(elem)
      /\ hh_prev' = [a \in Elements |-> IF a = hh_next[elem] THEN hh_prev[elem] ELSE hh_prev[a]]
      /\ UNCHANGED list /\ Observe
  BY DEF DelInBkt, UpdateEnds
<1>2. /\ n \in Nat /\ (tbl # NoTable <=> n > 0) /\ tbl \in Tables(n, Buckets(n)) /\ elem \in Elements
      /\ TblOK /\ GrowOK /\ LinksOK /\ LookOK /\ ControlInv /\ ListInv
  BY <1>1, TableIs
<1>3. /\ Linked = left /\ Chained = entries /\ Linked' = left /\ Chained' = left
      /\ elem \in entries /\ entries # {elem} /\ entries \in SUBSET Elements
  BY <1>1, <1>2 DEF Linked, Chained, Adding, Building, ControlInv, LinksOK
<1>4. n > 0 /\ tbl # NoTable /\ tbl.num_items = Cardinality(entries)
      /\ tbl.tail \in left /\ next[tbl.tail] = NULL
  BY <1>1, <1>2, <1>3 DEF ListInv
<1>5. to \in 0 .. n - 1 /\ to = HASH_TO_BKT(hashv(elem), n)
  BY <1>2, <1>4, TableIs DEF ElemBkt
<1> DEFINE heads == [b \in 0 .. n - 1 |-> tbl.buckets[b].hh_head]
           heads2 == [b \in 0 .. n - 1 |-> IF b = to THEN first ELSE tbl.buckets[b].hh_head]
<1>6. /\ ChainsOf(entries, n, heads, hh_next, hh_prev)
      /\ \A b \in 0 .. n - 1 : tbl.buckets[b].count = Cardinality(Part(entries, n, b))
  <2>1. ASSUME NEW b \in 0 .. n - 1
        PROVE  /\ Chain(Part(entries, n, b), heads[b], hh_next)
               /\ Back(Part(entries, n, b), heads[b], hh_next, hh_prev)
               /\ tbl.buckets[b].count = Cardinality(Part(entries, n, b))
    BY <1>1, <1>3, <1>4 DEF TableInv, ChainsInv, Building, BucketOK, FirstIn
  <2> HIDE DEF heads
  <2> QED
    BY <2>1 DEF ChainsOf
<1>7. /\ hh_next' \in [Elements -> Links] /\ hh_prev' \in [Elements -> Links]
      /\ TakenOut(Elements, elem, hh_next, hh_prev, hh_next', hh_prev')
  <2>1. hh_next \in [Elements -> Links] /\ hh_prev \in [Elements -> Links]
    BY <1>2 DEF LinksOK
  <2> QED
    BY <1>1, <1>2, <2>1 DEF TakenOut, Bypass
<1>8. \A b \in 0 .. n - 1 : heads2[b] = IF b = to /\ heads[b] = elem THEN hh_next[elem] ELSE heads[b]
  OBVIOUS
<1> HIDE DEF n, to, fewer, shorter, first, left, heads, heads2
<1>9. ChainsOf(left, n, heads2, hh_next', hh_prev')
  <2>1. n \in Nat
    BY <1>2
  <2>2. n > 0
    BY <1>4
  <2>3. entries \in SUBSET Elements
    BY <1>3
  <2>4. elem \in entries
    BY <1>3
  <2>5. to = HASH_TO_BKT(hashv(elem), n)
    BY <1>5
  <2>6. ChainsOf(entries, n, heads, hh_next, hh_prev)
    BY <1>6
  <2>7. TakenOut(Elements, elem, hh_next, hh_prev, hh_next', hh_prev')
    BY <1>7
  <2>8. ChainsOf(entries \ {elem}, n, heads2, hh_next', hh_prev')
    BY <1>8, <2>1, <2>2, <2>3, <2>4, <2>5, <2>6, <2>7, BucketsRemove
  <2> QED
    BY <2>8 DEF left
<1>10. ASSUME NEW b \in 0 .. n - 1
       PROVE  Cardinality(Part(left, n, b)) = IF b = to THEN shorter ELSE tbl.buckets[b].count
  <2>1. Cardinality(Part(left, n, b)) = IF to = b THEN Cardinality(Part(entries, n, b)) - 1
                                        ELSE Cardinality(Part(entries, n, b))
    BY <1>3, <1>5, PartShrinks DEF left
  <2> QED
    BY <1>6, <2>1 DEF shorter
<1>11. fewer \in Upto /\ shorter \in Upto /\ fewer = Cardinality(left)
  <2>1. IsFiniteSet(entries) /\ left \in SUBSET Elements
    BY <1>3, Constants, FS_Subset DEF left
  <2>2. fewer = Cardinality(left)
    BY <1>3, <1>4, <2>1, FS_RemoveElement DEF fewer, left
  <2>3. Cardinality(left) <= Cardinality(Elements) /\ Cardinality(left) \in Nat
    BY <2>1, Constants, FS_Subset, FS_CardinalityType
  <2>4. Cardinality(Part(left, n, to)) \in Upto
    BY <1>2, <1>4, <2>1, PartOK
  <2> QED
    BY <1>5, <1>10, <2>2, <2>3, <2>4, Constants DEF Upto
<1>12. first \in Links
  <2>1. tbl.buckets[to].hh_head \in Links
    <3>1. tbl.buckets \in Buckets(n)
      BY <1>2, TableFields
    <3> QED
      BY <1>2, <1>5, <3>1, BucketFields
  <2>2. hh_next[elem] \in Links
    BY <1>2 DEF LinksOK
  <2> QED
    BY <2>1, <2>2 DEF first
<1>13. PICK u : u = Counted(tbl, to, fewer, shorter)
  OBVIOUS
<1>14. /\ u \in Tables(n, Buckets(n)) /\ SameSizes(tbl, u) /\ u.tail = tbl.tail /\ u.num_items = fewer
       /\ \A c \in 0 .. n - 1 :
            /\ u.buckets[c].hh_head = tbl.buckets[c].hh_head
            /\ u.buckets[c].expand_mult = tbl.buckets[c].expand_mult
            /\ u.buckets[c].count = IF c = to THEN shorter ELSE tbl.buckets[c].count
  <2>1. n \in Nat
    BY <1>2
  <2>2. tbl \in Tables(n, Buckets(n))
    BY <1>2
  <2>3. to \in 0 .. n - 1
    BY <1>5
  <2>4. fewer \in Upto
    BY <1>11
  <2>5. shorter \in Upto
    BY <1>11
  <2> QED
    BY <1>13, <2>1, <2>2, <2>3, <2>4, <2>5, CountChanged
<1>15. tbl' = Headed(u, to, first)
  <2>1. tbl' = [tbl EXCEPT !.num_items = fewer, !.buckets[to].count = shorter, !.buckets[to].hh_head = first]
    BY DEF DelInBkt, fewer, shorter, first, to
  <2> QED
    BY <1>13, <2>1 DEF Counted, Headed
<1>16. /\ tbl' \in Tables(n, Buckets(n)) /\ SameSizes(u, tbl') /\ tbl'.tail = u.tail
       /\ tbl'.num_items = u.num_items
       /\ \A c \in 0 .. n - 1 :
            /\ tbl'.buckets[c].hh_head = IF c = to THEN first ELSE u.buckets[c].hh_head
            /\ tbl'.buckets[c].expand_mult = u.buckets[c].expand_mult
            /\ tbl'.buckets[c].count = u.buckets[c].count
  <2>1. n \in Nat
    BY <1>2
  <2>2. u \in Tables(n, Buckets(n))
    BY <1>14
  <2>3. to \in 0 .. n - 1
    BY <1>5
  <2> QED
    BY <1>12, <1>15, <2>1, <2>2, <2>3, HeadChanged
<1>17. /\ tbl'.tail = tbl.tail /\ tbl'.num_items = fewer /\ SameSizes(tbl, tbl') /\ tbl'.num_buckets = n
       /\ \A c \in 0 .. n - 1 :
            /\ tbl'.buckets[c].hh_head = heads2[c]
            /\ tbl'.buckets[c].expand_mult = tbl.buckets[c].expand_mult
            /\ tbl'.buckets[c].count = IF c = to THEN shorter ELSE tbl.buckets[c].count
  <2>1. \A c \in 0 .. n - 1 :
            /\ tbl'.buckets[c].hh_head = heads2[c]
            /\ tbl'.buckets[c].expand_mult = tbl.buckets[c].expand_mult
            /\ tbl'.buckets[c].count = IF c = to THEN shorter ELSE tbl.buckets[c].count
    BY <1>14, <1>16 DEF heads2
  <2>2. SameSizes(tbl, tbl') /\ tbl'.num_buckets = n
    BY <1>14, <1>16 DEF SameSizes, n
  <2> QED
    BY <1>14, <1>16, <2>1, <2>2
<1>18. ControlInv'
  BY <1>1, <1>2, Constants DEF ControlInv, Adding, Building, left
<1>19. GrowOK'
  BY <1>1 DEF GrowOK, Building, NoGrowth, Links
<1>20. LookOK'
  BY <1>1, <1>2, ObserveKeeps
<1>21. TblOK'
  BY <1>1, <1>2, <1>16, <1>17 DEF TblOK
<1>22. LinksOK'
  BY <1>1, <1>2, <1>3, <1>7 DEF LinksOK, left, list
<1>23. ListInv'
  <2>1. tbl' # NoTable
    BY <1>4, <1>17 DEF NoTable
  <2>2. head' = head /\ next' = next /\ prev' = prev
    BY <1>1 DEF list
  <2>3. left # {}
    BY <1>4
  <2> QED
    BY <1>1, <1>2, <1>3, <1>4, <1>11, <1>17, <2>1, <2>2, <2>3 DEF ListInv
<1>24. ASSUME NEW b \in 0 .. n - 1
       PROVE  /\ BucketOK(Part(Chained, tbl.num_buckets, b), FirstIn(b), tbl.buckets[b].count)'
              /\ Chain(Part(left, n, b), heads2[b], hh_next')
  <2>1. Chain(Part(left, n, b), heads2[b], hh_next') /\ Back(Part(left, n, b), heads2[b], hh_next', hh_prev')
    BY <1>9 DEF ChainsOf
  <2>2. FirstIn(b)' = heads2[b]
    BY <1>1, <1>17 DEF FirstIn
  <2>3. tbl'.buckets[b].count = Cardinality(Part(left, n, b))
    BY <1>10, <1>17
  <2>4. Part(Chained, tbl.num_buckets, b)' = Part(left, n, b)
    BY <1>3, <1>17 DEF Part
  <2> QED
    BY <2>1, <2>2, <2>3, <2>4 DEF BucketOK
<1>25. ChainsInv'
  <2>1. ASSUME NEW d \in Elements
        PROVE  hh_next'[d] = NULL \/ (hh_next'[d] \in left /\ (d \in left \/ (d = elem /\ SameBkt(hh_next[d], d)')))
    <3> DEFINE b == HASH_TO_BKT(hashv(d), n)
    <3>1. b \in 0 .. n - 1
      BY <1>2, <1>4, Hashed
    <3>2. CASE d \in left
      <4>1. d \in Part(left, n, b) /\ Part(left, n, b) \in SUBSET left /\ left \in SUBSET Elements
        BY <1>3, <3>2 DEF Part, left
      <4>2. Chain(Part(left, n, b), heads2[b], hh_next')
        BY <1>24, <3>1
      <4> DEFINE P == Part(left, n, b)
      <4>3. d \in P /\ P \in SUBSET left /\ P \in SUBSET Elements /\ Chain(P, heads2[b], hh_next')
        BY <4>1, <4>2
      <4> HIDE DEF P
      <4>4. hh_next'[d] \in P \cup {NULL}
        BY <4>3, ChainLinks
      <4> QED
        BY <3>2, <4>3, <4>4
    <3>3. CASE d = elem
      <4> DEFINE P == Part(entries, n, b)
      <4>1. P \in SUBSET entries /\ d \in P
        BY <1>3, <3>3 DEF Part
      <4>2. Chain(P, heads[b], hh_next) /\ Back(P, heads[b], hh_next, hh_prev)
        BY <1>6, <3>1 DEF ChainsOf
      <4> HIDE DEF P
      <4>3. hh_next[d] \in P \cup {NULL} /\ hh_next[d] # d
        BY <1>3, <4>1, <4>2, ChainLinks, NoLoop
      <4>4. hh_next'[d] = hh_next[d]
        BY <1>7, <3>3 DEF TakenOut
      <4>5. hh_next[d] # NULL => SameBkt(hh_next[d], d)'
        <5>1. hh_next'[d] # NULL => hh_next'[d] \in Part(entries, n, b)
          BY <4>3, <4>4 DEF P
        <5>2. hh_next'[d] # NULL => HASH_TO_BKT(hashv(hh_next'[d]), tbl'.num_buckets) = HASH_TO_BKT(hashv(d), tbl'.num_buckets)
          BY <1>17, <5>1 DEF Part
        <5> QED
          BY <4>4, <5>2 DEF SameBkt
      <4> QED
        BY <3>3, <4>1, <4>3, <4>4, <4>5 DEF left
    <3>4. CASE d \notin entries
      <4>1. hh_next[d] = NULL
        BY <1>1, <1>3, <3>4 DEF TableInv, ChainsInv
      <4>2. d # hh_prev[elem]
        <5> DEFINE P == Part(entries, n, to)
        <5>1. P \in SUBSET entries /\ elem \in P
          BY <1>3, <1>5 DEF Part
        <5>2. Back(P, heads[to], hh_next, hh_prev)
          BY <1>5, <1>6 DEF ChainsOf
        <5>3. hh_prev[elem] \in P \cup {NULL}
          BY <5>1, <5>2 DEF Back
        <5> QED
          BY <3>4, <5>1, <5>3, Constants
      <4> QED
        BY <1>7, <4>1, <4>2 DEF TakenOut
    <3> QED
      BY <3>2, <3>3, <3>4 DEF left
  <2> QED
    BY <1>1, <1>3, <1>17, <1>24, <2>1 DEF ChainsInv
<1>26. RebuildInv'
  BY <1>1 DEF RebuildInv
<1>27. BoundInv'
  <2>1. ASSUME NEW b \in 0 .. n - 1, ~tbl'.noexpand
        PROVE  \E limit \in {HASH_BKT_CAPACITY_THRESH, tbl.ideal_chain_maxlen}' : WithinLimit(tbl.buckets[b], limit)'
    <3>1. PICK limit \in {HASH_BKT_CAPACITY_THRESH, tbl.ideal_chain_maxlen} : WithinLimit(tbl.buckets[b], limit)
      BY <1>1, <1>17, <2>1 DEF BoundInv, TableInv, Building, SameSizes, n
    <3>2. limit \in Nat /\ tbl.buckets[b].count \in Nat /\ tbl.buckets[b].expand_mult \in Nat
      <4>1. tbl.buckets \in Buckets(n) /\ tbl.ideal_chain_maxlen \in Nat
        BY <1>2, TableFields
      <4> QED
        BY <1>2, <4>1, Constants, BucketFields, UptoNat
    <3> DEFINE k == (tbl.buckets[b].expand_mult + 1) * limit
    <3>3. k \in Nat /\ tbl.buckets[b].count <= k
      BY <3>1, <3>2, Products DEF WithinLimit
    <3>4. tbl'.buckets[b].count \in {tbl.buckets[b].count, tbl.buckets[b].count - 1}
          /\ tbl'.buckets[b].expand_mult = tbl.buckets[b].expand_mult
      BY <1>17 DEF shorter
    <3>5. tbl'.buckets[b].count <= (tbl'.buckets[b].expand_mult + 1) * limit
      <4> HIDE DEF k
      <4>1. tbl'.buckets[b].count <= k
        BY <3>2, <3>3, <3>4
      <4> QED
        BY <3>4, <4>1 DEF k
    <3>6. limit \in {HASH_BKT_CAPACITY_THRESH, tbl.ideal_chain_maxlen}'
      BY <1>17 DEF SameSizes
    <3> QED
      BY <3>5, <3>6 DEF WithinLimit
  <2>2. ~tbl'.noexpand => tbl'.ineff_expands <= 1
    BY <1>17 DEF BoundInv, TableInv, SameSizes
  <2> QED
    BY <1>1, <1>17, <2>1, <2>2 DEF BoundInv, Building
<1> QED
  BY <1>18, <1>19, <1>20, <1>21, <1>22, <1>23, <1>25, <1>26, <1>27, TypeParts, PTL DEF TableInv

LEMMA CloseKeeps ==
  ASSUME TableInv, Close
  PROVE  TableInv'
<1> DEFINE n == tbl.num_buckets
<1>1. /\ upc = "close" /\ upc' = "idle" /\ entries' = entries /\ elem' = NULL /\ grow' = NoGrowth
      /\ prev' = [prev EXCEPT ![elem] = NULL] /\ next' = [next EXCEPT ![elem] = NULL]
      /\ hh_prev' = [hh_prev EXCEPT ![elem] = NULL] /\ hh_next' = [hh_next EXCEPT ![elem] = NULL]
      /\ UNCHANGED <<head, tbl>> /\ Observe
  BY DEF Close, UpdateEnds
<1>2. /\ n \in Nat /\ (tbl # NoTable <=> n > 0) /\ tbl \in Tables(n, Buckets(n)) /\ elem \in Elements
      /\ TblOK /\ GrowOK /\ LinksOK /\ LookOK /\ ControlInv /\ ListInv
  BY <1>1, TableIs
<1>3. Linked = entries /\ Chained = entries /\ Linked' = entries /\ Chained' = entries
      /\ elem \notin entries /\ entries \in SUBSET Elements
  BY <1>1, <1>2 DEF Linked, Chained, Adding, Building, ControlInv, LinksOK
<1>4. /\ prev' \in [Elements -> Links] /\ next' \in [Elements -> Links]
      /\ hh_prev' \in [Elements -> Links] /\ hh_next' \in [Elements -> Links]
      /\ \A d \in Elements : /\ d # elem => /\ prev'[d] = prev[d] /\ next'[d] = next[d]
                                            /\ hh_prev'[d] = hh_prev[d] /\ hh_next'[d] = hh_next[d]
                             /\ d = elem => hh_next'[d] = NULL
  BY <1>1, <1>2 DEF LinksOK, Links
<1>5. ControlInv'
  BY <1>1, Constants DEF ControlInv, Adding, Building
<1>6. GrowOK'
  BY <1>1 DEF GrowOK, Building, NoGrowth, Links
<1>7. LookOK'
  BY <1>1, <1>2, ObserveKeeps
<1>8. TblOK'
  BY <1>1, <1>2 DEF TblOK
<1>9. LinksOK'
  BY <1>1, <1>2, <1>4 DEF LinksOK, Links
<1>10. ListInv'
  <2>1. Chain(entries, head, next) /\ Back(entries, head, next, prev)
    BY <1>2, <1>3 DEF ListInv
  <2>2. \A d \in entries : next'[d] = next[d] /\ prev'[d] = prev[d]
    BY <1>3, <1>4
  <2>3. Chain(entries, head, next') /\ Back(entries, head, next', prev')
    BY <2>1, <2>2, ChainFrame
  <2> QED
    BY <1>1, <1>2, <1>3, <2>2, <2>3 DEF ListInv
<1>11. ASSUME NEW b \in 0 .. n - 1, tbl # NoTable
       PROVE  BucketOK(Part(Chained, tbl.num_buckets, b), FirstIn(b), tbl.buckets[b].count)'
  <2> DEFINE P == Part(entries, n, b)
             first == tbl.buckets[b].hh_head
  <2>1. Chain(P, first, hh_next) /\ Back(P, first, hh_next, hh_prev) /\ tbl.buckets[b].count = Cardinality(P)
    BY <1>1, <1>3, <1>11 DEF TableInv, ChainsInv, Building, BucketOK, FirstIn
  <2>2. \A d \in P : hh_next'[d] = hh_next[d] /\ hh_prev'[d] = hh_prev[d]
    BY <1>3, <1>4 DEF Part
  <2>3. Part(Chained, tbl.num_buckets, b)' = P /\ FirstIn(b)' = first
    BY <1>1, <1>3 DEF Part, FirstIn
  <2> HIDE DEF P, first
  <2>4. Chain(P, first, hh_next') /\ Back(P, first, hh_next', hh_prev')
    BY <2>1, <2>2, ChainFrame
  <2> QED
    BY <1>1, <2>1, <2>3, <2>4 DEF BucketOK
<1>12. ChainsInv'
  <2>1. ASSUME NEW d \in Elements
        PROVE  hh_next'[d] = NULL \/ (hh_next'[d] \in Chained' /\ d \in Chained')
    <3>1. CASE d = elem
      BY <1>4, <3>1
    <3>2. CASE d # elem
      BY <1>1, <1>3, <1>4, <3>2 DEF ChainsInv, TableInv
    <3> QED
      BY <3>1, <3>2
  <2> QED
    BY <1>1, <1>11, <2>1 DEF ChainsInv
<1>13. RebuildInv'
  BY <1>1 DEF RebuildInv
<1>14. BoundInv'
  BY <1>1 DEF BoundInv, Building, TableInv, WithinLimit
<1> QED
  BY <1>5, <1>6, <1>7, <1>8, <1>9, <1>10, <1>12, <1>13, <1>14, TypeParts, PTL DEF TableInv

LEMMA UpdateKeeps ==
  ASSUME TableInv, Update
  PROVE  TableInv'
BY AddElementKeeps, UnlinkElementKeeps, FreeTableKeeps, AddToBktKeeps, LinkKeeps, ExpandKeeps, RethreadKeeps,
   FreeBucketsKeeps, SwapBucketsKeeps, DelInBktKeeps, ClearHeadKeeps, CloseKeeps DEF Update

\* A step that leaves the table and the updating thread alone.
LEMMA QuietKeeps ==
  ASSUME TableInv, UNCHANGED <<table, updater>>, LookOK'
  PROVE  TableInv'
<1>1. /\ UNCHANGED <<head, tbl, prev, next, hh_prev, hh_next>> /\ UNCHANGED <<entries, upc, elem, grow>>
  BY DEF table, updater
<1>2. NewSize' = NewSize /\ Linked' = Linked /\ Chained' = Chained /\ ElemBkt' = ElemBkt
  BY <1>1 DEF NewSize, Linked, Chained, ElemBkt
<1>3. \A b : FirstIn(b)' = FirstIn(b)
  BY <1>1, <1>2 DEF FirstIn
<1>4. TblOK /\ GrowOK /\ LinksOK /\ ControlInv /\ ListInv
  BY TableIs
<1>5. TblOK' /\ GrowOK' /\ LinksOK' /\ ControlInv' /\ ListInv'
  BY <1>1, <1>2, <1>4 DEF TblOK, GrowOK, LinksOK, ControlInv, ListInv
<1>6. ChainsInv'
  <2>1. \A S, b, k : BucketOK(S, FirstIn(b), k)' <=> BucketOK(S, FirstIn(b), k)
    BY <1>1, <1>3 DEF BucketOK
  <2> QED
    BY <1>1, <1>2, <1>3, <2>1 DEF ChainsInv, TableInv, Part, BucketOK, SameBkt
<1>7. RebuildInv'
  BY <1>1, <1>2 DEF RebuildInv, TableInv, Halfway, BucketOK, Part
<1>8. BoundInv'
  BY <1>1, <1>2 DEF BoundInv, TableInv, WithinLimit
<1> QED
  BY <1>5, <1>6, <1>7, <1>8, TypeParts, PTL DEF TableInv

LEMMA FindKeepsTable ==
  ASSUME TableInv, LookupInv, Find
  PROVE  TableInv' /\ UNCHANGED <<table, updater>>
<1>1. LookOK /\ LinksOK /\ ControlInv
  BY TableIs
<1>2. upc # "idle" => elem \in Elements
  BY <1>1, Members
<1> SUFFICES LookOK' /\ UNCHANGED <<table, updater>>
  BY QuietKeeps
<1>3. ASSUME NEW r, Return(r) PROVE LookOK' /\ UNCHANGED <<table, updater>>
  BY <1>1, <1>3 DEF Return, LookOK, Links
<1>4. ASSUME NEW label, label \in Finding, Move(label), out' \in Links, bkt' \in Nat
      PROVE  LookOK' /\ UNCHANGED <<table, updater>>
  BY <1>1, <1>4 DEF Move, LookOK, history, updater
<1>5. ASSUME NEW e \in Elements, FindBegin(Key[e]) PROVE LookOK' /\ UNCHANGED <<table, updater>>
  <2>1. /\ fpc' = "find" /\ UNCHANGED <<table, updater, bkt, out>>
        /\ present' = {d \in entries \ {Moving} : Key[d] = Key[e]}
        /\ rethreaded' = (upc \in {"rethread", "free", "swap"}) /\ stranded' = stranded
    BY <1>5 DEF FindBegin
  <2>2. entries' = entries
    BY <2>1 DEF updater
  <2> QED
    BY <1>1, <2>1, <2>2 DEF LookOK, Finding
<1>6. CASE FindTests
  BY <1>1, <1>3, <1>4, <1>6 DEF FindTests, LookOK, Finding
<1>7. CASE FindBkt
  <2>1. CASE Return(Wild)
    BY <1>3, <2>1
  <2>2. CASE TableThere /\ Move("test_head") /\ bkt' = HASH_TO_BKT(Hash[sought], tbl.num_buckets) /\ UNCHANGED out
    <3>1. sought # NULL
      BY <1>7 DEF FindBkt, LookupInv
    <3>2. PICK e \in Elements : sought = Key[e]
      BY <3>1 DEF LookupInv
    <3>3. tbl.num_buckets \in Nat /\ tbl.num_buckets > 0
      BY <2>2, TableIs DEF TableThere
    <3>4. bkt' \in Nat
      BY <2>2, <3>2, <3>3, Hashed DEF hashv
    <3> QED
      BY <1>1, <1>4, <2>2, <3>4 DEF LookOK, Finding
  <2> QED
    BY <1>7, <2>1, <2>2 DEF FindBkt
<1>8. CASE FindTestsHead
  BY <1>1, <1>3, <1>4, <1>8 DEF FindTestsHead, LookOK, Finding
<1>9. CASE FindTakesHead
  <2>1. ASSUME BucketThere, Move("compare"), out' = tbl.buckets[bkt].hh_head, UNCHANGED bkt
        PROVE  LookOK' /\ UNCHANGED <<table, updater>>
    <3>1. tbl.buckets[bkt].hh_head \in Links
      <4>1. tbl.num_buckets \in Nat /\ TblOK
        BY TableIs
      <4>2. upc # "swap"
        <5>1. ASSUME upc = "swap" PROVE tbl.buckets = <<>>
          BY <4>1, <5>1 DEF TblOK, Tables
        <5> QED
          BY <2>1, <5>1 DEF BucketThere
      <4>3. tbl.buckets \in Buckets(tbl.num_buckets)
        BY <4>1, <4>2, TableFields DEF TblOK
      <4>4. bkt \in 0 .. tbl.num_buckets - 1
        BY <2>1, <4>3 DEF BucketThere, Buckets
      <4> QED
        BY <4>1, <4>3, <4>4, BucketFields
    <3> QED
      BY <1>1, <1>4, <2>1, <3>1 DEF LookOK, Finding
  <2> QED
    BY <1>3, <1>9, <2>1 DEF FindTakesHead
<1>10. CASE LeftLink
  BY <1>1, <1>4, <1>10 DEF LeftLink, LookOK, Finding, Links
<1>11. CASE FindCompares
  BY <1>1, <1>3, <1>4, <1>10, <1>11 DEF FindCompares, LookOK, Finding
<1>12. CASE FindFollows
  <2>1. ASSUME NEW e \in There, Move("compare"), out' = hh_next[e], UNCHANGED bkt
        PROVE  LookOK' /\ UNCHANGED <<table, updater>>
    <3>1. e \in Elements
      BY <2>1 DEF There
    <3>2. hh_next[e] \in Links
      BY <1>1, <3>1 DEF LinksOK
    <3> QED
      BY <1>1, <1>4, <2>1, <3>2 DEF LookOK, Finding
  <2> QED
    BY <1>3, <1>10, <1>12, <2>1 DEF FindFollows
<1> QED
  BY <1>5, <1>6, <1>7, <1>8, <1>9, <1>11, <1>12 DEF Find

-----------------------------------------------------------------------------
(* Where a lookup is                                                       *)

LEMMA Observed ==
  ASSUME Update
  PROVE  /\ Observe /\ UNCHANGED <<fpc, sought, bkt, out, result>>
         /\ present' = (present \cap entries') \ {Moving'}
<1>1. Observe
  <2>1. ASSUME NEW e \in Elements, AddElement(e) \/ UnlinkElement(e) \/ FreeTable(e) PROVE Observe
    BY <2>1 DEF AddElement, UnlinkElement, FreeTable
  <2>2. CASE AddToBkt
    BY <2>2 DEF AddToBkt
  <2>3. CASE Link
    BY <2>3 DEF Link
  <2>4. CASE Expand
    BY <2>4 DEF Expand
  <2>5. CASE Rethread
    BY <2>5 DEF Rethread
  <2>6. CASE FreeBuckets
    BY <2>6 DEF FreeBuckets
  <2>7. CASE SwapBuckets
    BY <2>7 DEF SwapBuckets
  <2>8. CASE DelInBkt
    BY <2>8 DEF DelInBkt
  <2>9. CASE ClearHead
    BY <2>9 DEF ClearHead
  <2>10. CASE Close
    BY <2>10 DEF Close
  <2> QED
    BY <2>1, <2>2, <2>3, <2>4, <2>5, <2>6, <2>7, <2>8, <2>9, <2>10 DEF Update
<1> QED
  BY <1>1 DEF Observe, lookup

\* What can be read is in the table, or was until its deletion.
LEMMA InTable ==
  ASSUME TableInv, NEW e, Readable(e)
  PROVE  e \in (entries \cup {elem}) \ {NULL} /\ e \in Elements
BY TableIs, Constants DEF Readable, LinksOK

\* It remains readable until it is freed.
LEMMA ReadableKept ==
  ASSUME TableInv, Update, NEW e, Readable(e), ~(upc = "close" /\ e = elem)
  PROVE  Readable(e)'
<1>1. ControlInv /\ NULL \notin Elements /\ e \in Elements /\ (e \in entries \/ e = elem)
  BY TableIs, Constants, InTable DEF Readable
<1>2. ASSUME NEW d \in Elements, AddElement(d) \/ UnlinkElement(d) \/ FreeTable(d) PROVE Readable(e)'
  BY <1>1, <1>2 DEF AddElement, UnlinkElement, FreeTable, Readable, ControlInv
<1>3. CASE AddToBkt
  BY <1>3 DEF AddToBkt, Readable
<1>4. CASE Link
  BY <1>4 DEF Link, UpdateEnds, Readable
<1>5. CASE Expand
  BY <1>5 DEF Expand, GoOn, Readable
<1>6. CASE Rethread
  BY <1>6 DEF Rethread, GoOn, Readable
<1>7. CASE FreeBuckets
  BY <1>7 DEF FreeBuckets, Readable
<1>8. CASE SwapBuckets
  BY <1>8 DEF SwapBuckets, UpdateEnds, Readable
<1>9. CASE DelInBkt
  BY <1>9 DEF DelInBkt, UpdateEnds, Readable
<1>10. CASE ClearHead
  BY <1>10 DEF ClearHead, UpdateEnds, Readable
<1>11. CASE Close
  BY <1>11 DEF Close, UpdateEnds, Readable
<1> QED
  BY <1>2, <1>3, <1>4, <1>5, <1>6, <1>7, <1>8, <1>9, <1>10, <1>11 DEF Update

\* An element is added only where no other element is.
LEMMA UpdateKeepsBlocks ==
  ASSUME TableInv, BlocksInv, Update
  PROVE  BlocksInv'
<1>1. ControlInv /\ entries \in SUBSET Elements
  BY TableIs DEF LinksOK
<1>2. ASSUME entries' \subseteq entries \cup {elem}, elem' \in entries \cup {elem, NULL}
      PROVE  BlocksInv'
  BY <1>2 DEF BlocksInv
<1>3. ASSUME NEW e \in Elements, AddElement(e) PROVE BlocksInv'
  <2>1. entries' = entries /\ elem' = e /\ \A d \in entries : Block[d] # Block[e]
    BY <1>3 DEF AddElement
  <2> QED
    BY <2>1 DEF BlocksInv
<1>4. ASSUME NEW e \in Elements, UnlinkElement(e) \/ FreeTable(e) PROVE BlocksInv'
  BY <1>2, <1>4 DEF UnlinkElement, FreeTable
<1>5. CASE AddToBkt
  BY <1>2, <1>5 DEF AddToBkt
<1>6. CASE Link
  BY <1>2, <1>6 DEF Link, UpdateEnds
<1>7. CASE Expand
  BY <1>2, <1>7 DEF Expand
<1>8. CASE Rethread
  BY <1>2, <1>8 DEF Rethread
<1>9. CASE FreeBuckets
  BY <1>2, <1>9 DEF FreeBuckets
<1>10. CASE SwapBuckets
  BY <1>2, <1>10 DEF SwapBuckets, UpdateEnds
<1>11. CASE DelInBkt
  BY <1>2, <1>11 DEF DelInBkt, UpdateEnds
<1>12. CASE ClearHead
  BY <1>2, <1>12 DEF ClearHead, UpdateEnds
<1>13. CASE Close
  BY <1>2, <1>13 DEF Close, UpdateEnds
<1> QED
  BY <1>3, <1>4, <1>5, <1>6, <1>7, <1>8, <1>9, <1>10, <1>11, <1>12, <1>13 DEF Update

\* A lookup that is neither stranded nor beside a re-threading stands on an
\* element of the table, and on no other.
LEMMA ThereIs ==
  ASSUME TableInv, BlocksInv, LookupInv, AtElement, ~rethreaded, ~stranded
  PROVE  Readable(out) /\ There = {out}
<1>1. Readable(out)
  BY DEF LookupInv
<1>2. out \in There
  BY <1>1, InTable DEF There
<1>3. ASSUME NEW e \in There PROVE e = out
  BY <1>1, <1>3, InTable DEF There, BlocksInv
<1> QED
  BY <1>1, <1>2, <1>3

LEMMA UpdateKeepsLookup ==
  ASSUME TableInv, LookupInv, Update
  PROVE  LookupInv'
<1>1. /\ Observe /\ UNCHANGED <<fpc, sought, bkt, out, result>>
      /\ present' = (present \cap entries') \ {Moving'}
  BY Observed
<1>2. present' \subseteq {e \in entries' : Key[e] = sought' /\ e # Moving'}
  BY <1>1 DEF LookupInv
<1>3. upc' \in Building /\ sought' # NULL => rethreaded'
  BY <1>1 DEF Observe, Building
<1>4. /\ AtElement' <=> AtElement
      /\ stranded' <=> stranded \/ (upc = "close" /\ AtElement /\ out = elem)
      /\ rethreaded => rethreaded'
  BY <1>1 DEF Observe, AtElement
<1>5. ASSUME ~rethreaded', ~stranded', AtElement' PROVE Readable(out)'
  <2>1. Readable(out) /\ ~(upc = "close" /\ out = elem)
    BY <1>4, <1>5 DEF LookupInv
  <2> QED
    BY <1>1, <2>1, ReadableKept DEF Readable
<1>6. ~rethreaded' /\ ~stranded' /\ fpc' = "follow" => Key[out'] # sought'
  BY <1>1, <1>4 DEF LookupInv
<1>7. (AtElement' => out' \in Elements) /\ (stranded' => AtElement')
  BY <1>1, <1>4 DEF LookupInv
<1> QED
  BY <1>1, <1>2, <1>3, <1>5, <1>6, <1>7 DEF LookupInv

\* A step of a lookup that goes on.
LEMMA MoveKeepsLookup ==
  ASSUME LookupInv, fpc # "idle", NEW label \in Finding, Move(label),
         stranded => label \in {"compare", "follow"},
         label \in {"compare", "follow"} => out' \in Elements,
         ~rethreaded /\ ~stranded /\ label \in {"compare", "follow"} => Readable(out'),
         ~rethreaded /\ ~stranded /\ label = "follow" => Key[out'] # sought
  PROVE  LookupInv'
<1>1. fpc' = label /\ label # "idle" /\ UNCHANGED <<entries, upc, elem, sought, present, rethreaded, stranded>>
  BY DEF Move, updater, history, Finding
<1>2. Moving' = Moving /\ (Readable(out') => Readable(out)')
  BY <1>1 DEF Moving, Readable
<1>3. (AtElement <=> fpc \in {"compare", "follow"})'
  BY DEF AtElement
<1> QED
  BY <1>1, <1>2, <1>3 DEF LookupInv

LEMMA ReturnKeepsLookup ==
  ASSUME NEW r, Return(r)
  PROVE  LookupInv'
<1>1. fpc' = "idle" /\ sought' = NULL /\ present' = {} /\ ~stranded'
  BY DEF Return
<1> QED
  BY <1>1 DEF LookupInv, AtElement

\* A bucket's head, when it can be read, is an element or null.
LEMMA HeadThere ==
  ASSUME TableInv, BucketThere
  PROVE  /\ upc # "swap" /\ tbl.num_buckets \in Nat /\ tbl.num_buckets > 0
         /\ bkt \in 0 .. tbl.num_buckets - 1 /\ tbl.buckets[bkt].hh_head \in Links
<1>1. tbl.num_buckets \in Nat /\ TblOK /\ (tbl # NoTable <=> tbl.num_buckets > 0)
  BY TableIs
<1>2. upc # "swap"
  <2>1. ASSUME upc = "swap" PROVE tbl.buckets = <<>>
    BY <1>1, <2>1 DEF TblOK, Tables
  <2> QED
    BY <2>1 DEF BucketThere
<1>3. tbl.buckets \in Buckets(tbl.num_buckets)
  BY <1>1, <1>2, TableFields DEF TblOK
<1>4. bkt \in 0 .. tbl.num_buckets - 1
  BY <1>3 DEF BucketThere, Buckets
<1>5. tbl.buckets[bkt].hh_head \in Links
  BY <1>1, <1>3, <1>4, BucketFields
<1> QED
  BY <1>1, <1>2, <1>4, <1>5 DEF BucketThere, TableThere

\* Beside no re-threading it is an element of the table; so is every successor.
LEMMA NextReadable ==
  ASSUME TableInv
  PROVE  /\ BucketThere /\ upc \notin Building /\ tbl.buckets[bkt].hh_head # NULL
              => Readable(tbl.buckets[bkt].hh_head)
         /\ \A e \in Elements : hh_next[e] # NULL => Readable(hh_next[e])
<1>1. LinksOK /\ ControlInv /\ (upc # "idle" => elem \in Elements)
  BY TableIs
<1>2. Chained \in SUBSET Elements
  BY <1>1, Members
<1>3. ASSUME NEW e \in Chained PROVE Readable(e)
  BY <1>3 DEF Chained, Readable, Adding, Building
<1>4. \A e \in Elements : hh_next[e] # NULL => hh_next[e] \in Chained
  BY DEF TableInv, ChainsInv
<1>5. ASSUME BucketThere, upc \notin Building, tbl.buckets[bkt].hh_head # NULL
      PROVE  tbl.buckets[bkt].hh_head \in Chained
  <2> DEFINE P == Part(Chained, tbl.num_buckets, bkt)
             first == tbl.buckets[bkt].hh_head
  <2>1. bkt \in 0 .. tbl.num_buckets - 1 /\ tbl # NoTable
    BY <1>5, HeadThere DEF BucketThere, TableThere
  <2>2. CASE upc = "link" /\ bkt = ElemBkt
    BY <1>1, <1>4, <1>5, <2>2 DEF TableInv, ChainsInv
  <2>3. CASE ~(upc = "link" /\ bkt = ElemBkt)
    <3>1. Chain(P, first, hh_next)
      BY <1>5, <2>1, <2>3 DEF TableInv, ChainsInv, BucketOK, FirstIn
    <3>2. P \in SUBSET Chained /\ P \in SUBSET Elements /\ first # NULL
      BY <1>2, <1>5 DEF Part
    <3> HIDE DEF P, first
    <3>3. first \in P
      BY <3>1, <3>2, ChainLinks
    <3> QED
      BY <3>2, <3>3 DEF first
  <2> QED
    BY <2>2, <2>3
<1> QED
  BY <1>3, <1>4, <1>5

LEMMA FindKeepsLookup ==
  ASSUME TableInv, BlocksInv, LookupInv, Find
  PROVE  LookupInv'
<1>1. LinksOK /\ LookOK /\ (upc # "idle" => elem \in Elements)
  BY TableIs
<1>2. ASSUME NEW e \in Elements, FindBegin(Key[e]) PROVE LookupInv'
  <2>1. /\ fpc' = "find" /\ sought' = Key[e] /\ UNCHANGED <<entries, upc, elem>>
        /\ present' = {d \in entries \ {Moving} : Key[d] = Key[e]}
        /\ rethreaded' = (upc \in Building) /\ stranded' = stranded /\ fpc = "idle"
    BY <1>2 DEF FindBegin, updater, Building
  <2>2. Moving' = Moving /\ sought' # NULL /\ ~stranded'
    BY <2>1, Constants DEF Moving, LookupInv, AtElement
  <2> QED
    BY <2>1, <2>2 DEF LookupInv, AtElement
<1>3. ~AtElement => ~stranded
  BY DEF LookupInv
<1>4. CASE FindTests
  BY <1>3, <1>4, MoveKeepsLookup, ReturnKeepsLookup DEF FindTests, Finding, AtElement
<1>5. CASE FindBkt
  BY <1>3, <1>5, MoveKeepsLookup, ReturnKeepsLookup DEF FindBkt, Finding, AtElement
<1>6. CASE FindTestsHead
  BY <1>3, <1>6, MoveKeepsLookup, ReturnKeepsLookup DEF FindTestsHead, Finding, AtElement
<1>7. CASE FindTakesHead
  <2>1. ASSUME BucketThere, tbl.buckets[bkt].hh_head # NULL, Move("compare"), out' = tbl.buckets[bkt].hh_head
        PROVE  LookupInv'
    <3>1. out' \in Elements
      BY <2>1, HeadThere DEF Links
    <3>2. ~rethreaded => Readable(out')
      <4>1. sought # NULL
        BY <1>7 DEF FindTakesHead, LookupInv
      <4>2. ~rethreaded => upc \notin Building
        BY <4>1 DEF LookupInv
      <4> QED
        BY <2>1, <4>2, NextReadable
    <3> QED
      BY <1>7, <2>1, <3>1, <3>2, MoveKeepsLookup DEF FindTakesHead, Finding
  <2> QED
    BY <1>7, <2>1, ReturnKeepsLookup DEF FindTakesHead
<1>8. ASSUME AtElement, There = {}, LeftLink PROVE LookupInv'
  <2>1. PICK e \in Elements : Move("compare") /\ out' = e
    BY <1>8 DEF LeftLink
  <2>2. rethreaded \/ stranded
    BY <1>8, ThereIs
  <2>3. fpc # "idle"
    BY <1>8 DEF AtElement
  <2> QED
    BY <2>1, <2>2, <2>3, MoveKeepsLookup DEF Finding
<1>9. CASE FindCompares
  <2>1. ASSUME NEW e \in There, ~Matches(e), Move("follow"), UNCHANGED out
        PROVE  LookupInv'
    <3>1. AtElement /\ out \in Elements
      BY <1>9 DEF FindCompares, LookupInv, AtElement
    <3>2. ~rethreaded /\ ~stranded => Readable(out) /\ Key[out] # sought
      BY <2>1, <3>1, ThereIs DEF Matches
    <3> QED
      BY <1>9, <2>1, <3>1, <3>2, MoveKeepsLookup DEF FindCompares, Finding, Readable
  <2> QED
    BY <1>8, <1>9, <2>1, ReturnKeepsLookup DEF FindCompares, AtElement
<1>10. CASE FindFollows
  <2>1. ASSUME NEW e \in There, hh_next[e] # NULL, Move("compare"), out' = hh_next[e]
        PROVE  LookupInv'
    <3>1. e \in Elements
      BY <2>1 DEF There
    <3>2. out' \in Elements /\ Readable(out')
      BY <1>1, <2>1, <3>1, NextReadable DEF LinksOK, Links
    <3> QED
      BY <1>10, <2>1, <3>2, MoveKeepsLookup DEF FindFollows, Finding
  <2> QED
    BY <1>8, <1>10, <2>1, ReturnKeepsLookup DEF FindFollows, AtElement
<1> QED
  BY <1>2, <1>4, <1>5, <1>6, <1>7, <1>9, <1>10 DEF Find

-----------------------------------------------------------------------------
(* What has been there all along is still ahead                            *)

LEMMA ChainReaches ==
  ASSUME NEW S \in SUBSET Elements, NEW first, NEW link, Chain(S, first, link), NEW p \in S,
         NEW T \in SUBSET Elements, first \in T, \A d \in T : link[d] \in T \cup {NULL}
  PROVE  p \in T
<1> DEFINE U == T \cap S
<1>1. first \in S /\ \A d \in S : link[d] \in S \cup {NULL}
  BY DEF Chain
<1>2. U \in SUBSET S /\ first \in U /\ \A d \in U : link[d] \in U \cup {NULL}
  BY <1>1
<1>3. U = S
  BY <1>2 DEF Chain
<1> QED
  BY <1>3

\* Without a re-threading, an entry with the sought key is in a chain of the table.
LEMMA PresentIs ==
  ASSUME TableInv, LookupInv, ~rethreaded, NEW p \in present
  PROVE  /\ upc \notin Building /\ sought # NULL /\ p \in entries /\ p \in Elements /\ Key[p] = sought
         /\ p # Moving /\ p # elem /\ tbl # NoTable /\ tbl.num_buckets \in Nat /\ tbl.num_buckets > 0
         /\ HASH_TO_BKT(Hash[sought], tbl.num_buckets) = HASH_TO_BKT(hashv(p), tbl.num_buckets)
<1>1. TableInv /\ LinksOK /\ ControlInv /\ ListInv /\ tbl.num_buckets \in Nat
      /\ (tbl # NoTable <=> tbl.num_buckets > 0)
  BY TableIs
<1>2. p \in entries /\ Key[p] = sought /\ p # Moving /\ p \in Elements /\ p # NULL
  BY <1>1, Constants DEF LookupInv, LinksOK
<1>3. sought # NULL
  BY <1>2, Constants
<1>4. upc \notin Building
  BY <1>3 DEF LookupInv
<1>5. p # elem
  <2>1. upc = "idle" => elem = NULL
    BY <1>1 DEF ControlInv
  <2>2. upc = "close" => elem \notin entries
    BY <1>1 DEF ControlInv
  <2> QED
    BY <1>2, <2>1, <2>2 DEF Moving
<1>6. tbl # NoTable
  <2>1. p \in Linked
    BY <1>2, <1>5 DEF Linked
  <2>2. upc # "clear_head"
    BY <1>1, <1>2, <1>5 DEF ControlInv
  <2> QED
    BY <1>1, <2>1, <2>2 DEF ListInv
<1> QED
  BY <1>1, <1>2, <1>3, <1>4, <1>5, <1>6 DEF hashv

LEMMA NextInBucket ==
  ASSUME TableInv, upc \notin Building, tbl # NoTable, NEW e \in Elements, hh_next[e] # NULL
  PROVE  hh_next[e] \in Elements /\ SameBkt(hh_next[e], e)
<1>1. LinksOK /\ ControlInv /\ tbl.num_buckets \in Nat /\ tbl.num_buckets > 0
  BY TableIs
<1>2. Chained \in SUBSET Elements
  BY <1>1, Members
<1>3. CASE e \in Chained
  <2> DEFINE n == tbl.num_buckets
             b == HASH_TO_BKT(hashv(e), n)
             P == Part(Chained, n, b)
             first == FirstIn(b)
  <2>1. b \in 0 .. n - 1
    BY <1>1, Hashed
  <2>2. Chain(P, first, hh_next)
    BY <2>1 DEF TableInv, ChainsInv, BucketOK
  <2>3. e \in P /\ P \in SUBSET Elements
    BY <1>2, <1>3 DEF Part
  <2> HIDE DEF P, first
  <2>4. hh_next[e] \in P
    BY <2>2, <2>3, ChainLinks
  <2> QED
    BY <2>3, <2>4 DEF P, Part, SameBkt
<1>4. CASE e \notin Chained
  BY <1>2, <1>4 DEF TableInv, ChainsInv
<1> QED
  BY <1>3, <1>4

\* The entries ahead of the first element of a bucket, as a lookup reads it.
LEMMA HeadOfPresent ==
  ASSUME TableInv, LookupInv, ~rethreaded, NEW p \in present,
         bkt = HASH_TO_BKT(Hash[sought], tbl.num_buckets),
         NEW first, first = tbl.buckets[bkt].hh_head
  PROVE  \E Q \in SUBSET Part(Chained, tbl.num_buckets, bkt) :
           Q \in SUBSET Elements /\ p \in Q /\ Chain(Q, first, hh_next)
<1> DEFINE n == tbl.num_buckets
           P == Part(Chained, n, bkt)
<1>1. /\ upc \notin Building /\ p \in entries /\ p \in Elements /\ p # elem
      /\ tbl # NoTable /\ n \in Nat /\ n > 0 /\ bkt = HASH_TO_BKT(hashv(p), n)
  BY PresentIs
<1>2. bkt \in 0 .. n - 1
  BY <1>1, Hashed
<1>3. LinksOK /\ ControlInv /\ (upc # "idle" => elem \in Elements)
  BY TableIs
<1>4. Chained \in SUBSET Elements /\ entries \subseteq Chained
  BY <1>3, Members DEF Chained
<1>5. p \in P /\ P \in SUBSET Elements /\ Chain(P, FirstIn(bkt), hh_next)
  BY <1>1, <1>2, <1>4 DEF Part, TableInv, ChainsInv, BucketOK
<1>6. \E Q \in SUBSET P : p \in Q /\ Chain(Q, first, hh_next)
  <2>1. CASE upc = "link" /\ bkt = ElemBkt
    <3>1. FirstIn(bkt) = elem /\ hh_next[elem] = first
      BY <2>1 DEF FirstIn, TableInv, ChainsInv
    <3>2. elem \in P
      BY <1>3, <2>1 DEF Part, Chained, ElemBkt, Adding
    <3> HIDE DEF P
    <3>3. Chain(P \ {elem}, hh_next[elem], hh_next)
      BY <1>5, <3>1, <3>2, ChainPop
    <3> QED
      BY <1>1, <1>5, <3>1, <3>3
  <2>2. CASE ~(upc = "link" /\ bkt = ElemBkt)
    BY <1>5, <2>2 DEF FirstIn
  <2> QED
    BY <2>1, <2>2
<1> HIDE DEF P
<1> QED
  BY <1>5, <1>6 DEF P

LEMMA HeadReaches ==
  ASSUME TableInv, LookupInv, ~rethreaded, NEW p \in present,
         bkt = HASH_TO_BKT(Hash[sought], tbl.num_buckets),
         NEW first \in Elements, first = tbl.buckets[bkt].hh_head
  PROVE  HASH_TO_BKT(hashv(first), tbl.num_buckets) = bkt /\ Reaches(first, p)
<1>1. PICK Q \in SUBSET Part(Chained, tbl.num_buckets, bkt) :
         Q \in SUBSET Elements /\ p \in Q /\ Chain(Q, first, hh_next)
  BY HeadOfPresent
<1>2. first \in Q
  BY <1>1 DEF Chain
<1>3. HASH_TO_BKT(hashv(first), tbl.num_buckets) = bkt
  BY <1>1, <1>2 DEF Part
<1>4. Reaches(first, p)
  BY <1>1, ChainReaches DEF Reaches
<1> QED
  BY <1>3, <1>4

LEMMA FindKeepsAhead ==
  ASSUME TableInv, BlocksInv, LookupInv, AheadInv, Find
  PROVE  AheadInv'
<1> DEFINE n == tbl.num_buckets
<1>1. UNCHANGED <<table, updater>> /\ LookupInv' /\ LookOK /\ LinksOK /\ (upc # "idle" => elem \in Elements)
  BY FindKeepsTable, FindKeepsLookup, TableIs
<1>2. /\ UNCHANGED <<head, tbl, prev, next, hh_prev, hh_next>> /\ UNCHANGED <<entries, upc, elem, grow>>
  BY <1>1 DEF table, updater
<1>3. \A e, p : Reaches(e, p)' <=> Reaches(e, p)
  BY <1>2 DEF Reaches
<1>4. \A e : Readable(e)' <=> Readable(e)
  BY <1>2 DEF Readable
<1>5. ASSUME NEW r, Return(r) PROVE AheadInv'
  BY <1>5 DEF Return, AheadInv
<1>6. ASSUME NEW e \in Elements, FindBegin(Key[e]) PROVE AheadInv'
  <2>1. fpc' = "find"
    BY <1>6 DEF FindBegin
  <2> QED
    BY <2>1 DEF AheadInv, InBucket, AtElement
<1>7. ASSUME NEW label, Move(label),
             \A p \in present : ~rethreaded /\ ~stranded =>
               /\ label \in {"test_head", "take_head", "compare", "follow"}
                    => bkt' = HASH_TO_BKT(Hash[sought], n)
               /\ label \in {"compare", "follow"}
                    => HASH_TO_BKT(hashv(out'), n) = bkt' /\ (Readable(out') => Reaches(out', p))
      PROVE  AheadInv'
  <2>1. fpc' = label /\ UNCHANGED <<sought, present, rethreaded, stranded>>
    BY <1>7 DEF Move, history
  <2>2. (InBucket' <=> label \in {"test_head", "take_head", "compare", "follow"})
        /\ (AtElement' <=> label \in {"compare", "follow"})
    BY <2>1 DEF InBucket, AtElement
  <2>3. HASH_TO_BKT(hashv(out), n)' = HASH_TO_BKT(hashv(out'), n)
    BY <1>2 DEF hashv, HASH_TO_BKT
  <2>4. HASH_TO_BKT(Hash[sought], n)' = HASH_TO_BKT(Hash[sought], n)
    BY <1>2, <2>1 DEF HASH_TO_BKT
  <2>5. Readable(out') => Readable(out)'
    BY <1>2 DEF Readable
  <2>6. Readable(out)' => Readable(out')
    BY <1>2 DEF Readable
  <2>7. ASSUME NEW p, Reaches(out', p) PROVE Reaches(out, p)'
    BY <1>2, <2>7 DEF Reaches
  <2> QED
    BY <1>7, <2>1, <2>2, <2>3, <2>4, <2>5, <2>6, <2>7 DEF AheadInv
<1>8. CASE FindTests
  BY <1>5, <1>7, <1>8 DEF FindTests
<1>9. CASE FindBkt
  BY <1>5, <1>7, <1>9 DEF FindBkt
<1>10. CASE FindTestsHead
  BY <1>5, <1>7, <1>10 DEF FindTestsHead, AheadInv, InBucket
<1>11. CASE FindTakesHead
  <2>1. ASSUME BucketThere, tbl.buckets[bkt].hh_head # NULL, Move("compare"),
               out' = tbl.buckets[bkt].hh_head, bkt' = bkt
        PROVE  AheadInv'
    <3>1. PICK first \in Elements : first = tbl.buckets[bkt].hh_head
      BY <2>1, HeadThere DEF Links
    <3>2. ASSUME NEW p \in present, ~rethreaded, ~stranded
          PROVE  /\ bkt = HASH_TO_BKT(Hash[sought], n)
                 /\ HASH_TO_BKT(hashv(first), n) = bkt /\ Reaches(first, p)
      <4>1. bkt = HASH_TO_BKT(Hash[sought], n)
        BY <1>11, <3>2 DEF FindTakesHead, AheadInv, InBucket
      <4> QED
        BY <3>1, <3>2, <4>1, HeadReaches
    <3>3. out' = first
      BY <2>1, <3>1
    <3> QED
      BY <1>7, <2>1, <3>2, <3>3
  <2> QED
    BY <1>5, <1>11, <2>1 DEF FindTakesHead
<1>12. ASSUME AtElement, There = {}, LeftLink PROVE AheadInv'
  <2>1. PICK e \in Elements : Move("compare")
    BY <1>12 DEF LeftLink
  <2>2. rethreaded \/ stranded
    BY <1>12, ThereIs
  <2> QED
    BY <1>7, <2>1, <2>2
<1>13. CASE FindCompares
  <2>1. ASSUME Move("follow"), UNCHANGED <<bkt, out>> PROVE AheadInv'
    BY <1>7, <1>13, <2>1 DEF FindCompares, AheadInv, InBucket, AtElement
  <2> QED
    BY <1>5, <1>12, <1>13, <2>1 DEF FindCompares, AtElement
<1>14. CASE FindFollows
  <2>1. ASSUME NEW e \in There, hh_next[e] # NULL, Move("compare"), out' = hh_next[e], bkt' = bkt
        PROVE  AheadInv'
    <3>1. out \in Elements
      BY <1>14 DEF FindFollows, LookupInv, AtElement
    <3>2. PICK d : d = hh_next[e]
      OBVIOUS
    <3>3. ASSUME NEW p \in present, ~rethreaded, ~stranded
          PROVE  /\ bkt = HASH_TO_BKT(Hash[sought], n)
                 /\ HASH_TO_BKT(hashv(d), n) = bkt /\ Reaches(d, p)
      <4>0. e = out /\ Readable(out)
        BY <1>14, <2>1, <3>3, ThereIs DEF FindFollows, AtElement
      <4>1. /\ bkt = HASH_TO_BKT(Hash[sought], n) /\ HASH_TO_BKT(hashv(out), n) = bkt
            /\ Reaches(out, p)
        BY <1>14, <3>3, <4>0 DEF FindFollows, AheadInv, InBucket, AtElement
      <4>2. upc \notin Building /\ tbl # NoTable /\ Key[p] = sought
        BY <3>3, PresentIs
      <4>3. d \in Elements /\ SameBkt(d, out)
        BY <2>1, <3>1, <3>2, <4>0, <4>2, NextInBucket
      <4>4. p # out
        BY <1>14, <3>3, <4>2 DEF FindFollows, LookupInv
      <4>5. Reaches(d, p)
        <5>1. SUFFICES ASSUME NEW T \in SUBSET Elements, d \in T,
                              \A c \in T : hh_next[c] \in T \cup {NULL}
                       PROVE  p \in T
          BY DEF Reaches
        <5> DEFINE U == T \cup {out}
        <5>2. U \in SUBSET Elements /\ out \in U /\ \A c \in U : hh_next[c] \in U \cup {NULL}
          BY <3>1, <3>2, <4>0, <5>1
        <5>3. p \in U
          BY <4>1, <5>2 DEF Reaches
        <5> QED
          BY <4>4, <5>3
      <4> QED
        BY <4>1, <4>3, <4>5 DEF SameBkt
    <3>4. out' = d
      BY <2>1, <3>2
    <3> QED
      BY <1>7, <2>1, <3>3, <3>4
  <2> QED
    BY <1>5, <1>12, <1>14, <2>1 DEF FindFollows, AtElement
<1> QED
  BY <1>6, <1>8, <1>9, <1>10, <1>11, <1>13, <1>14 DEF Find

\* What Reaches says of hh_next, for any links.
LeadsTo(link, e, p) ==
  \A T \in SUBSET Elements : e \in T /\ (\A d \in T : link[d] \in T \cup {NULL}) => p \in T
Relinked(S, link, link2, e) ==
  \A d \in Elements : link[d] \in S \cup {NULL} /\ (d # e => link2[d] = link[d])
Bypassed(link, link2, b, e) ==
  /\ b # NULL => link[b] = e
  /\ \A d \in Elements : link2[d] = IF d = b THEN link[e] ELSE link[d]

\* The link of an element that no other leads to changes.
LEMMA ReachesRelinked ==
  ASSUME NEW S \in SUBSET Elements, NEW link, NEW link2, NEW e \in Elements \ S,
         Relinked(S, link, link2, e), NEW from \in S, NEW p \in S, LeadsTo(link, from, p)
  PROVE  LeadsTo(link2, from, p)
<1> USE DEF LeadsTo, Relinked
<1>1. SUFFICES ASSUME NEW T \in SUBSET Elements, from \in T, \A d \in T : link2[d] \in T \cup {NULL}
               PROVE  p \in T
  OBVIOUS
<1> DEFINE U == T \ {e}
<1>2. U \in SUBSET Elements /\ from \in U
  BY <1>1
<1>3. \A d \in U : link[d] \in U \cup {NULL}
  BY <1>1
<1> QED
  BY <1>2, <1>3

\* One element is taken out, but keeps its own link.
LEMMA ReachesBypassed ==
  ASSUME NEW link, NEW e \in Elements, NEW b, NEW link2, e # b, Bypassed(link, link2, b, e),
         NEW from, NEW p, p # e, LeadsTo(link, from, p)
  PROVE  LeadsTo(link2, from, p)
<1> USE DEF LeadsTo, Bypassed
<1>1. SUFFICES ASSUME NEW T \in SUBSET Elements, from \in T, \A d \in T : link2[d] \in T \cup {NULL}
               PROVE  p \in T
  OBVIOUS
<1> DEFINE U == T \cup {d \in {e} : b \in T}
<1>2. U \in SUBSET Elements /\ from \in U /\ NULL \notin T
  BY <1>1, Constants
<1>3. ASSUME NEW d \in U PROVE link[d] \in U \cup {NULL}
  <2>1. CASE d = b
    BY <1>2, <1>3, <2>1
  <2>2. CASE d # b /\ d \in T
    BY <1>1, <2>2
  <2>3. CASE d = e /\ b \in T
    <3>1. link2[b] \in T \cup {NULL} /\ link2[b] = link[e]
      BY <1>1, <2>3
    <3> QED
      BY <2>3, <3>1
  <2> QED
    BY <1>3, <2>1, <2>2, <2>3
<1>4. p \in U
  BY <1>2, <1>3
<1> QED
  BY <1>4

\* An update keeps what is ahead of a lookup if it keeps the number of buckets
\* and leads it from where it is to what it has kept.
LEMMA AheadKept ==
  ASSUME TableInv, LookupInv, AheadInv, Update, tbl'.num_buckets = tbl.num_buckets,
         ASSUME NEW p \in present, p \in present', ~rethreaded, ~stranded, AtElement, Readable(out)',
                bkt = HASH_TO_BKT(Hash[sought], tbl.num_buckets),
                HASH_TO_BKT(hashv(out), tbl.num_buckets) = bkt,
                Readable(out) => Reaches(out, p)
         PROVE  Reaches(out, p)'
  PROVE  AheadInv'
<1>1. /\ Observe /\ UNCHANGED <<fpc, sought, bkt, out, result>>
      /\ present' = (present \cap entries') \ {Moving'}
  BY Observed
<1>2. (rethreaded => rethreaded') /\ (stranded => stranded')
  BY <1>1 DEF Observe
<1>3. (InBucket' <=> InBucket) /\ (AtElement' <=> AtElement) /\ present' \subseteq present
  BY <1>1 DEF InBucket, AtElement
<1>4. /\ HASH_TO_BKT(Hash[sought], tbl.num_buckets)' = HASH_TO_BKT(Hash[sought], tbl.num_buckets)
      /\ HASH_TO_BKT(hashv(out), tbl.num_buckets)' = HASH_TO_BKT(hashv(out), tbl.num_buckets)
  BY <1>1 DEF HASH_TO_BKT, hashv
<1>5. AtElement => InBucket
  BY DEF InBucket, AtElement
<1> QED
  BY <1>1, <1>2, <1>3, <1>4, <1>5 DEF AheadInv

LEMMA UpdateKeepsAhead ==
  ASSUME TableInv, LookupInv, AheadInv, Update
  PROVE  AheadInv'
<1> DEFINE n == tbl.num_buckets
<1>1. /\ Observe /\ UNCHANGED <<fpc, sought, bkt, out, result>>
      /\ present' = (present \cap entries') \ {Moving'} /\ LookupInv' /\ TableInv'
  BY Observed, UpdateKeepsLookup, UpdateKeeps
<1>2. LinksOK /\ ControlInv /\ ListInv /\ (upc # "idle" => elem \in Elements) /\ entries \in SUBSET Elements
  BY TableIs DEF LinksOK
<1>3. ASSUME present' = {} PROVE AheadInv'
  BY <1>3 DEF AheadInv
<1>4. ASSUME upc \in Building \/ upc' \in Building PROVE AheadInv'
  <2>1. present' # {} => rethreaded'
    <3>1. present' # {} => present # {} /\ sought # NULL
      BY <1>1, <1>2, Constants DEF LookupInv
    <3>2. upc \in Building /\ sought # NULL => rethreaded
      BY DEF LookupInv
    <3>3. upc' \in Building /\ sought # NULL => rethreaded'
      BY <1>1 DEF LookupInv
    <3> QED
      BY <1>1, <1>4, <3>1, <3>2, <3>3 DEF Observe
  <2> QED
    BY <1>3, <2>1 DEF AheadInv
<1>5. ASSUME tbl'.num_buckets = n, hh_next' = hh_next, \A e : Readable(e)' => Readable(e)
      PROVE  AheadInv'
  <2>1. \A p : Reaches(out, p)' <=> Reaches(out, p)
    BY <1>1, <1>5 DEF Reaches
  <2>2. Readable(out)' => Readable(out)
    BY <1>1, <1>5 DEF Readable
  <2> QED
    BY <1>5, <2>1, <2>2, AheadKept
<1>6. ASSUME NEW e \in Elements, AddElement(e) PROVE AheadInv'
  <2>1. upc = "idle" /\ upc' = "add_to_bkt" /\ elem' = e /\ UNCHANGED <<hh_next, entries>>
    BY <1>6 DEF AddElement
  <2>2. ASSUME present # {} PROVE tbl'.num_buckets = n
    <3>1. head # NULL
      <4>1. PICK p \in present : TRUE
        BY <2>2
      <4>2. p \in entries
        BY LookupInv DEF LookupInv
      <4>3. Chain(entries, head, next)
        BY <1>2, <2>1 DEF ListInv, Linked, Adding, Building
      <4> QED
        BY <1>2, <4>2, <4>3, ChainLinks
    <3>2. tbl' = [tbl EXCEPT !.tail = e]
      BY <1>6, <3>1 DEF AddElement, HASH_APPEND_LIST
    <3>3. tbl \in Tables(n, Buckets(n))
      BY <2>1, TableIs
    <3> QED
      BY <3>2, <3>3 DEF Tables
  <2>3. \A d : Readable(d)' => Readable(d)
    BY <2>1 DEF Readable
  <2> QED
    BY <1>1, <1>3, <1>5, <2>1, <2>2, <2>3
<1>7. ASSUME NEW e \in Elements, UnlinkElement(e) PROVE AheadInv'
  <2>1. upc = "idle" /\ upc' = "del_in_bkt" /\ elem' = e /\ e \in entries /\ UNCHANGED <<hh_next, entries>>
    BY <1>7 DEF UnlinkElement
  <2>2. tbl'.num_buckets = n
    <3>1. tbl' = [tbl EXCEPT !.tail = TailAfter(e)]
      BY <1>7 DEF UnlinkElement
    <3>2. tbl \in Tables(n, Buckets(n))
      BY <2>1, TableIs
    <3> QED
      BY <3>1, <3>2 DEF Tables
  <2>3. \A d : Readable(d)' => Readable(d)
    BY <2>1 DEF Readable
  <2> QED
    BY <1>5, <2>1, <2>2, <2>3
<1>8. ASSUME NEW e \in Elements, FreeTable(e) PROVE AheadInv'
  <2>1. upc' = "clear_head" /\ elem' = e
    BY <1>8 DEF FreeTable
  <2>2. entries' = {elem'} /\ Moving' = elem'
    BY <1>1, <2>1 DEF TableInv, ControlInv, Moving
  <2> QED
    BY <1>1, <1>3, <2>2
<1>9. CASE AddToBkt
  <2> DEFINE to == ElemBkt
             old == tbl.buckets[to].hh_head
  <2>1. /\ upc = "add_to_bkt" /\ upc' = "link" /\ UNCHANGED <<entries, elem>>
        /\ hh_next' = [hh_next EXCEPT ![elem] = old]
        /\ tbl' = [tbl EXCEPT !.num_items = @ + 1, !.buckets[to].count = @ + 1]
    BY <1>9 DEF AddToBkt
  <2>2. tbl'.num_buckets = n
    <3>1. tbl \in Tables(n, Buckets(n))
      BY <2>1, TableIs
    <3> QED
      BY <2>1, <3>1 DEF Tables
  <2>3. elem \in Elements \ entries
    BY <1>2, <2>1 DEF ControlInv, Adding
  <2>4. ASSUME NEW p \in present, p \in present', ~rethreaded, ~stranded, AtElement, Readable(out)',
               bkt = HASH_TO_BKT(Hash[sought], n), HASH_TO_BKT(hashv(out), n) = bkt,
               Readable(out) => Reaches(out, p)
        PROVE  Reaches(out, p)'
    <3>1. p \in entries /\ p # elem /\ n \in Nat /\ n > 0 /\ bkt = HASH_TO_BKT(hashv(p), n) /\ tbl' # NoTable
      <4>1. p \in entries /\ p # elem /\ n \in Nat /\ n > 0 /\ bkt = HASH_TO_BKT(hashv(p), n)
        BY <2>4, PresentIs
      <4> QED
        BY <2>2, <4>1 DEF NoTable
    <3>2. CASE out \in entries
      <4>1. LeadsTo(hh_next, out, p)
        BY <2>4, <3>2 DEF Readable, Reaches, LeadsTo
      <4>2. Relinked(entries, hh_next, hh_next', elem)
        <5>1. \A d \in Elements : hh_next[d] \in entries \cup {NULL}
          BY <2>1 DEF TableInv, ChainsInv, Chained
        <5>2. hh_next \in [Elements -> Links]
          BY <1>2 DEF LinksOK
        <5> QED
          BY <2>1, <5>1, <5>2 DEF Relinked
      <4>3. LeadsTo(hh_next', out, p)
        BY <1>2, <2>3, <3>1, <3>2, <4>1, <4>2, ReachesRelinked
      <4> QED
        BY <1>1, <4>3 DEF Reaches, LeadsTo
    <3>3. CASE out \notin entries
      <4>1. out = elem
        BY <1>1, <2>1, <2>4, <3>3 DEF Readable
      <4> DEFINE S == entries \cup {elem}
                 P == Part(S, n, bkt)
      <4>2. Chained' = S /\ S \in SUBSET Elements
        BY <1>2, <2>1, <2>3 DEF Chained, Adding
      <4>3. bkt \in 0 .. n - 1 /\ ElemBkt' = bkt
        BY <2>1, <2>2, <2>3, <2>4, <3>1, <4>1, Hashed DEF ElemBkt, HASH_TO_BKT, hashv
      <4>4. BucketOK(Part(Chained, tbl.num_buckets, bkt), FirstIn(bkt), tbl.buckets[bkt].count)'
        BY <1>1, <2>1, <2>2, <3>1, <4>3 DEF TableInv, ChainsInv, Building
      <4>5. FirstIn(bkt)' = elem /\ Part(Chained, tbl.num_buckets, bkt)' = P
        BY <1>1, <2>1, <2>2, <4>2, <4>3 DEF FirstIn, Part
      <4>6. Chain(P, elem, hh_next')
        BY <4>4, <4>5 DEF BucketOK
      <4>7. p \in P /\ P \in SUBSET Elements
        BY <3>1, <4>2 DEF Part
      <4> HIDE DEF P
      <4>8. \A T \in SUBSET Elements : elem \in T /\ (\A d \in T : hh_next'[d] \in T \cup {NULL}) => p \in T
        BY <4>6, <4>7, ChainReaches
      <4> QED
        BY <1>1, <4>1, <4>8 DEF Reaches
    <3> QED
      BY <3>2, <3>3
  <2> QED
    BY <2>2, <2>4, AheadKept
<1>10. CASE Link
  <2>1. /\ upc = "link" /\ hh_next' = hh_next
        /\ tbl' = [tbl EXCEPT !.buckets[ElemBkt].hh_head = elem]
        /\ \/ upc' = "expand" /\ UNCHANGED <<entries, elem>>
           \/ upc' = "idle" /\ entries' = entries \cup {elem}
    BY <1>10 DEF Link, UpdateEnds
  <2>2. tbl'.num_buckets = n
    <3>1. tbl \in Tables(n, Buckets(n))
      BY <2>1, TableIs
    <3> QED
      BY <2>1, <3>1 DEF Tables
  <2>3. \A d : Readable(d)' => Readable(d)
    BY <2>1 DEF Readable
  <2> QED
    BY <1>5, <2>1, <2>2, <2>3
<1>11. CASE Expand
  <2>1. upc' \in Building
    BY <1>11 DEF Expand, GoOn, Building
  <2> QED
    BY <1>4, <2>1
<1>12. CASE Rethread \/ FreeBuckets \/ SwapBuckets
  <2>1. upc \in Building
    BY <1>12 DEF Rethread, FreeBuckets, SwapBuckets, Building
  <2> QED
    BY <1>4, <2>1
<1>13. CASE DelInBkt
  <2> DEFINE to == ElemBkt
             P == Part(entries, n, to)
  <2>1. /\ upc = "del_in_bkt" /\ upc' = "close" /\ elem' = elem /\ entries' = entries \ {elem}
        /\ hh_next' = Bypass(elem)
    BY <1>13 DEF DelInBkt, UpdateEnds
  <2>2. tbl'.num_buckets = n
    <3>1. tbl \in Tables(n, Buckets(n))
      BY <2>1, TableIs
    <3>2. tbl' = [tbl EXCEPT !.num_items = @ - 1,
                        !.buckets[ElemBkt].count = @ - 1,
                        !.buckets[ElemBkt].hh_head = IF @ = elem THEN hh_next[elem] ELSE @]
      BY <1>13 DEF DelInBkt
    <3> QED
      BY <3>1, <3>2 DEF Tables
  <2>3. elem \in entries /\ elem \in Elements /\ \A d : Readable(d)' => Readable(d)
    BY <1>2, <2>1 DEF ControlInv, Readable
  <2>4. ASSUME NEW p \in present, p \in present', ~rethreaded, ~stranded, AtElement, Readable(out)',
               bkt = HASH_TO_BKT(Hash[sought], n), HASH_TO_BKT(hashv(out), n) = bkt,
               Readable(out) => Reaches(out, p)
        PROVE  Reaches(out, p)'
    <3>1. tbl # NoTable /\ n \in Nat /\ n > 0 /\ p # elem
      BY <2>4, PresentIs
    <3>2. to \in 0 .. n - 1 /\ Chained = entries
      BY <2>1, <2>3, <3>1, Hashed DEF ElemBkt, Chained, Adding, Building
    <3> DEFINE first == tbl.buckets[to].hh_head
    <3>3. Chain(P, first, hh_next) /\ Back(P, first, hh_next, hh_prev)
      BY <2>1, <3>1, <3>2 DEF TableInv, ChainsInv, BucketOK, FirstIn, Building
    <3>4. elem \in P /\ P \in SUBSET Elements
      BY <1>2, <2>3 DEF Part, ElemBkt
    <3> HIDE DEF P, first
    <3> DEFINE b == hh_prev[elem]
    <3>5. (b # NULL => hh_next[b] = elem) /\ elem # b
      <4>1. b # NULL => b \in P /\ hh_next[b] = elem
        BY <3>3, <3>4 DEF Back
      <4>2. elem # b
        BY <3>3, <3>4, <4>1, NoLoop, Constants
      <4> QED
        BY <4>1, <4>2
    <3>6. \A d \in Elements : hh_next'[d] = IF d = b THEN hh_next[elem] ELSE hh_next[d]
      BY <2>1 DEF Bypass
    <3> HIDE DEF b
    <3>7. Bypassed(hh_next, hh_next', b, elem)
      BY <3>5, <3>6 DEF Bypassed
    <3>8. LeadsTo(hh_next, out, p)
      BY <2>3, <2>4, <1>1 DEF Reaches, Readable, LeadsTo
    <3>9. LeadsTo(hh_next', out, p)
      BY <2>3, <3>1, <3>5, <3>7, <3>8, ReachesBypassed
    <3> QED
      BY <1>1, <3>9 DEF Reaches, LeadsTo
  <2> QED
    BY <2>2, <2>4, AheadKept
<1>14. CASE ClearHead
  <2>1. entries' = {}
    BY <1>2, <1>14 DEF ClearHead, UpdateEnds, ControlInv
  <2> QED
    BY <1>1, <1>3, <2>1
<1>15. CASE Close
  <2>1. /\ upc = "close" /\ upc' = "idle" /\ entries' = entries /\ tbl' = tbl
        /\ hh_next' = [hh_next EXCEPT ![elem] = NULL]
    BY <1>15 DEF Close, UpdateEnds
  <2>2. elem \in Elements \ entries
    BY <1>2, <2>1 DEF ControlInv
  <2>3. ASSUME NEW p \in present, p \in present', ~rethreaded, ~stranded, AtElement, Readable(out)',
               bkt = HASH_TO_BKT(Hash[sought], n), HASH_TO_BKT(hashv(out), n) = bkt,
               Readable(out) => Reaches(out, p)
        PROVE  Reaches(out, p)'
    <3>1. p \in entries /\ out \in entries
      BY <1>1, <2>1, <2>3, PresentIs DEF Readable
    <3>2. LeadsTo(hh_next, out, p)
      BY <2>3, <3>1 DEF Readable, Reaches, LeadsTo
    <3>3. Relinked(entries, hh_next, hh_next', elem)
      <4>1. \A d \in Elements : hh_next[d] \in entries \cup {NULL}
        BY <2>1 DEF TableInv, ChainsInv, Chained, Adding, Building
      <4>2. hh_next \in [Elements -> Links]
        BY <1>2 DEF LinksOK
      <4> QED
        BY <2>1, <4>1, <4>2 DEF Relinked
    <3>4. LeadsTo(hh_next', out, p)
      BY <1>2, <2>2, <3>1, <3>2, <3>3, ReachesRelinked
    <3> QED
      BY <1>1, <3>4 DEF Reaches, LeadsTo
  <2> QED
    BY <2>1, <2>3, AheadKept
<1> QED
  BY <1>6, <1>7, <1>8, <1>9, <1>10, <1>11, <1>12, <1>13, <1>14, <1>15 DEF Update

\* Where a lookup ends with nothing, there has been nothing to find.
LEMMA NothingMissed ==
  ASSUME TableInv, LookupInv, AheadInv, ~rethreaded, ~stranded,
         \/ head = NULL
         \/ InBucket /\ tbl.buckets[bkt].hh_head = NULL
         \/ AtElement /\ Readable(out) /\ ~Matches(out) /\ hh_next[out] = NULL
  PROVE  present = {}
<1>1. SUFFICES ASSUME NEW p \in present PROVE FALSE
  OBVIOUS
<1>2. p \in entries /\ p # elem /\ Key[p] = sought /\ p \in Elements /\ LinksOK /\ ControlInv /\ ListInv
  BY PresentIs, TableIs
<1>3. CASE head = NULL
  <2>1. p \in Linked /\ Linked \in SUBSET Elements
    BY <1>2, Members DEF Linked
  <2>2. Chain(Linked, head, next)
    BY <1>2 DEF ListInv
  <2> QED
    BY <1>3, <2>1, <2>2, ChainLinks
<1>4. CASE InBucket /\ tbl.buckets[bkt].hh_head = NULL
  <2>1. bkt = HASH_TO_BKT(Hash[sought], tbl.num_buckets)
    BY <1>4 DEF AheadInv
  <2> DEFINE first == tbl.buckets[bkt].hh_head
  <2>2. PICK Q \in SUBSET Part(Chained, tbl.num_buckets, bkt) :
           Q \in SUBSET Elements /\ p \in Q /\ Chain(Q, first, hh_next)
    BY <2>1, HeadOfPresent
  <2>3. first = NULL
    BY <1>4
  <2> HIDE DEF first
  <2> QED
    BY <2>2, <2>3, ChainLinks
<1>5. CASE AtElement /\ Readable(out) /\ ~Matches(out) /\ hh_next[out] = NULL
  <2>1. Reaches(out, p)
    BY <1>5 DEF AheadInv
  <2>2. out \in Elements
    BY <1>5 DEF LookupInv
  <2> DEFINE T == {out}
  <2>3. T \in SUBSET Elements /\ out \in T /\ \A d \in T : hh_next[d] \in T \cup {NULL}
    BY <1>5, <2>2
  <2>4. p \in T
    BY <2>1, <2>3 DEF Reaches
  <2> QED
    BY <1>2, <1>5, <2>4 DEF Matches
<1> QED
  BY <1>3, <1>4, <1>5

\* A lookup that has missed an entry was stranded or beside a re-threading.
LEMMA MissIsExplained ==
  ASSUME TableInv, BlocksInv, LookupInv, AheadInv, [Next]_vars,
         fpc # "idle", fpc' = "idle", result' = NULL, present # {}
  PROVE  rethreaded \/ stranded
<1> SUFFICES ASSUME ~rethreaded, ~stranded
             PROVE  FALSE
  OBVIOUS
<1>1. Find
  <2>1. fpc' # fpc
    OBVIOUS
  <2>2. ~UNCHANGED vars
    BY <2>1 DEF vars, lookup
  <2>3. ~Update
    BY <2>1, Observed
  <2> QED
    BY <2>2, <2>3 DEF Next
<1>2. \A r : Return(r) => r = NULL
  BY DEF Return
<1>3. \A label \in Finding : ~Move(label)
  BY DEF Move, Finding
<1>4. \/ head = NULL
      \/ InBucket /\ tbl.buckets[bkt].hh_head = NULL
      \/ AtElement /\ Readable(out) /\ ~Matches(out) /\ hh_next[out] = NULL
  <2>1. CASE \E e \in Elements : FindBegin(Key[e])
    BY <2>1 DEF FindBegin
  <2>2. CASE FindTests
    BY <1>3, <2>2 DEF FindTests, Finding
  <2>3. CASE FindBkt
    BY <1>2, <1>3, <2>3, Constants DEF FindBkt, Finding
  <2>4. CASE FindTestsHead
    BY <1>2, <1>3, <2>4, Constants DEF FindTestsHead, Finding, InBucket
  <2>5. CASE FindTakesHead
    BY <1>2, <1>3, <2>5, Constants DEF FindTakesHead, Finding
  <2>6. CASE FindCompares
    <3>1. AtElement /\ out # NULL
      BY <2>6, Constants DEF FindCompares, LookupInv, AtElement
    <3>2. Readable(out) /\ There = {out}
      BY <3>1, ThereIs
    <3> QED
      BY <1>2, <1>3, <2>6, <3>1, <3>2 DEF FindCompares, Finding
  <2>7. CASE FindFollows
    <3>1. ~LeftLink
      BY <1>3 DEF LeftLink, Finding
    <3> QED
      BY <1>2, <1>3, <2>7, <3>1, Constants DEF FindFollows, Finding
  <2> QED
    BY <1>1, <2>1, <2>2, <2>3, <2>4, <2>5, <2>6, <2>7 DEF Find
<1> QED
  BY <1>4, NothingMissed

-----------------------------------------------------------------------------
(* What the registry could have given                                      *)

LEMMA AnswersAre ==
  ASSUME NEW k, NEW S \in SUBSET Elements, NEW mv \in Links
  PROVE  /\ mv # NULL => {NULL, Wild} \subseteq Abstract!Answers(k, S, mv)
         /\ mv # NULL /\ Key[mv] = k => mv \in Abstract!Answers(k, S, mv)
         /\ \A e \in S : Key[e] = k => e \in Abstract!Answers(k, S, mv)
         /\ mv = NULL => Wild \notin Abstract!Answers(k, S, mv)
         /\ mv = NULL /\ (\A e \in S : Key[e] # k) => NULL \in Abstract!Answers(k, S, mv)
<1> DEFINE found == {e \in S : Key[e] = k}
<1>1. Abstract!Answers(k, S, mv)
        = IF mv # NULL THEN {NULL, Wild} \cup found \cup {e \in {mv} : Key[e] = k}
          ELSE IF found = {} THEN {NULL} ELSE found
  BY DEF Abstract!Answers
<1> QED
  BY <1>1, Constants

MovingOK ==
  /\ Moving \in Links /\ entries \in SUBSET Elements
  /\ Moving = NULL <=> upc \in {"idle", "close"}
  /\ Moving # NULL => Moving = elem /\ elem \in Elements

LEMMA MovingIs == TableInv => MovingOK
BY TableIs, Constants DEF MovingOK, Moving, LinksOK, Links

\* What a lookup may find has been recorded.
LEMMA ReadableRecorded ==
  ASSUME TableInv, sought # NULL, Abstract!Answers(sought, entries, Moving) \subseteq answers,
         NEW e, Readable(e), Key[e] = sought, upc = "close" => e \in entries
  PROVE  e \in answers
<1>1. Moving \in Links /\ entries \in SUBSET Elements /\ (Moving = NULL <=> upc \in {"idle", "close"})
      /\ (Moving # NULL => Moving = elem)
  BY MovingIs DEF MovingOK
<1>2. CASE e \in entries
  BY <1>1, <1>2, AnswersAre
<1>3. CASE e \notin entries
  <2>1. e = elem /\ upc \notin {"idle", "close"}
    BY <1>3 DEF Readable
  <2>2. Moving # NULL /\ e = Moving
    BY <1>1, <2>1
  <2> QED
    BY <1>1, <2>2, AnswersAre
<1> QED
  BY <1>2, <1>3

LEMMA UpdateKeepsAnswers ==
  ASSUME TableInv, LookupInv, AnswersInv, Update
  PROVE  AnswersInv'
<1> DEFINE now == Abstract!Answers(sought, entries', Moving')
<1>1. /\ Observe /\ UNCHANGED <<fpc, sought, bkt, out, result>>
      /\ present' = (present \cap entries') \ {Moving'} /\ TableInv'
  BY Observed, UpdateKeeps
<1>2. Moving' \in Links /\ entries' \in SUBSET Elements /\ (Moving' = NULL <=> upc' \in {"idle", "close"})
      /\ (Moving' # NULL => Moving' = elem')
  <2>1. MovingOK'
    BY <1>1, MovingIs, PTL
  <2> QED
    BY <2>1 DEF MovingOK
<1>3. sought # NULL => answers' = answers \cup now
  BY <1>1 DEF Observe
<1>4. sought = NULL => answers' = {}
  BY <1>1 DEF Observe
<1>5. (sought # NULL => Abstract!Answers(sought, entries, Moving) \subseteq answers)'
  <2>1. Abstract!Answers(sought, entries, Moving)' = now
    BY <1>1 DEF Abstract!Answers
  <2> QED
    BY <1>1, <1>3, <2>1
<1>6. Wild \in answers' => NULL \in answers'
  <2>1. Wild \in now => NULL \in now
    BY <1>2, AnswersAre
  <2> QED
    BY <1>3, <1>4, <2>1 DEF AnswersInv
<1>7. ASSUME upc' = "close", Key[elem'] = sought' PROVE elem' \in answers'
  <2>1. DelInBkt \/ ClearHead
    BY <1>7 DEF Update, AddElement, UnlinkElement, FreeTable, AddToBkt, Link, Expand, Rethread,
                FreeBuckets, SwapBuckets, Close, GoOn, UpdateEnds
  <2>2. elem' = elem /\ elem \in entries /\ upc \notin {"idle", "close"}
    BY <2>1, TableIs DEF DelInBkt, ClearHead, UpdateEnds, ControlInv
  <2>3. sought # NULL /\ sought' = sought /\ elem \in Elements
    BY <1>1, <1>7, <2>2, TableIs, Constants
  <2>4. elem \in answers
    BY <1>7, <2>2, <2>3, ReadableRecorded DEF Readable, AnswersInv
  <2> QED
    BY <1>3, <2>2, <2>3, <2>4
<1>8. ASSUME sought # NULL, Wild \notin answers'
      PROVE  /\ Close /\ UNCHANGED <<head, tbl, entries>> /\ upc' = "idle" /\ elem \notin entries
             /\ hh_next' = [hh_next EXCEPT ![elem] = NULL] /\ Wild \notin answers
  <2>1. upc' \in {"idle", "close"}
    <3>1. Wild \notin now
      BY <1>3, <1>8
    <3> QED
      BY <1>2, <3>1, AnswersAre
  <2>2. Wild \notin answers
    BY <1>3, <1>8
  <2>3. upc \in {"idle", "close"}
    BY <1>8, <2>2 DEF AnswersInv
  <2>4. Close
    BY <2>1, <2>3 DEF Update, AddElement, UnlinkElement, FreeTable, AddToBkt, Link, Expand, Rethread,
                  FreeBuckets, SwapBuckets, DelInBkt, ClearHead
  <2>5. elem \notin entries
    BY <2>4, TableIs DEF ControlInv, Close
  <2> QED
    BY <2>2, <2>4, <2>5 DEF Close, UpdateEnds
<1>9. ASSUME sought # NULL, Wild \notin answers'
      PROVE  /\ upc' \in {"idle", "close"} /\ ~rethreaded' /\ ~stranded'
             /\ present' = {e \in entries' : Key[e] = sought'}
             /\ fpc' \notin {"find", "byhash"} => head' # NULL
             /\ InBucket' => bkt' = HASH_TO_BKT(Hash[sought], tbl.num_buckets)'
             /\ fpc' = "take_head" => (tbl.buckets[bkt].hh_head)' # NULL
             /\ AtElement' => out' \in entries'
             /\ fpc' = "follow" => hh_next'[out'] # NULL
  <2>1. /\ UNCHANGED <<head, tbl, entries>> /\ upc' = "idle" /\ elem \notin entries
        /\ hh_next' = [hh_next EXCEPT ![elem] = NULL] /\ Wild \notin answers
    BY <1>8, <1>9
  <2>2. /\ ~rethreaded /\ ~stranded /\ present = {e \in entries : Key[e] = sought}
        /\ fpc \notin {"find", "byhash"} => head # NULL
        /\ InBucket => bkt = HASH_TO_BKT(Hash[sought], tbl.num_buckets)
        /\ fpc = "take_head" => tbl.buckets[bkt].hh_head # NULL
        /\ AtElement => out \in entries
        /\ fpc = "follow" => hh_next[out] # NULL
    BY <1>9, <2>1 DEF AnswersInv
  <2>3. ~rethreaded' /\ ~stranded'
    BY <1>1, <2>1, <2>2 DEF Observe
  <2>4. present' = {e \in entries' : Key[e] = sought'}
    <3>1. Moving' = NULL /\ NULL \notin entries
      BY <1>2, <2>1, Constants
    <3> QED
      BY <1>1, <2>1, <2>2, <3>1
  <2>5. InBucket' => bkt' = HASH_TO_BKT(Hash[sought], tbl.num_buckets)'
    BY <1>1, <2>1, <2>2 DEF InBucket, HASH_TO_BKT
  <2>6. AtElement' => out' \in entries'
    BY <1>1, <2>1, <2>2 DEF AtElement
  <2>7. fpc' = "follow" => hh_next'[out'] # NULL
    <3>1. fpc = "follow" => out \in entries /\ out # elem /\ out \in Elements
      BY <2>1, <2>2, MovingIs DEF AtElement, MovingOK
    <3>2. hh_next \in [Elements -> Links]
      BY TableIs DEF LinksOK
    <3> QED
      BY <1>1, <2>1, <2>2, <3>1, <3>2
  <2> QED
    BY <1>1, <2>1, <2>2, <2>3, <2>4, <2>5, <2>6, <2>7
<1>10. sought' = NULL => answers' = {}
  BY <1>1, <1>4
<1>11. sought' = sought
  BY <1>1
<1> QED
  BY <1>5, <1>6, <1>7, <1>9, <1>10, <1>11 DEF AnswersInv

\* Beside no update the table is there and its entries are in its chains.
LEMMA StillIs ==
  ASSUME TableInv, upc \in {"idle", "close"}
  PROVE  /\ head # NULL <=> entries # {}
         /\ head # NULL <=> tbl # NoTable
         /\ entries \in SUBSET Elements /\ Chained = entries
         /\ \A b \in 0 .. tbl.num_buckets - 1 : Chain(Part(entries, tbl.num_buckets, b), tbl.buckets[b].hh_head, hh_next)
<1>1. LinksOK /\ ControlInv /\ ListInv /\ tbl.num_buckets \in Nat /\ (tbl # NoTable <=> tbl.num_buckets > 0)
      /\ entries \in SUBSET Elements
  BY TableIs DEF LinksOK
<1>2. Linked = entries /\ Chained = entries
  BY DEF Linked, Chained, Adding, Building
<1>3. head # NULL <=> entries # {}
  <2>1. Chain(entries, head, next)
    BY <1>1, <1>2 DEF ListInv
  <2> QED
    BY <1>1, <2>1, ChainLinks
<1>4. tbl = NoTable <=> entries = {}
  BY <1>1, <1>2 DEF ListInv
<1>5. ASSUME NEW b \in 0 .. tbl.num_buckets - 1
      PROVE  Chain(Part(entries, tbl.num_buckets, b), tbl.buckets[b].hh_head, hh_next)
  <2>1. tbl # NoTable
    BY <1>1
  <2> QED
    BY <1>2, <2>1 DEF TableInv, ChainsInv, BucketOK, FirstIn, Building
<1> QED
  BY <1>1, <1>2, <1>3, <1>4, <1>5

\* What a lookup reads next, beside no update, is an entry.
LEMMA StillAtEntry ==
  ASSUME TableInv, upc \in {"idle", "close"}
  PROVE  /\ BucketThere /\ tbl.buckets[bkt].hh_head # NULL => tbl.buckets[bkt].hh_head \in entries
         /\ \A e \in Elements : hh_next[e] # NULL => hh_next[e] \in entries
<1>1. ASSUME BucketThere, tbl.buckets[bkt].hh_head # NULL PROVE tbl.buckets[bkt].hh_head \in entries
  <2> DEFINE P == Part(entries, tbl.num_buckets, bkt)
             first == tbl.buckets[bkt].hh_head
  <2>1. Chain(P, first, hh_next)
    BY <1>1, HeadThere, StillIs
  <2>2. P \in SUBSET entries /\ P \in SUBSET Elements
    BY StillIs DEF Part
  <2>3. first # NULL
    BY <1>1
  <2> HIDE DEF P, first
  <2>4. first \in P
    BY <2>1, <2>2, <2>3, ChainLinks
  <2> QED
    BY <2>2, <2>4 DEF first
<1>2. ASSUME NEW e \in Elements, hh_next[e] # NULL PROVE hh_next[e] \in entries
  BY <1>2, StillIs DEF TableInv, ChainsInv
<1> QED
  BY <1>1, <1>2

LEMMA FindKeepsAnswers ==
  ASSUME TableInv, BlocksInv, LookupInv, AnswersInv, Find
  PROVE  AnswersInv'
<1>1. UNCHANGED <<table, updater>> /\ LinksOK /\ ControlInv /\ (upc # "idle" => elem \in Elements)
  BY FindKeepsTable, TableIs
<1>2. /\ UNCHANGED <<head, tbl, prev, next, hh_prev, hh_next>> /\ UNCHANGED <<entries, upc, elem, grow>>
      /\ Moving' = Moving
  BY <1>1 DEF table, updater, Moving
<1>3. Moving \in Links /\ entries \in SUBSET Elements /\ (Moving = NULL <=> upc \in {"idle", "close"})
      /\ (Moving # NULL => Moving = elem)
  BY MovingIs DEF MovingOK
<1>4. ASSUME NEW r, Return(r) PROVE AnswersInv'
  <2>1. sought' = NULL /\ answers' = {} /\ ~AtElement' /\ ~rethreaded' /\ ~stranded'
    BY <1>4 DEF Return, AtElement
  <2> QED
    BY <2>1 DEF AnswersInv
<1>5. ASSUME NEW e \in Elements, FindBegin(Key[e]) PROVE AnswersInv'
  <2>1. /\ sought' = Key[e] /\ fpc' = "find" /\ ~AtElement' /\ ~InBucket'
        /\ answers' = Abstract!Answers(Key[e], entries, Moving)
        /\ present' = {d \in entries \ {Moving} : Key[d] = Key[e]}
        /\ rethreaded' = (upc \in Building) /\ ~stranded'
    BY <1>5 DEF FindBegin, AtElement, InBucket, Building, LookupInv
  <2>2. sought' # NULL
    BY <2>1, Constants
  <2>3. Abstract!Answers(sought, entries, Moving)' = answers'
    BY <1>2, <2>1 DEF Abstract!Answers
  <2>4. Wild \in answers' => NULL \in answers'
    BY <1>3, <2>1, AnswersAre
  <2>5. Wild \notin answers' => /\ upc' \in {"idle", "close"} /\ ~rethreaded' /\ ~stranded'
                                /\ present' = {d \in entries' : Key[d] = sought'}
    <3>1. Wild \notin answers' => Moving = NULL
      BY <1>3, <2>1, AnswersAre
    <3>2. NULL \notin entries
      BY <1>3, Constants
    <3> QED
      BY <1>2, <1>3, <2>1, <3>1, <3>2 DEF Building
  <2>6. upc' = "close" => ~rethreaded'
    BY <1>2, <2>1 DEF Building
  <2> QED
    BY <2>1, <2>2, <2>3, <2>4, <2>5, <2>6 DEF AnswersInv
<1>6. ASSUME NEW label \in Finding, fpc # "idle", Move(label),
             label \in {"compare", "follow"} /\ out' = elem /\ upc = "close" /\ ~rethreaded /\ ~stranded
               => AtElement /\ out = elem,
             ASSUME Wild \notin answers, upc \in {"idle", "close"}
             PROVE  /\ label \notin {"find", "byhash"} => head # NULL
                    /\ label \in {"test_head", "take_head", "compare", "follow"}
                         => bkt' = HASH_TO_BKT(Hash[sought], tbl.num_buckets)
                    /\ label = "take_head" => tbl.buckets[bkt'].hh_head # NULL
                    /\ label \in {"compare", "follow"} => out' \in entries
                    /\ label = "follow" => hh_next[out'] # NULL
      PROVE  AnswersInv'
  <2>1. fpc' = label /\ UNCHANGED <<sought, answers, present, rethreaded, stranded>> /\ sought # NULL
    BY <1>6 DEF Move, history, LookupInv
  <2>2. (InBucket' <=> label \in {"test_head", "take_head", "compare", "follow"})
        /\ (AtElement' <=> label \in {"compare", "follow"})
    BY <2>1 DEF InBucket, AtElement
  <2>3. Abstract!Answers(sought, entries, Moving)' = Abstract!Answers(sought, entries, Moving)
    BY <1>2, <2>1 DEF Abstract!Answers
  <2>5. HASH_TO_BKT(Hash[sought], tbl.num_buckets)' = HASH_TO_BKT(Hash[sought], tbl.num_buckets)
    BY <1>2, <2>1 DEF HASH_TO_BKT
  <2>6. upc' = "close" /\ Key[elem'] = sought' /\ (rethreaded' \/ stranded' \/ (AtElement' /\ out' = elem'))
          => elem' \in answers'
    BY <1>2, <1>6, <2>1, <2>2 DEF AnswersInv
  <2>7. ASSUME Wild \notin answers'
        PROVE  /\ upc' \in {"idle", "close"} /\ ~rethreaded' /\ ~stranded' /\ present' = {e \in entries' : Key[e] = sought'}
               /\ fpc' \notin {"find", "byhash"} => head' # NULL
               /\ InBucket' => bkt' = HASH_TO_BKT(Hash[sought], tbl.num_buckets)'
               /\ fpc' = "take_head" => (tbl.buckets[bkt].hh_head)' # NULL
               /\ AtElement' => out' \in entries'
               /\ fpc' = "follow" => hh_next'[out'] # NULL
    <3>1. Wild \notin answers /\ upc \in {"idle", "close"} /\ ~rethreaded /\ ~stranded
          /\ present = {e \in entries : Key[e] = sought}
      BY <2>1, <2>7 DEF AnswersInv
    <3> QED
      BY <1>2, <1>6, <2>1, <2>2, <2>5, <3>1
  <2>8. /\ sought' # NULL => Abstract!Answers(sought, entries, Moving)' \subseteq answers'
        /\ sought' = NULL => answers' = {}
        /\ Wild \in answers' => NULL \in answers'
    BY <2>1, <2>3 DEF AnswersInv
  <2> QED
    BY <2>6, <2>7, <2>8 DEF AnswersInv
<1>7. CASE FindTests
  BY <1>4, <1>6, <1>7 DEF FindTests, Finding
<1>8. CASE FindBkt
  BY <1>4, <1>6, <1>8 DEF FindBkt, Finding, TableThere
<1>9. CASE FindTestsHead
  <2>1. ASSUME tbl.buckets[bkt].hh_head # NULL, Move("take_head"), UNCHANGED <<bkt, out>>
        PROVE  AnswersInv'
    BY <1>6, <1>9, <2>1 DEF FindTestsHead, Finding, AnswersInv, InBucket, LookupInv
  <2> QED
    BY <1>4, <1>9, <2>1 DEF FindTestsHead
<1>10. CASE FindTakesHead
  <2>1. ASSUME BucketThere, tbl.buckets[bkt].hh_head # NULL, Move("compare"),
               out' = tbl.buckets[bkt].hh_head, bkt' = bkt
        PROVE  AnswersInv'
    <3>1. sought # NULL /\ InBucket /\ fpc # "idle" /\ fpc \notin {"find", "byhash"}
      BY <1>10 DEF FindTakesHead, LookupInv, InBucket
    <3>2. upc \in {"idle", "close"} => out' \in entries
      BY <2>1, StillAtEntry
    <3>3. upc = "close" => out' # elem
      BY <1>1, <3>2 DEF ControlInv
    <3> QED
      BY <1>6, <2>1, <3>1, <3>2, <3>3 DEF Finding, AnswersInv
  <2> QED
    BY <1>4, <1>10, <2>1 DEF FindTakesHead
<1>11. ASSUME AtElement
      PROVE  /\ sought # NULL /\ InBucket /\ fpc # "idle" /\ fpc \notin {"find", "byhash"}
             /\ Wild \notin answers => There = {out}
             /\ LeftLink /\ There = {} => AnswersInv'
  <2>1. sought # NULL /\ InBucket /\ fpc # "idle" /\ fpc \notin {"find", "byhash"}
    BY <1>11 DEF LookupInv, InBucket, AtElement
  <2>2. ~rethreaded /\ ~stranded => There = {out}
    BY <1>11, ThereIs
  <2>3. Wild \notin answers => There = {out}
    BY <2>1, <2>2 DEF AnswersInv
  <2>4. ASSUME LeftLink, There = {} PROVE AnswersInv'
    <3>1. PICK e \in Elements : Move("compare")
      BY <2>4 DEF LeftLink
    <3> QED
      BY <1>6, <2>1, <2>2, <2>3, <2>4, <3>1 DEF Finding
  <2> QED
    BY <2>1, <2>3, <2>4
<1>12. CASE FindCompares
  <2>1. AtElement
    BY <1>12 DEF FindCompares, AtElement
  <2>2. ASSUME NEW e \in There, hh_next[e] # NULL, Move("follow"), UNCHANGED <<bkt, out>>
        PROVE  AnswersInv'
    <3>1. Wild \notin answers => hh_next[out] # NULL
      BY <1>11, <2>1, <2>2
    <3> QED
      BY <1>6, <1>11, <2>1, <2>2, <3>1 DEF Finding, AnswersInv
  <2> QED
    BY <1>4, <1>11, <1>12, <2>1, <2>2 DEF FindCompares
<1>13. CASE FindFollows
  <2>1. AtElement
    BY <1>13 DEF FindFollows, AtElement
  <2>2. ASSUME NEW e \in There, hh_next[e] # NULL, Move("compare"), out' = hh_next[e], bkt' = bkt
        PROVE  AnswersInv'
    <3>1. e \in Elements
      BY <2>2 DEF There
    <3>2. upc \in {"idle", "close"} => out' \in entries
      BY <2>2, <3>1, StillAtEntry
    <3>3. upc = "close" => out' # elem
      BY <1>1, <3>2 DEF ControlInv
    <3> QED
      BY <1>6, <1>11, <2>1, <2>2, <3>2, <3>3 DEF Finding, AnswersInv
  <2> QED
    BY <1>4, <1>11, <1>13, <2>1, <2>2 DEF FindFollows
<1> QED
  BY <1>5, <1>7, <1>8, <1>9, <1>10, <1>12, <1>13 DEF Find

-----------------------------------------------------------------------------
(* The theorems                                                            *)

\* The initial states satisfy the inductive invariant.
LEMMA InitOK ==
  ASSUME Init
  PROVE  IInv
<1>1. TableInv
  BY InitTable
<1>2. LookupInv
  BY DEF Init, LookupInv, AtElement, Building
<1>5. BlocksInv
  BY DEF Init, BlocksInv
<1>3. AheadInv
  BY DEF Init, AheadInv
<1>4. AnswersInv
  BY Constants DEF Init, AnswersInv, AtElement
<1> QED
  BY <1>1, <1>2, <1>3, <1>4, <1>5 DEF IInv

\* Every step keeps it.
LEMMA StepKeeps ==
  ASSUME IInv, [Next]_vars
  PROVE  IInv'
<1>1. TableInv /\ BlocksInv /\ LookupInv /\ AheadInv /\ AnswersInv
  BY DEF IInv
<1>2. CASE Update
  <2>1. TableInv' /\ BlocksInv' /\ LookupInv' /\ AheadInv' /\ AnswersInv'
    BY <1>1, <1>2, UpdateKeeps, UpdateKeepsBlocks, UpdateKeepsLookup, UpdateKeepsAhead, UpdateKeepsAnswers
  <2> QED
    BY <2>1 DEF IInv
<1>3. CASE Find
  <2>1. TableInv' /\ LookupInv' /\ AheadInv' /\ AnswersInv' /\ UNCHANGED updater
    BY <1>1, <1>3, FindKeepsTable, FindKeepsLookup, FindKeepsAhead, FindKeepsAnswers
  <2>2. BlocksInv'
    BY <1>1, <2>1 DEF BlocksInv, updater
  <2> QED
    BY <2>1, <2>2 DEF IInv
<1>4. CASE UNCHANGED vars
  <2>1. /\ UNCHANGED <<head, tbl, prev, next, hh_prev, hh_next>> /\ UNCHANGED <<entries, upc, elem, grow>>
        /\ UNCHANGED <<fpc, sought, bkt, out, answers, present, rethreaded, stranded>>
    BY <1>4 DEF vars, table, updater, lookup, history
  <2>2. TableInv'
    <3>1. LookOK'
      BY <1>1, <2>1, TableIs DEF LookOK
    <3>2. UNCHANGED <<table, updater>>
      BY <1>4 DEF vars
    <3> QED
      BY <1>1, <3>1, <3>2, QuietKeeps
  <2>3. Moving' = Moving /\ AtElement' = AtElement /\ InBucket' = InBucket
    BY <2>1 DEF Moving, AtElement, InBucket
  <2>4. LookupInv' /\ BlocksInv'
    BY <1>1, <2>1, <2>3 DEF LookupInv, BlocksInv, Readable
  <2>5. AheadInv'
    <3>1. (Readable(out)' <=> Readable(out)) /\ \A p : Reaches(out, p)' <=> Reaches(out, p)
      BY <2>1 DEF Readable, Reaches
    <3> QED
      BY <1>1, <2>1, <2>3, <3>1 DEF AheadInv, HASH_TO_BKT, hashv
  <2>6. AnswersInv'
    <3>1. (Readable(out)' <=> Readable(out))
          /\ Abstract!Answers(sought, entries, Moving)' = Abstract!Answers(sought, entries, Moving)
      BY <2>1, <2>3 DEF Readable, Abstract!Answers
    <3> QED
      BY <1>1, <2>1, <2>3, <3>1 DEF AnswersInv, HASH_TO_BKT
  <2> QED
    BY <2>2, <2>4, <2>5, <2>6 DEF IInv
<1> QED
  BY <1>2, <1>3, <1>4 DEF Next

\* The structure of the table, the place of a lookup in it and the answers
\* recorded for it hold in every state: HASH_ADD_STR, HASH_EXPAND_BUCKETS,
\* HASH_DEL and HASH_FIND_STR keep what each of them relies on.
THEOREM UthashInvariance == Spec => []IInv
<1>1. Init => IInv
  BY InitOK
<1>2. IInv /\ [Next]_vars => IInv'
  BY StepKeeps
<1> QED
  BY <1>1, <1>2, PTL DEF Spec

\* The comment before HASH_EXPAND_BUCKETS, for any hash function: until
\* expanding is given up no chain outgrows the multiple its bucket is allowed.
THEOREM ChainsStayBounded == Spec => []ChainsBounded
<1>1. IInv => ChainsBounded
  <2> SUFFICES ASSUME IInv, upc = "idle", ~tbl.noexpand, NEW b \in DOMAIN tbl.buckets
               PROVE  \E limit \in {HASH_BKT_CAPACITY_THRESH, tbl.ideal_chain_maxlen} :
                        tbl.buckets[b].count <= (tbl.buckets[b].expand_mult + 1) * limit
    BY DEF ChainsBounded
  <2>1. TableInv /\ BoundInv
    BY DEF IInv, TableInv
  <2>2. tbl.num_buckets \in Nat /\ tbl \in Tables(tbl.num_buckets, Buckets(tbl.num_buckets))
    BY <2>1, TableIs
  <2>3. tbl.buckets \in Buckets(tbl.num_buckets)
    BY <2>2, TableFields
  <2>4. b \in 0 .. tbl.num_buckets - 1
    BY <2>3 DEF Buckets
  <2> QED
    BY <2>1, <2>4 DEF BoundInv, Building, WithinLimit
<1> QED
  BY <1>1, UthashInvariance, PTL

\* HASH_FIND_STR beside updates misses a username that is in the table all
\* along only if HASH_EXPAND_BUCKETS re-threads the chains meanwhile, or if
\* close_client frees the block it stands on, whatever that memory holds then.
THEOREM MissesAreExplained == Spec => MissesExplained
<1>1. IInv /\ [Next]_vars
        => [fpc # "idle" /\ fpc' = "idle" /\ result' = NULL /\ present # {} => rethreaded \/ stranded]_vars
  BY MissIsExplained DEF IInv
<1>2. Spec => [][fpc # "idle" /\ fpc' = "idle" /\ result' = NULL /\ present # {} => rethreaded \/ stranded]_vars
  BY <1>1, UthashInvariance, PTL DEF Spec
<1> QED
  BY <1>2 DEF MissesExplained

-----------------------------------------------------------------------------
(* The table implements its abstraction                                    *)

LEMMA UpdateRefines ==
  ASSUME IInv, Update
  PROVE  [Abstract!Next]_(Abstract!vars)
<1>1. TableInv /\ LookupInv /\ AnswersInv /\ ControlInv /\ LinksOK /\ (upc # "idle" => elem \in Elements)
  BY TableIs DEF IInv
<1>2. /\ answers' = IF sought = NULL THEN {} ELSE answers \cup Abstract!Answers(sought, entries', Moving')
      /\ UNCHANGED <<sought, result>>
  BY Observed DEF Observe
<1>3. Abstract!Observe
  BY <1>2 DEF Abstract!Observe
<1>4. /\ Moving \in Links /\ (Moving = NULL <=> upc \in {"idle", "close"}) /\ (Moving # NULL => Moving = elem)
      /\ NULL \notin Elements
  BY <1>1, MovingIs, Constants DEF MovingOK
<1>5. ASSUME upc = "idle", upc' \notin {"idle", "close"}, elem' \in Elements, entries' = entries
      PROVE  Abstract!BeginUpdate
  <2>1. Moving = NULL /\ Moving' = elem'
    BY <1>5 DEF Moving
  <2> QED
    BY <1>3, <1>5, <2>1 DEF Abstract!BeginUpdate
<1>6. ASSUME upc \notin {"idle", "close"}, upc' \in {"idle", "close"},
             entries' = IF elem \in entries THEN entries \ {elem} ELSE entries \cup {elem}
      PROVE  Abstract!EndUpdate
  <2>1. Moving = elem /\ elem # NULL /\ Moving' = NULL
    BY <1>1, <1>4, <1>6 DEF Moving
  <2> QED
    BY <1>3, <1>6, <2>1 DEF Abstract!EndUpdate
<1>7. ASSUME Moving' = Moving, entries' = entries
      PROVE  UNCHANGED Abstract!vars
  <2>1. answers' = answers
    BY <1>1, <1>2, <1>7 DEF AnswersInv
  <2> QED
    BY <1>2, <1>7, <2>1 DEF Abstract!vars
<1>8. ASSUME NEW e \in Elements, AddElement(e) \/ UnlinkElement(e) \/ FreeTable(e)
      PROVE  Abstract!BeginUpdate
  BY <1>5, <1>8 DEF AddElement, UnlinkElement, FreeTable
<1>9. CASE AddToBkt
  BY <1>7, <1>9 DEF AddToBkt, Moving
<1>10. CASE Link
  <2>1. CASE upc' = "expand" /\ UNCHANGED <<entries, elem, grow>>
    BY <1>7, <1>10, <2>1 DEF Link, Moving
  <2>2. CASE UpdateEnds("idle", entries \cup {elem})
    <3>1. elem \notin entries
      BY <1>1, <1>10 DEF Link, ControlInv, Adding
    <3> QED
      BY <1>6, <1>10, <2>2, <3>1 DEF Link, UpdateEnds, Abstract!Next
  <2> QED
    BY <1>10, <2>1, <2>2 DEF Link, Abstract!Next
<1>11. CASE Expand
  BY <1>7, <1>11 DEF Expand, GoOn, Moving
<1>12. CASE Rethread
  BY <1>7, <1>12 DEF Rethread, GoOn, Moving
<1>13. CASE FreeBuckets
  BY <1>7, <1>13 DEF FreeBuckets, Moving
<1>14. CASE SwapBuckets
  <2>1. elem \notin entries
    BY <1>1, <1>14 DEF SwapBuckets, ControlInv, Adding, Building
  <2> QED
    BY <1>6, <1>14, <2>1 DEF SwapBuckets, UpdateEnds, Abstract!Next
<1>15. CASE DelInBkt
  <2>1. elem \in entries
    BY <1>1, <1>15 DEF DelInBkt, ControlInv
  <2> QED
    BY <1>6, <1>15, <2>1 DEF DelInBkt, UpdateEnds, Abstract!Next
<1>16. CASE ClearHead
  <2>1. elem \in entries
    BY <1>1, <1>16 DEF ClearHead, ControlInv
  <2> QED
    BY <1>6, <1>16, <2>1 DEF ClearHead, UpdateEnds, Abstract!Next
<1>17. CASE Close
  BY <1>7, <1>17 DEF Close, UpdateEnds, Moving
<1> QED
  BY <1>8, <1>9, <1>10, <1>11, <1>12, <1>13, <1>14, <1>15, <1>16, <1>17 DEF Update, Abstract!Next

\* A lookup answers only what the registry could have given.
LEMMA FindAnswers ==
  ASSUME IInv, NEW r, Return(r), Find
  PROVE  sought # NULL /\ r \in answers
<1>1. TableInv /\ BlocksInv /\ LookupInv /\ AheadInv /\ AnswersInv /\ ListInv /\ ControlInv /\ LinksOK
      /\ tbl.num_buckets \in Nat /\ (tbl # NoTable <=> tbl.num_buckets > 0)
  BY TableIs DEF IInv
<1>2. fpc # "idle"
  <2>1. ASSUME fpc = "idle" PROVE FALSE
    <3>1. PICK e \in Elements : FindBegin(Key[e])
      BY <2>1 DEF Find, FindTests, FindBkt, FindTestsHead, FindTakesHead, FindCompares, FindFollows
    <3> QED
      BY <3>1 DEF FindBegin, Return
  <2> QED
    BY <2>1
<1>3. sought # NULL /\ \A label \in Finding : ~Move(label)
  BY <1>1, <1>2 DEF LookupInv, Move, Return, Finding
<1>4. result' = r /\ \A s : Return(s) => s = r
  BY DEF Return
<1>5. Moving \in Links /\ entries \in SUBSET Elements /\ (Moving = NULL <=> upc \in {"idle", "close"})
  BY <1>1, MovingIs DEF MovingOK
<1>6. Abstract!Answers(sought, entries, Moving) \subseteq answers
  BY <1>1, <1>3 DEF AnswersInv
\* Nothing: there is nothing to find, or an update has been in progress.
<1>7. ASSUME \/ head = NULL
             \/ InBucket /\ tbl.buckets[bkt].hh_head = NULL
             \/ AtElement /\ Readable(out) /\ ~Matches(out) /\ hh_next[out] = NULL
      PROVE  NULL \in answers
  <2>1. CASE Wild \in answers
    BY <1>1, <2>1 DEF AnswersInv
  <2>2. CASE Wild \notin answers
    <3>1. upc \in {"idle", "close"} /\ ~rethreaded /\ ~stranded /\ present = {e \in entries : Key[e] = sought}
      BY <1>1, <1>3, <2>2 DEF AnswersInv
    <3>2. present = {}
      BY <1>1, <1>7, <3>1, NothingMissed
    <3>3. Moving = NULL /\ \A e \in entries : Key[e] # sought
      BY <1>5, <3>1, <3>2
    <3>4. NULL \in Abstract!Answers(sought, entries, Moving)
      BY <1>5, <3>3, AnswersAre
    <3> QED
      BY <1>6, <3>4
  <2> QED
    BY <2>1, <2>2
\* Something that is not there: an update has been in progress.
<1>8. ASSUME Wild \notin answers
      PROVE  /\ fpc \notin {"find", "byhash"} => TableThere
             /\ InBucket => BucketThere
             /\ fpc = "take_head" => tbl.buckets[bkt].hh_head # NULL
             /\ AtElement => Readable(out) /\ There = {out}
             /\ fpc = "follow" => hh_next[out] # NULL
  <2>1. /\ upc \in {"idle", "close"} /\ ~rethreaded /\ ~stranded /\ present = {e \in entries : Key[e] = sought}
        /\ fpc \notin {"find", "byhash"} => head # NULL
        /\ InBucket => bkt = HASH_TO_BKT(Hash[sought], tbl.num_buckets)
        /\ fpc = "take_head" => tbl.buckets[bkt].hh_head # NULL
        /\ AtElement => out \in entries
        /\ fpc = "follow" => hh_next[out] # NULL
    BY <1>1, <1>3, <1>8 DEF AnswersInv
  <2>2. fpc \notin {"find", "byhash"} => TableThere
    BY <1>1, <2>1, StillIs DEF TableThere
  <2>3. ASSUME InBucket PROVE BucketThere
    <3>1. TableThere
      BY <2>2, <2>3 DEF InBucket
    <3>2. PICK e \in Elements : sought = Key[e]
      BY <1>1, <1>3 DEF LookupInv
    <3>3. tbl.num_buckets > 0
      BY <1>1, <3>1 DEF TableThere
    <3>4. bkt \in 0 .. tbl.num_buckets - 1
      BY <1>1, <2>1, <2>3, <3>2, <3>3, Hashed DEF hashv
    <3>5. tbl.buckets \in Buckets(tbl.num_buckets)
      BY <1>1, <2>1, TableIs, TableFields
    <3> QED
      BY <1>1, <3>1, <3>4, <3>5, BucketFields DEF BucketThere
  <2>4. AtElement => Readable(out) /\ There = {out}
    BY <1>1, <2>1, ThereIs
  <2> QED
    BY <2>1, <2>2, <2>3, <2>4
<1>9. CASE FindTests
  BY <1>3, <1>4, <1>7, <1>9 DEF FindTests, Finding
<1>10. CASE FindBkt
  BY <1>3, <1>4, <1>8, <1>10 DEF FindBkt, Finding
<1>11. CASE FindTestsHead
  BY <1>3, <1>4, <1>7, <1>8, <1>11 DEF FindTestsHead, Finding, InBucket
<1>12. CASE FindTakesHead
  BY <1>3, <1>4, <1>8, <1>12 DEF FindTakesHead, Finding, InBucket
<1>13. ASSUME AtElement, NEW e \in There, Matches(e) PROVE e \in answers
  <2>1. Readable(e) /\ Key[e] = sought
    BY <1>13 DEF There, Matches
  <2>2. CASE upc = "close" /\ e \notin entries
    <3>1. e = elem
      BY <2>1, <2>2 DEF Readable
    <3>2. ~rethreaded /\ ~stranded => out = elem
      BY <1>1, <1>13, <3>1, ThereIs
    <3> QED
      BY <1>1, <1>13, <2>1, <2>2, <3>1, <3>2 DEF AnswersInv
  <2>3. CASE ~(upc = "close" /\ e \notin entries)
    BY <1>1, <1>3, <1>6, <2>1, <2>3, ReadableRecorded
  <2> QED
    BY <2>2, <2>3
<1>14. CASE FindCompares
  <2>1. AtElement /\ ~LeftLink /\ ~Move("follow")
    BY <1>3, <1>14 DEF FindCompares, AtElement, LeftLink, Finding
  <2>2. ASSUME Wild \notin answers, NEW e \in There, ~Matches(e), hh_next[e] = NULL PROVE NULL \in answers
    BY <1>7, <1>8, <2>1, <2>2
  <2>3. Wild \in answers => NULL \in answers
    BY <1>1 DEF AnswersInv
  <2>4. CASE There = {}
    BY <1>3, <1>4, <1>8, <1>14, <2>1, <2>3, <2>4 DEF FindCompares
  <2>5. CASE There # {}
    BY <1>3, <1>4, <1>13, <1>14, <2>1, <2>2, <2>3, <2>5 DEF FindCompares
  <2> QED
    BY <2>4, <2>5
<1>16. CASE FindFollows
  <2>1. AtElement /\ ~LeftLink /\ ~Move("compare")
    BY <1>3, <1>16 DEF FindFollows, AtElement, LeftLink, Finding
  <2>2. fpc = "follow"
    BY <1>16 DEF FindFollows
  <2> QED
    BY <1>3, <1>4, <1>8, <1>16, <2>1, <2>2 DEF FindFollows
<1>15. ASSUME NEW e \in Elements, FindBegin(Key[e]) PROVE FALSE
  BY <1>2, <1>15 DEF FindBegin
<1> QED
  BY <1>9, <1>10, <1>11, <1>12, <1>14, <1>15, <1>16 DEF Find

LEMMA FindRefines ==
  ASSUME IInv, Find
  PROVE  [Abstract!Next]_(Abstract!vars)
<1>1. UNCHANGED <<table, updater>> /\ LookupInv
  BY FindKeepsTable DEF IInv
<1>2. entries' = entries /\ Moving' = Moving
  BY <1>1 DEF updater, Moving
<1>3. ASSUME NEW e \in Elements, FindBegin(Key[e]) PROVE Abstract!BeginLookup
  <2>1. sought = NULL /\ e \in DOMAIN Key
    BY <1>1, <1>3, Constants DEF FindBegin, LookupInv
  <2> QED
    BY <1>2, <1>3, <2>1 DEF FindBegin, Abstract!BeginLookup
<1>4. ASSUME NEW r, Return(r) PROVE Abstract!EndLookup
  <2>1. sought # NULL /\ r \in answers
    BY <1>4, FindAnswers
  <2> QED
    BY <1>2, <1>4, <2>1 DEF Return, Abstract!EndLookup
<1>5. ASSUME NEW label, Move(label) PROVE UNCHANGED Abstract!vars
  BY <1>2, <1>5 DEF Move, history, Abstract!vars
<1>6. CASE FindTests
  BY <1>4, <1>5, <1>6 DEF FindTests, Abstract!Next
<1>7. CASE FindBkt
  BY <1>4, <1>5, <1>7 DEF FindBkt, Abstract!Next
<1>8. CASE FindTestsHead
  BY <1>4, <1>5, <1>8 DEF FindTestsHead, Abstract!Next
<1>9. CASE FindTakesHead
  BY <1>4, <1>5, <1>9 DEF FindTakesHead, Abstract!Next
<1>10. CASE FindCompares
  BY <1>4, <1>5, <1>10 DEF FindCompares, LeftLink, Abstract!Next
<1>11. CASE FindFollows
  BY <1>4, <1>5, <1>11 DEF FindFollows, LeftLink, Abstract!Next
<1> QED
  BY <1>3, <1>6, <1>7, <1>8, <1>9, <1>10, <1>11 DEF Find, Abstract!Next

\* Each HASH_FIND_STR beside one updating thread returns what the registry
\* could have given at some instant of it: the abstraction of uthash on which
\* UserHandler is built, for any usernames, hash function and table size.
THEOREM ImplementsNameTable == Spec => NameTableSpec
<1>1. Init => Abstract!Init
  BY DEF Init, Abstract!Init, Moving
<1>2. IInv /\ [Next]_vars => [Abstract!Next]_(Abstract!vars)
  <2>1. ASSUME IInv, UNCHANGED vars PROVE UNCHANGED Abstract!vars
    BY <2>1 DEF vars, updater, lookup, history, Abstract!vars, Moving
  <2> QED
    BY <2>1, UpdateRefines, FindRefines DEF Next
<1> QED
  BY <1>1, <1>2, UthashInvariance, PTL DEF Spec, NameTableSpec, Abstract!Spec

-----------------------------------------------------------------------------
(* The walk along a chain                                                  *)

\* One step of a walk.
Onward(at, link) == IF at = NULL THEN NULL ELSE link[at]
IsWalk(f, m, first, link) ==
  /\ f \in [0 .. m -> {f[n] : n \in 0 .. m}]
  /\ f[0] = first /\ \A n \in 0 .. m - 1 : f[n + 1] = Onward(f[n], link)

LEMMA WalkExists ==
  ASSUME NEW first, NEW link, NEW m \in Nat
  PROVE  \E f : IsWalk(f, m, first, link)
<1> DEFINE S == {k \in Nat : \E f : IsWalk(f, k, first, link)}
<1>1. 0 \in S
  <2> DEFINE f == [n \in 0 .. 0 |-> first]
  <2>1. IsWalk(f, 0, first, link)
    BY DEF IsWalk
  <2> QED
    BY <2>1
<1>2. ASSUME NEW k \in Nat, k \in S PROVE k + 1 \in S
  <2>1. PICK f : IsWalk(f, k, first, link)
    BY <1>2
  <2> DEFINE g == [n \in 0 .. k + 1 |-> IF n = k + 1 THEN Onward(f[k], link) ELSE f[n]]
  <2>2. g[0] = first
    BY <2>1 DEF IsWalk
  <2>3. ASSUME NEW n \in 0 .. (k + 1) - 1 PROVE g[n + 1] = Onward(g[n], link)
    <3>1. CASE n = k
      BY <3>1
    <3>2. CASE n # k
      <4>1. n \in 0 .. k - 1
        BY <3>2
      <4>2. f[n + 1] = Onward(f[n], link)
        BY <2>1, <4>1 DEF IsWalk
      <4> QED
        BY <4>1, <4>2
    <3> QED
      BY <3>1, <3>2
  <2>4. IsWalk(g, k + 1, first, link)
    BY <2>2, <2>3 DEF IsWalk
  <2> QED
    BY <2>4
<1> HIDE DEF S
<1>3. Nat \subseteq S
  BY <1>1, <1>2, InductionOnNat
<1> QED
  BY <1>3 DEF S

LEMMA WalkIs ==
  ASSUME NEW first, NEW link
  PROVE  /\ Walk(first, link)[0] = first
         /\ \A n \in 0 .. Cardinality(Elements) - 1 :
              Walk(first, link)[n + 1] = Onward(Walk(first, link)[n], link)
<1> DEFINE N == Cardinality(Elements)
           Steps(f) == [n \in 0 .. N |-> IF n = 0 THEN first ELSE IF f[n - 1] = NULL THEN NULL ELSE link[f[n - 1]]]
<1>1. N \in Nat
  BY Constants
<1>2. PICK f : IsWalk(f, N, first, link)
  BY <1>1, WalkExists
<1>3. f = Steps(f)
  <2> HIDE DEF N
  <2>1. ASSUME NEW n \in 0 .. N PROVE f[n] = Steps(f)[n]
    <3>1. CASE n = 0
      BY <1>2, <3>1 DEF IsWalk
    <3>2. CASE n # 0
      <4>1. n - 1 \in 0 .. N - 1 /\ (n - 1) + 1 = n
        BY <1>1, <3>2
      <4>2. f[n] = Onward(f[n - 1], link)
        BY <1>2, <4>1 DEF IsWalk
      <4> QED
        BY <3>2, <4>2 DEF Onward
    <3> QED
      BY <3>1, <3>2
  <2> QED
    BY <1>2, <2>1 DEF IsWalk
<1>4. Walk(first, link) = CHOOSE g : g = Steps(g)
  BY DEF Walk
<1> DEFINE W == Walk(first, link)
<1>5. W = Steps(W)
  <2>1. \E g : g = Steps(g)
    BY <1>3
  <2>2. W = CHOOSE g : g = Steps(g)
    BY <1>4
  <2> HIDE DEF W, Steps
  <2> QED
    BY <2>1, <2>2, Zenon
<1> HIDE DEF W, N
<1>6. W[0] = first
  BY <1>1, <1>5
<1>7. ASSUME NEW n \in 0 .. N - 1 PROVE W[n + 1] = Onward(W[n], link)
  <2>1. n + 1 \in 0 .. N /\ n + 1 # 0 /\ (n + 1) - 1 = n
    BY <1>1
  <2> QED
    BY <1>5, <2>1 DEF Onward
<1> QED
  BY <1>6, <1>7 DEF W, N

\* A walk along a chain stays on it, visits each of its elements once and ends
\* after at most as many steps as there are elements.
LEMMA WalkStays ==
  ASSUME NEW S \in SUBSET Elements, NEW first, NEW link, Chain(S, first, link)
  PROVE  \A n \in 0 .. Cardinality(Elements) : Walk(first, link)[n] \in S \cup {NULL}
<1> DEFINE N == Cardinality(Elements)
           W == Walk(first, link)
           T == {n \in Nat : n <= N => W[n] \in S \cup {NULL}}
<1>1. N \in Nat /\ W[0] = first /\ \A n \in 0 .. N - 1 : W[n + 1] = Onward(W[n], link)
  BY Constants, WalkIs
<1>2. first \in S \cup {NULL} /\ \A e \in S : link[e] \in S \cup {NULL}
  BY ChainLinks
<1> HIDE DEF N, W
<1>3. 0 \in T
  BY <1>1, <1>2
<1>4. ASSUME NEW n \in Nat, n \in T PROVE n + 1 \in T
  <2>1. CASE n + 1 <= N
    <3>1. W[n] \in S \cup {NULL} /\ W[n + 1] = Onward(W[n], link)
      BY <1>1, <1>4, <2>1
    <3>2. W[n + 1] \in S \cup {NULL}
      BY <1>2, <3>1 DEF Onward
    <3> QED
      BY <3>2
  <2>2. CASE ~(n + 1 <= N)
    BY <2>2
  <2> QED
    BY <2>1, <2>2
<1> HIDE DEF T
<1>5. Nat \subseteq T
  BY <1>3, <1>4, InductionOnNat
<1> QED
  BY <1>1, <1>5 DEF T, N, W

LEMMA WalkOnce ==
  ASSUME NEW S \in SUBSET Elements, NEW first, NEW link, Chain(S, first, link),
         NEW m \in 0 .. Cardinality(Elements), NEW n \in 0 .. Cardinality(Elements),
         Walk(first, link)[m] = Walk(first, link)[n], Walk(first, link)[m] # NULL
  PROVE  m = n
<1> DEFINE N == Cardinality(Elements)
           W == Walk(first, link)
           T == {k \in Nat : \A l \in 0 .. N : k < l /\ W[k] = W[l] => W[k] = NULL}
<1>1. N \in Nat /\ W[0] = first /\ \A k \in 0 .. N - 1 : W[k + 1] = Onward(W[k], link)
  BY Constants, WalkIs
<1>2. \A k \in 0 .. N : W[k] \in S \cup {NULL}
  BY WalkStays
<1>3. NULL \notin S /\ \A e \in S : link[e] # first
  BY Constants, ChainLinks
<1>4. \A d, e \in S : link[d] = link[e] /\ link[d] # NULL => d = e
  BY DEF Chain
<1> HIDE DEF N, W
<1>5. \A l \in 0 .. N : l > 0 => l - 1 \in 0 .. N - 1 /\ W[l] = Onward(W[l - 1], link)
  <2> SUFFICES ASSUME NEW l \in 0 .. N, l > 0 PROVE l - 1 \in 0 .. N - 1 /\ W[l] = Onward(W[l - 1], link)
    OBVIOUS
  <2>1. l - 1 \in 0 .. N - 1 /\ (l - 1) + 1 = l
    BY <1>1
  <2> QED
    BY <1>1, <2>1
<1>6. 0 \in T
  <2> SUFFICES ASSUME NEW l \in 0 .. N, 0 < l, W[0] = W[l] PROVE W[0] = NULL
    OBVIOUS
  <2>1. l - 1 \in 0 .. N /\ W[l] = Onward(W[l - 1], link)
    <3>1. l - 1 \in 0 .. N - 1 /\ W[l] = Onward(W[l - 1], link)
      BY <1>5
    <3>2. N \in Nat
      BY <1>1
    <3>3. l - 1 \in 0 .. N
      BY <3>2
    <3> QED
      BY <3>1, <3>3
  <2>2. W[l - 1] \in S \cup {NULL}
    BY <1>2, <2>1
  <2> QED
    BY <1>1, <1>3, <2>1, <2>2 DEF Onward
<1>7. ASSUME NEW k \in Nat, k \in T PROVE k + 1 \in T
  <2> SUFFICES ASSUME NEW l \in 0 .. N, k + 1 < l, W[k + 1] = W[l] PROVE W[k + 1] = NULL
    BY DEF T
  <2>1. l - 1 \in 0 .. N /\ k \in 0 .. N - 1 /\ k \in 0 .. N /\ k < l - 1
    BY <1>1
  <2>2. W[l] = Onward(W[l - 1], link) /\ W[k + 1] = Onward(W[k], link)
    BY <1>1, <1>5, <2>1
  <2>3. W[l - 1] \in S \cup {NULL} /\ W[k] \in S \cup {NULL}
    BY <1>2, <2>1
  <2>4. ASSUME W[k + 1] # NULL PROVE W[l - 1] = W[k] /\ W[k] # NULL
    BY <1>4, <2>2, <2>3, <2>4 DEF Onward
  <2>5. W[k] = W[l - 1] => W[k] = NULL
    BY <1>7, <2>1
  <2> QED
    BY <2>4, <2>5
<1> HIDE DEF T
<1>8. Nat \subseteq T
  BY <1>6, <1>7, InductionOnNat
<1>9. m \in Nat /\ n \in Nat /\ m \in 0 .. N /\ n \in 0 .. N /\ W[m] = W[n] /\ W[m] # NULL
  BY <1>1 DEF N, W
<1>10. m \in T /\ n \in T
  BY <1>8, <1>9
<1>11. ~(m < n) /\ ~(n < m)
  BY <1>9, <1>10 DEF T
<1> QED
  BY <1>9, <1>11

\* From one element met to those before it.
LEMMA WalkBefore ==
  ASSUME NEW first, NEW link, NEW n \in 0 .. Cardinality(Elements), Walk(first, link)[n] # NULL
  PROVE  \A m \in 0 .. n : Walk(first, link)[m] # NULL
<1> DEFINE N == Cardinality(Elements)
           W == Walk(first, link)
           T == {k \in Nat : k <= n => W[n - k] # NULL}
<1>1. N \in Nat /\ \A k \in 0 .. N - 1 : W[k + 1] = Onward(W[k], link)
  BY Constants, WalkIs
<1>2. n \in 0 .. N /\ W[n] # NULL
  OBVIOUS
<1> HIDE DEF N, W
<1>3. 0 \in T
  BY <1>2
<1>4. ASSUME NEW k \in Nat, k \in T PROVE k + 1 \in T
  <2>1. CASE k + 1 <= n
    <3> DEFINE a == n - (k + 1)
    <3>1. a \in 0 .. N - 1 /\ a + 1 = n - k
      BY <1>1, <1>2, <2>1
    <3>2. W[n - k] # NULL
      BY <1>4, <2>1
    <3> HIDE DEF a
    <3>3. W[a] # NULL
      BY <1>1, <3>1, <3>2 DEF Onward
    <3> QED
      BY <3>3 DEF a
  <2>2. CASE ~(k + 1 <= n)
    BY <2>2
  <2> QED
    BY <2>1, <2>2
<1> HIDE DEF T
<1>5. Nat \subseteq T
  BY <1>3, <1>4, InductionOnNat
<1>6. ASSUME NEW m \in 0 .. n PROVE W[m] # NULL
  <2>1. n - m \in Nat /\ n - m <= n /\ n - (n - m) = m
    BY <1>1, <1>2
  <2>2. n - m \in T
    BY <1>5, <2>1
  <2> QED
    BY <2>1, <2>2 DEF T
<1> QED
  BY <1>6 DEF W

\* The walk ends.
LEMMA WalkEnds ==
  ASSUME NEW S \in SUBSET Elements, NEW first, NEW link, Chain(S, first, link)
  PROVE  Walk(first, link)[Cardinality(Elements)] = NULL
<1> DEFINE N == Cardinality(Elements)
           W == Walk(first, link)
           D == 0 .. N
           f == [n \in D |-> W[n]]
<1>1. SUFFICES ASSUME W[N] # NULL PROVE FALSE
  OBVIOUS
<1>2. N \in Nat /\ IsFiniteSet(Elements)
  BY Constants
<1>3. \A n \in D : W[n] # NULL
  BY <1>1, <1>2, WalkBefore
<1>4. \A n \in D : W[n] \in S \cup {NULL}
  BY WalkStays
<1>5. \A m, n \in D : W[m] = W[n] => m = n
  BY <1>3, WalkOnce
<1> HIDE DEF W
<1>6. f \in Injection(D, Elements)
  <2> HIDE DEF D
  <2> QED
    BY <1>3, <1>4, <1>5 DEF Injection, IsInjective
<1>7. Cardinality(D) <= N
  <2> HIDE DEF D, f
  <2> QED
    BY <1>2, <1>6, FS_Injection
<1>8. Cardinality(D) = N + 1
  <2> HIDE DEF N
  <2> QED
    BY <1>2, FS_Interval
<1> QED
  BY <1>2, <1>7, <1>8

\* It meets every element of the chain, each of them once.
LEMMA WalkMeets ==
  ASSUME NEW S \in SUBSET Elements, NEW first, NEW link, Chain(S, first, link)
  PROVE  /\ S = {Walk(first, link)[n] : n \in Met(first, link)}
         /\ IsFiniteSet(Met(first, link)) /\ Cardinality(Met(first, link)) = Cardinality(S)
<1> DEFINE N == Cardinality(Elements)
           W == Walk(first, link)
           M == Met(first, link)
           T == {W[n] : n \in M}
<1>1. N \in Nat /\ W[0] = first /\ \A k \in 0 .. N - 1 : W[k + 1] = Onward(W[k], link)
  BY Constants, WalkIs
<1>2. W[N] = NULL
  BY WalkEnds
<1>3. \A n \in 0 .. N : W[n] \in S \cup {NULL}
  BY WalkStays
<1>4. \A n \in 0 .. N : n \in M <=> W[n] # NULL
  BY DEF Met
<1>5. M \in SUBSET (0 .. N)
  BY DEF Met
<1>6. \A m, n \in M : W[m] = W[n] => m = n
  BY <1>4, <1>5, WalkOnce
<1>7. NULL \notin S /\ (first = NULL <=> S = {})
  BY Constants, ChainLinks
<1> HIDE DEF N, W, M
<1>8. T \in SUBSET S
  BY <1>3, <1>4, <1>5
<1>9. S = T
  <2>1. CASE S = {}
    BY <1>8, <2>1
  <2>2. CASE S # {}
    <3>1. first \in T
      BY <1>1, <1>4, <1>7, <2>2
    <3>2. ASSUME NEW n \in M PROVE link[W[n]] \in T \cup {NULL}
      <4>1. n \in 0 .. N - 1 /\ n + 1 \in 0 .. N
        BY <1>1, <1>2, <1>4, <1>5
      <4>2. W[n + 1] = link[W[n]]
        BY <1>1, <1>4, <1>5, <4>1 DEF Onward
      <4>3. n + 1 \in M \/ W[n + 1] = NULL
        BY <1>4, <4>1
      <4> QED
        BY <4>2, <4>3
    <3>3. \A e \in T : link[e] \in T \cup {NULL}
      BY <3>2
    <3> HIDE DEF T
    <3> QED
      BY <1>8, <3>1, <3>3 DEF Chain
  <2> QED
    BY <2>1, <2>2
<1>10. IsFiniteSet(M)
  <2>1. IsFiniteSet(0 .. N)
    BY <1>1, FS_Interval
  <2> QED
    BY <1>5, <2>1, FS_Subset
<1>11. Cardinality(M) = Cardinality(S)
  <2> DEFINE f == [n \in M |-> W[n]]
  <2>1. f \in [M -> S]
    BY <1>8
  <2>2. f \in Bijection(M, S)
    BY <1>6, <1>9, <2>1 DEF Bijection, Injection, Surjection, IsInjective
  <2>3. ExistsBijection(M, S)
    BY <2>2 DEF ExistsBijection
  <2> QED
    BY <1>10, <2>3, FS_Bijection
<1> QED
  BY <1>9, <1>10, <1>11 DEF M, W

\* And the way back leads from each to the one before it.
LEMMA WalkBack ==
  ASSUME NEW S \in SUBSET Elements, NEW first, NEW link, NEW back,
         Chain(S, first, link), Back(S, first, link, back)
  PROVE  BackLinked(first, link, back)
<1> DEFINE N == Cardinality(Elements)
           W == Walk(first, link)
<1>1. N \in Nat /\ W[0] = first /\ \A k \in 0 .. N - 1 : W[k + 1] = Onward(W[k], link)
  BY Constants, WalkIs
<1>2. \A n \in 0 .. N : W[n] \in S \cup {NULL}
  BY WalkStays
<1>3. \A e \in S : link[e] # first
  BY ChainLinks
<1>4. \A d, e \in S : link[d] = link[e] /\ link[d] # NULL => d = e
  BY DEF Chain
<1>5. \A e \in S : IF e = first THEN back[e] = NULL ELSE back[e] \in S /\ link[back[e]] = e
  BY DEF Back
<1> HIDE DEF N, W
<1>6. ASSUME NEW n \in 0 .. N, W[n] # NULL
      PROVE  back[W[n]] = IF n = 0 THEN NULL ELSE W[n - 1]
  <2>1. W[n] \in S
    BY <1>2, <1>6
  <2>2. CASE n = 0
    BY <1>1, <1>5, <2>1, <2>2
  <2>3. CASE n # 0
    <3> DEFINE m == n - 1
    <3>1. m \in 0 .. N - 1 /\ m \in 0 .. N /\ m + 1 = n
      BY <1>1, <2>3
    <3> HIDE DEF m
    <3>2. W[n] = Onward(W[m], link) /\ W[m] \in S \cup {NULL}
      BY <1>1, <1>2, <3>1
    <3>3. W[m] \in S /\ W[n] = link[W[m]]
      BY <1>6, <3>2 DEF Onward
    <3>4. back[W[n]] \in S /\ link[back[W[n]]] = W[n]
      BY <1>3, <1>5, <2>1, <3>3
    <3>5. back[W[n]] = W[m]
      BY <1>4, <1>6, <3>3, <3>4
    <3> QED
      BY <2>3, <3>5 DEF m
  <2> QED
    BY <2>2, <2>3
<1> QED
  BY <1>6 DEF BackLinked, Met, N, W

\* The elements met in all chains, with their places.
Places(n, heads) == UNION {{b} \X Met(heads[b], hh_next) : b \in 0 .. n - 1}

LEMMA PlacesCount ==
  ASSUME NEW S \in SUBSET Elements, NEW n \in Nat, n > 0, NEW heads,
         \A b \in 0 .. n - 1 : Chain(Part(S, n, b), heads[b], hh_next)
  PROVE  Cardinality(Places(n, heads)) = Cardinality(S)
<1> DEFINE D == 0 .. n - 1
           M(b) == Met(heads[b], hh_next)
           W(b) == Walk(heads[b], hh_next)
           P(b) == Part(S, n, b)
           bkt1(e) == HASH_TO_BKT(hashv(e), n)
<1>1. ASSUME NEW b \in D
      PROVE  /\ P(b) = {W(b)[k] : k \in M(b)}
             /\ \A k, l \in M(b) : W(b)[k] = W(b)[l] => k = l
  <2>1. Part(S, n, b) \in SUBSET Elements /\ Chain(Part(S, n, b), heads[b], hh_next)
    BY DEF Part
  <2>2. Part(S, n, b) = {Walk(heads[b], hh_next)[k] : k \in Met(heads[b], hh_next)}
    <3> DEFINE c == Part(S, n, b)
               first == heads[b]
    <3>1. c \in SUBSET Elements /\ Chain(c, first, hh_next)
      BY <2>1
    <3> HIDE DEF c, first
    <3>2. c = {Walk(first, hh_next)[k] : k \in Met(first, hh_next)}
      BY <3>1, WalkMeets
    <3> QED
      BY <3>2 DEF c, first
  <2>3. ASSUME NEW k \in M(b), NEW l \in M(b), W(b)[k] = W(b)[l] PROVE k = l
    <3>1. k \in 0 .. Cardinality(Elements) /\ l \in 0 .. Cardinality(Elements) /\ W(b)[k] # NULL
      BY DEF Met
    <3> QED
      BY <2>1, <2>3, <3>1, WalkOnce
  <2> QED
    BY <2>2, <2>3
<1>2. \A b, e : e \in P(b) <=> e \in S /\ bkt1(e) = b
  BY DEF Part
<1>3. \A e \in S : bkt1(e) \in D
  BY Hashed
<1>4. \A q : q \in Places(n, heads) <=> \E b \in D : \E k \in M(b) : q = <<b, k>>
  BY DEF Places
<1> HIDE DEF D, M, W, P, bkt1
<1> DEFINE Q == Places(n, heads)
           g == [q \in Q |-> W(q[1])[q[2]]]
<1> HIDE DEF Q
<1>5. \A q \in Q : g[q] \in P(q[1]) /\ q[1] \in D /\ q[2] \in M(q[1]) /\ q = <<q[1], q[2]>>
  BY <1>1, <1>4 DEF Q
<1>6. g \in [Q -> S]
  BY <1>2, <1>5
<1>7. \A p, q \in Q : g[p] = g[q] => p = q
  <2> SUFFICES ASSUME NEW p \in Q, NEW q \in Q, g[p] = g[q] PROVE p = q
    OBVIOUS
  <2>1. p[1] = q[1]
    BY <1>2, <1>5
  <2>2. p[2] = q[2]
    BY <1>1, <1>5, <2>1
  <2> QED
    BY <1>5, <2>1, <2>2
<1>8. \A e \in S : \E q \in Q : g[q] = e
  <2> SUFFICES ASSUME NEW e \in S PROVE \E q \in Q : g[q] = e
    OBVIOUS
  <2>1. PICK b \in D : e \in P(b)
    BY <1>2, <1>3
  <2>2. PICK k \in M(b) : W(b)[k] = e
    BY <1>1, <2>1
  <2>3. <<b, k>> \in Q
    BY <1>4 DEF Q
  <2> QED
    BY <2>2, <2>3
<1> HIDE DEF g
<1>9. g \in Injection(Q, S)
  BY <1>6, <1>7 DEF Injection, IsInjective
<1>10. g \in Surjection(Q, S)
  BY <1>6, <1>8 DEF Surjection
<1>11. IsFiniteSet(S)
  BY Constants, FS_Subset
<1> QED
  BY <1>9, <1>10, <1>11, FS_Injection DEF Q

\* HASH_FSCK finds nothing wrong after any HASH_ADD_STR or HASH_DEL, whatever
\* the usernames hash to, and the elements are those added and not deleted.
THEOREM TableIsSound == Spec => []Integrity
<1>1. IInv => Integrity
  <2> SUFFICES ASSUME IInv, upc \in {"idle", "close"}
               PROVE  HASH_FSCK /\ entries = {Walk(head, next)[n] : n \in Met(head, next)}
    BY DEF Integrity
  <2>1. TableInv /\ ListInv /\ LinksOK /\ tbl.num_buckets \in Nat /\ (tbl # NoTable <=> tbl.num_buckets > 0)
        /\ entries \in SUBSET Elements
    BY TableIs DEF IInv, LinksOK
  <2>2. Linked = entries /\ Chained = entries
    BY DEF Linked, Chained, Adding, Building
  <2>3. Chain(entries, head, next) /\ Back(entries, head, next, prev)
    BY <2>1, <2>2 DEF ListInv
  <2>4. /\ entries = {Walk(head, next)[n] : n \in Met(head, next)}
        /\ Cardinality(Met(head, next)) = Cardinality(entries) /\ BackLinked(head, next, prev)
    BY <2>1, <2>3, WalkMeets, WalkBack
  <2>5. ASSUME head # NULL PROVE HASH_FSCK
    <3> DEFINE n == tbl.num_buckets
               heads == [b \in 0 .. n - 1 |-> tbl.buckets[b].hh_head]
               all == UNION {{b} \X Met(tbl.buckets[b].hh_head, hh_next) : b \in 0 .. n - 1}
    <3>1. n \in Nat /\ n > 0 /\ tbl # NoTable /\ tbl.num_items = Cardinality(entries)
      BY <2>1, <2>2, <2>5, StillIs DEF ListInv
    <3>2. ASSUME NEW b \in 0 .. n - 1
          PROVE  BucketOK(Part(entries, n, b), tbl.buckets[b].hh_head, tbl.buckets[b].count)
      BY <2>1, <2>2, <3>1 DEF TableInv, ChainsInv, FirstIn, Building
    <3>3. ASSUME NEW b \in 0 .. n - 1
          PROVE  /\ BackLinked(tbl.buckets[b].hh_head, hh_next, hh_prev)
                 /\ tbl.buckets[b].count = Cardinality(Met(tbl.buckets[b].hh_head, hh_next))
      <4> DEFINE P == Part(entries, n, b)
                 first == tbl.buckets[b].hh_head
      <4>1. Chain(P, first, hh_next) /\ Back(P, first, hh_next, hh_prev) /\ tbl.buckets[b].count = Cardinality(P)
        BY <3>2 DEF BucketOK
      <4>2. P \in SUBSET Elements
        BY <2>1 DEF Part
      <4> HIDE DEF P, first
      <4>3. BackLinked(first, hh_next, hh_prev) /\ Cardinality(Met(first, hh_next)) = Cardinality(P)
        BY <4>1, <4>2, WalkMeets, WalkBack
      <4> QED
        BY <4>1, <4>3 DEF first
    <3>4. Cardinality(all) = Cardinality(entries)
      <4>1. all = Places(n, heads)
        BY DEF Places
      <4>2. \A b \in 0 .. n - 1 : Chain(Part(entries, n, b), heads[b], hh_next)
        BY <3>2 DEF BucketOK
      <4> HIDE DEF all, heads, n
      <4>3. Cardinality(Places(n, heads)) = Cardinality(entries)
        BY <2>1, <3>1, <4>2, PlacesCount
      <4> QED
        BY <4>1, <4>3
    <3> QED
      BY <2>4, <3>1, <3>3, <3>4 DEF HASH_FSCK
  <2> QED
    BY <2>4, <2>5 DEF HASH_FSCK
<1> QED
  BY <1>1, UthashInvariance, PTL

=============================================================================
