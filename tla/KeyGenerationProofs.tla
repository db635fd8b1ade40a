-------------------------- MODULE KeyGenerationProofs --------------------------
(***************************************************************************)
(* What holds of the shared random numbers for any number of threads, any  *)
(* length of key, any generator and any time.                              *)
(***************************************************************************)
EXTENDS KeyGeneration, FiniteSetTheorems, TLAPS

Place == [seed : Seeds, at : Nat]

\* The types of what the argument is about; the numbers themselves are not.
StateTypes ==
  /\ rand_initiated \in BOOLEAN /\ second \in FirstSecond .. LastSecond
  /\ rand \in [seed : Seeds, taken : Nat]
  /\ pc \in [Threads -> Labels] /\ seed \in [Threads -> Seeds]
  /\ places \in [Threads -> Seq(Place)]
  /\ reseeded \in [Threads -> BOOLEAN] /\ unready \in [Threads -> BOOLEAN]

\* A thread is past the flag only when it is set, and comes to srand before its
\* first draw or never, with a second of the clock.
Flagged ==
  \A t \in Threads :
    /\ pc[t] \in {"srand", "rand", "invert", "done"} \/ places[t] # <<>> => rand_initiated
    /\ pc[t] \in {"init_rand", "srand"} => places[t] = <<>>
    /\ pc[t] = "srand" => seed[t] # Default

\* Between the flag and the first srand there is a thread that will call it.
Pending == rand_initiated /\ rand.seed = Default => \E u \in Threads : pc[u] = "srand"

\* The draws of a thread go forward in one stream until another calls srand.
Behind(t, i) == places[t][i].seed = rand.seed /\ places[t][i].at <= rand.taken
Forward ==
  \A t \in Threads : ~reseeded[t] =>
    \A i \in 1 .. Len(places[t]) :
      Behind(t, i) /\ \A j \in 1 .. i - 1 : places[t][j].at < places[t][i].at

\* The inductive invariant.
KInv == StateTypes /\ Flagged /\ Pending /\ SeededBeforeUse /\ Forward

USE ClockAssumption

\* No second of the clock is the seed of a generator that nobody has seeded.
LEMMA SecondsAreSeeds == \A s \in FirstSecond .. LastSecond : s \in Seeds /\ s # Default
BY DEF Seeds, Default

LEMMA KInit == Init => KInv
<1> SUFFICES ASSUME Init PROVE KInv
  OBVIOUS
<1>1. \A t \in Threads : places[t] = <<>> /\ pc[t] = "test"
  BY DEF Init
<1>2. StateTypes
  <2>1. Default \in Seeds
    BY DEF Seeds
  <2>2. rand \in [seed : Seeds, taken : Nat]
    BY <2>1 DEF Init
  <2>3. places \in [Threads -> Seq(Place)]
    BY DEF Init
  <2>4. second \in FirstSecond .. LastSecond
    BY DEF Init
  <2> QED
    BY <2>1, <2>2, <2>3, <2>4 DEF Init, StateTypes, Labels
<1>3. Flagged /\ Pending
  BY <1>1 DEF Init, Flagged, Pending
<1>4. SeededBeforeUse /\ Forward
  BY <1>1 DEF SeededBeforeUse, Forward
<1> QED
  BY <1>2, <1>3, <1>4 DEF KInv

\* The draws of a thread are counted, and each has its place in a stream.
LEMMA PlacesAreCounted ==
  ASSUME StateTypes, NEW t \in Threads
  PROVE  Len(places[t]) \in Nat /\ \A i \in 1 .. Len(places[t]) : places[t][i].at \in Nat
<1>1. places[t] \in Seq(Place)
  BY DEF StateTypes
<1>2. Len(places[t]) \in Nat /\ \A i \in 1 .. Len(places[t]) : places[t][i] \in Place
  BY <1>1
<1> QED
  BY <1>2 DEF Place

\* What a draw does to what the argument is about.
LEMMA DrawEffect ==
  ASSUME StateTypes, NEW t \in Threads, Draw(t)
  PROVE  LET place == [seed |-> rand.seed, at |-> rand.taken + 1]
         IN /\ pc[t] = "rand"
            /\ place \in Place
            /\ places' = [places EXCEPT ![t] = Append(places[t], place)]
            /\ rand' = [rand EXCEPT !.taken = rand.taken + 1]
            /\ unready' = [unready EXCEPT ![t] = unready[t] \/ \E u \in Threads : pc[u] = "srand"]
            /\ \E label \in {"test", "invert"} : pc' = [pc EXCEPT ![t] = label]
            /\ UNCHANGED <<rand_initiated, second, seed, reseeded>>
<1>1. After(Len(places[t]) + 1) \in {"test", "invert"}
  BY DEF After
<1>2. [seed |-> rand.seed, at |-> rand.taken + 1] \in Place
  BY DEF StateTypes, Place
<1> QED
  BY <1>1, <1>2 DEF Draw, Goto

LEMMA StateTypesStep == StateTypes /\ [Next]_vars => StateTypes'
<1> SUFFICES ASSUME StateTypes, [Next]_vars PROVE StateTypes'
  OBVIOUS
<1> USE DEF StateTypes
<1>1. CASE UNCHANGED vars
  BY <1>1 DEF vars, history
<1>2. CASE Tick
  BY <1>2 DEF Tick, history
<1>3. ASSUME NEW t \in Threads, Test(t) PROVE StateTypes'
  BY <1>3 DEF Test, Goto, history, Labels
<1>4. ASSUME NEW t \in Threads, InitRand(t) PROVE StateTypes'
  BY <1>4, SecondsAreSeeds DEF InitRand, Goto, history, Labels
<1>5. ASSUME NEW t \in Threads, Seed(t) PROVE StateTypes'
  BY <1>5 DEF Seed, Goto, Labels
<1>6. ASSUME NEW t \in Threads, Draw(t) PROVE StateTypes'
  <2>1. Append(places[t], [seed |-> rand.seed, at |-> rand.taken + 1]) \in Seq(Place)
    BY <1>6, DrawEffect
  <2>2. places' \in [Threads -> Seq(Place)]
    <3>1. places' = [places EXCEPT ![t] = Append(places[t], [seed |-> rand.seed, at |-> rand.taken + 1])]
      BY <1>6, DrawEffect
    <3> QED
      BY <2>1, <3>1
  <2>3. rand' \in [seed : Seeds, taken : Nat]
    <3>1. rand' = [rand EXCEPT !.taken = rand.taken + 1]
      BY <1>6, DrawEffect
    <3>2. rand \in [seed : Seeds, taken : Nat]
      BY DEF StateTypes
    <3>3. rand.taken + 1 \in Nat
      BY <3>2
    <3> HIDE DEF StateTypes
    <3> QED
      BY <3>1, <3>2, <3>3
  <2>4. pc' \in [Threads -> Labels] /\ unready' \in [Threads -> BOOLEAN]
    BY <1>6, DrawEffect DEF Labels
  <2> QED
    BY <1>6, <2>2, <2>3, <2>4, DrawEffect
<1>7. ASSUME NEW t \in Threads, Invert(t) PROVE StateTypes'
  BY <1>7 DEF Invert, Goto, history, Labels
<1> QED
  BY <1>1, <1>2, <1>3, <1>4, <1>5, <1>6, <1>7 DEF Next, rsa_init_keys

LEMMA FlagStep == KInv /\ [Next]_vars => Flagged' /\ Pending'
<1> SUFFICES ASSUME KInv, [Next]_vars PROVE Flagged' /\ Pending'
  OBVIOUS
<1> USE DEF KInv, StateTypes, Flagged, Pending
<1>1. CASE UNCHANGED vars
  BY <1>1 DEF vars, history
<1>2. CASE Tick
  BY <1>2 DEF Tick, history
<1>3. ASSUME NEW t \in Threads, Test(t) PROVE Flagged' /\ Pending'
  BY <1>3 DEF Test, Goto, history
<1>4. ASSUME NEW t \in Threads, InitRand(t) PROVE Flagged' /\ Pending'
  BY <1>4, SecondsAreSeeds DEF InitRand, Goto, history
<1>5. ASSUME NEW t \in Threads, Seed(t) PROVE Flagged' /\ Pending'
  <2>1. rand'.seed # Default
    BY <1>5 DEF Seed
  <2> QED
    BY <1>5, <2>1 DEF Seed, Goto
<1>6. ASSUME NEW t \in Threads, Draw(t) PROVE Flagged' /\ Pending'
  <2>1. rand'.seed = rand.seed
    BY <1>6, DrawEffect
  <2>2. rand_initiated
    BY <1>6, DrawEffect
  <2>3. \A u \in Threads \ {t} : pc'[u] = pc[u] /\ places'[u] = places[u]
    BY <1>6, DrawEffect
  <2>4. pc[t] = "rand" /\ pc'[t] \in {"test", "invert"}
    BY <1>6, DrawEffect
  <2>5. rand_initiated' = rand_initiated /\ seed' = seed
    BY <1>6, DrawEffect
  <2>6. Flagged'
    BY <2>2, <2>3, <2>4, <2>5
  <2>7. Pending'
    <3>1. SUFFICES ASSUME rand.seed = Default PROVE \E u \in Threads : pc'[u] = "srand"
      BY <2>1
    <3>2. PICK u \in Threads : pc[u] = "srand"
      BY <2>2, <3>1
    <3> QED
      BY <2>3, <2>4, <3>2
  <2> QED
    BY <2>6, <2>7
<1>7. ASSUME NEW t \in Threads, Invert(t) PROVE Flagged' /\ Pending'
  BY <1>7 DEF Invert, Goto, history
<1> QED
  BY <1>1, <1>2, <1>3, <1>4, <1>5, <1>6, <1>7 DEF Next, rsa_init_keys

\* The steps that touch neither the generator nor what was drawn.
LEMMA QuietStep ==
  ASSUME KInv, UNCHANGED <<rand, history>>
  PROVE  SeededBeforeUse' /\ Forward'
BY DEF KInv, SeededBeforeUse, Forward, Behind, history

\* srand by t leaves behind only draws of threads that are marked by it.
LEMMA SeedStep ==
  ASSUME KInv, NEW t \in Threads, Seed(t)
  PROVE  SeededBeforeUse' /\ Forward'
<1>1. SeededBeforeUse'
  BY DEF KInv, SeededBeforeUse, Seed
<1>2. places[t] = <<>>
  BY DEF KInv, Flagged, Seed
<1>3. \A u \in Threads : ~reseeded'[u] => places'[u] = <<>>
  BY <1>2 DEF Seed
<1> QED
  BY <1>1, <1>3 DEF Forward

\* A draw by t extends its own places past all of them.
LEMMA DrawStep ==
  ASSUME KInv, NEW t \in Threads, Draw(t)
  PROVE  SeededBeforeUse' /\ Forward'
<1> DEFINE place == [seed |-> rand.seed, at |-> rand.taken + 1]
           k == Len(places[t]) + 1
<1>1. /\ places[t] \in Seq(Place) /\ place \in Place /\ k - 1 \in Nat
      /\ rand.taken \in Nat /\ places \in [Threads -> Seq(Place)]
  BY DrawEffect DEF KInv, StateTypes
<1>2. /\ Len(places'[t]) = k
      /\ places'[t][k] = place
      /\ \A i \in 1 .. k - 1 : places'[t][i] = places[t][i]
  <2>1. places'[t] = Append(places[t], place)
    BY <1>1, DrawEffect DEF KInv
  <2> QED
    BY <1>1, <2>1
<1>3. \A u \in Threads \ {t} : places'[u] = places[u] /\ unready'[u] = unready[u]
  BY DrawEffect DEF KInv, StateTypes
<1>4. rand'.seed = rand.seed /\ rand'.taken = rand.taken + 1 /\ reseeded' = reseeded
  BY DrawEffect DEF KInv, StateTypes
<1>5. SeededBeforeUse'
  <2>1. /\ unready[t] => unready'[t]
        /\ rand.seed = Default => unready'[t]
    BY DrawEffect DEF KInv, StateTypes, Flagged, Pending
  <2>2. \A i \in 1 .. k : places'[t][i].seed = Default => unready'[t]
    BY <1>1, <1>2, <2>1 DEF KInv, SeededBeforeUse
  <2> QED
    BY <1>2, <1>3, <2>2 DEF KInv, SeededBeforeUse
<1>6. Forward'
  <2> SUFFICES ASSUME NEW u \in Threads, ~reseeded[u], NEW i \in 1 .. Len(places'[u])
               PROVE  Behind(u, i)' /\ \A j \in 1 .. i - 1 : places'[u][j].at < places'[u][i].at
    BY <1>4 DEF Forward
  <2>1. \A m \in 1 .. Len(places[u]) :
          /\ places[u][m].seed = rand.seed /\ places[u][m].at <= rand.taken
          /\ places[u][m].at \in Nat
          /\ \A j \in 1 .. m - 1 : places[u][j].at < places[u][m].at
    BY PlacesAreCounted DEF KInv, Forward, Behind
  <2>2. CASE u # t
    <3>1. places'[u] = places[u]
      BY <1>3, <2>2
    <3>2. places[u][i].seed = rand'.seed /\ places[u][i].at <= rand'.taken
      BY <1>1, <1>4, <2>1, <3>1
    <3> QED
      BY <2>1, <3>1, <3>2 DEF Behind
  <2>3. CASE u = t /\ i < k
    <3>1. places'[t][i] = places[t][i] /\ i \in 1 .. Len(places[t])
      BY <1>1, <1>2, <2>3
    <3>2. \A j \in 1 .. i - 1 : places'[t][j] = places[t][j]
      BY <1>1, <1>2, <2>3
    <3>3. places[t][i].seed = rand'.seed /\ places[t][i].at <= rand'.taken
      BY <1>1, <1>4, <2>1, <2>3, <3>1
    <3> QED
      BY <2>1, <2>3, <3>1, <3>2, <3>3 DEF Behind
  <2>4. CASE u = t /\ i = k
    <3>1. \A j \in 1 .. k - 1 : places'[t][j].at < place.at
      <4> SUFFICES ASSUME NEW j \in 1 .. k - 1 PROVE places'[t][j].at < place.at
        OBVIOUS
      <4>1. places'[t][j] = places[t][j] /\ j \in 1 .. Len(places[t])
        BY <1>1, <1>2
      <4>2. places[t][j].at <= rand.taken /\ places[t][j].at \in Nat
        BY <2>1, <2>4, <4>1
      <4> QED
        BY <1>1, <4>1, <4>2
    <3> QED
      BY <1>1, <1>2, <1>4, <2>4, <3>1 DEF Behind
  <2> QED
    BY <1>1, <1>2, <2>2, <2>3, <2>4
<1> QED
  BY <1>5, <1>6

\* Every step keeps the invariant.
LEMMA KStep == KInv /\ [Next]_vars => KInv'
<1> SUFFICES ASSUME KInv, [Next]_vars PROVE SeededBeforeUse' /\ Forward'
  BY StateTypesStep, FlagStep DEF KInv
<1>1. CASE UNCHANGED vars
  BY <1>1, QuietStep DEF vars
<1>2. CASE Tick
  BY <1>2, QuietStep DEF Tick
<1>3. ASSUME NEW t \in Threads, Test(t) \/ InitRand(t) \/ Invert(t) PROVE SeededBeforeUse' /\ Forward'
  BY <1>3, QuietStep DEF Test, InitRand, Invert
<1>4. ASSUME NEW t \in Threads, Seed(t) PROVE SeededBeforeUse' /\ Forward'
  BY <1>4, SeedStep
<1>5. ASSUME NEW t \in Threads, Draw(t) PROVE SeededBeforeUse' /\ Forward'
  BY <1>5, DrawStep
<1> QED
  BY <1>1, <1>2, <1>3, <1>4, <1>5 DEF Next, rsa_init_keys

LEMMA KInvariant == Spec => []KInv
<1>1. Init => KInv
  BY KInit
<1>2. KInv /\ [Next]_vars => KInv'
  BY KStep
<1> QED
  BY <1>1, <1>2, PTL DEF Spec

\* However the threads overlap, q and p of one key come from the same output of
\* rand() only if another thread called srand between them.
THEOREM PrimesAreFresh == Spec => []PrimesFresh
<1>1. KInv => PrimesFresh
  <2> SUFFICES ASSUME KInv, NEW t \in Threads, ~reseeded[t],
                      NEW i \in 1 .. Len(places[t]), NEW j \in 1 .. Len(places[t]), i # j
               PROVE  places[t][i] # places[t][j]
    BY DEF PrimesFresh
  <2>1. Len(places[t]) \in Nat /\ places[t][i].at \in Nat /\ places[t][j].at \in Nat
    BY PlacesAreCounted DEF KInv
  <2>2. CASE i < j
    <3>1. places[t][i].at < places[t][j].at
      BY <2>1, <2>2 DEF KInv, Forward
    <3> QED
      BY <2>1, <3>1
  <2>3. CASE j < i
    <3>1. places[t][j].at < places[t][i].at
      BY <2>1, <2>3 DEF KInv, Forward
    <3> QED
      BY <2>1, <3>1
  <2> QED
    BY <2>1, <2>2, <2>3
<1> QED
  BY <1>1, KInvariant, PTL

\* A thread draws from a generator that nobody has seeded only while another is
\* between setting the flag and calling srand.
THEOREM SeededOrInTheWindow == Spec => []SeededBeforeUse
<1>1. KInv => SeededBeforeUse
  BY DEF KInv
<1> QED
  BY <1>1, KInvariant, PTL

-----------------------------------------------------------------------------
(* The numbers                                                             *)

\* A thread that is not through draws three times at most.
CountedDraws ==
  \A t \in Threads :
    /\ Len(places[t]) \in Taken
    /\ pc[t] \in {"test", "init_rand", "srand", "rand"} => Len(places[t]) < DRAWS

NumberTypes ==
  /\ stream \in [Seeds -> Seq(RandValues)]
  /\ q \in [Threads -> Nat] /\ p \in [Threads -> Nat] /\ private \in [Threads -> Nat]
  /\ public \in [Threads -> Nat] /\ n \in [Threads -> Nat]

TInv == StateTypes /\ CountedDraws /\ NumberTypes

\* The step of the loop over q, p and key_private.
LEMMA AfterIs ==
  ASSUME NEW draw \in 1 .. DRAWS
  PROVE  After(draw) = IF draw < DRAWS THEN "test" ELSE "invert"
BY DEF After

LEMMA InverseIsNat ==
  ASSUME NEW x \in Nat, NEW v \in Int
  PROVE  mpz_invert(x, v) \in Nat
<1>1. CASE \E y \in 1 .. v - 1 : (x * y) % v = 1
  <2> DEFINE y == CHOOSE y \in 1 .. v - 1 : (x * y) % v = 1
  <2>1. y \in 1 .. v - 1
    BY <1>1
  <2>2. mpz_invert(x, v) = y
    BY <1>1 DEF mpz_invert
  <2> HIDE DEF y
  <2> QED
    BY <2>1, <2>2
<1>2. CASE ~ \E y \in 1 .. v - 1 : (x * y) % v = 1
  BY <1>2 DEF mpz_invert
<1> QED
  BY <1>1, <1>2

LEMMA ProductIsNat == \A x, y \in Nat : x * y \in Nat
OBVIOUS

LEMMA TInit == Init => TInv
<1> SUFFICES ASSUME Init PROVE TInv
  OBVIOUS
<1>1. StateTypes
  BY KInit DEF KInv
<1>2. CountedDraws
  <2>1. \A t \in Threads : places[t] = <<>>
    BY DEF Init
  <2>2. Len(<<>>) = 0
    OBVIOUS
  <2>3. 0 \in Taken /\ 0 < DRAWS
    BY DEF Taken, DRAWS
  <2>4. \A t \in Threads : Len(places[t]) = 0
    BY <2>1, <2>2, Zenon
  <2> QED
    BY <2>3, <2>4, Zenon DEF CountedDraws
<1>3. NumberTypes
  BY DEF Init, NumberTypes
<1> QED
  BY <1>1, <1>2, <1>3 DEF TInv

\* A draw appends its place, and sets one of the numbers to a prime.
LEMMA DrawGives ==
  ASSUME TInv, NEW t \in Threads, Draw(t)
  PROVE  LET draw == Len(places[t]) + 1
             place == [seed |-> rand.seed, at |-> rand.taken + 1]
         IN /\ draw \in 1 .. DRAWS
            /\ Len(places'[t]) = draw
            /\ places' = [places EXCEPT ![t] = Append(places[t], place)]
            /\ pc' = [pc EXCEPT ![t] = After(draw)]
            /\ UNCHANGED <<public, n>>
            /\ stream' \in [Seeds -> Seq(RandValues)]
            /\ \E prime \in Nat :
                 /\ Prime(prime)
                 /\ q' = [q EXCEPT ![t] = IF draw = 1 THEN prime ELSE q[t]]
                 /\ p' = [p EXCEPT ![t] = IF draw = 2 THEN prime ELSE p[t]]
                 /\ private' = [private EXCEPT ![t] = IF draw = DRAWS THEN prime ELSE private[t]]
<1> DEFINE draw == Len(places[t]) + 1
           place == [seed |-> rand.seed, at |-> rand.taken + 1]
<1>1. draw \in 1 .. DRAWS /\ pc[t] = "rand" /\ Len(places[t]) \in Nat
  BY DEF TInv, CountedDraws, Taken, DRAWS, Draw
<1>2. rand.seed \in Seeds /\ rand.taken \in Nat /\ places \in [Threads -> Seq(Place)] /\ pc \in [Threads -> Labels]
  BY DEF TInv, StateTypes
<1>3. PICK r \in (IF place.at > Len(stream[place.seed]) THEN RandValues ELSE {stream[place.seed][place.at]}) :
        LET prime == bn_getprimeb_random(r, draw)
        IN /\ stream' = IF place.at > Len(stream[place.seed])
                          THEN [stream EXCEPT ![place.seed] = Append(@, r)] ELSE stream
           /\ q' = [q EXCEPT ![t] = IF draw = 1 THEN prime ELSE @]
           /\ p' = [p EXCEPT ![t] = IF draw = 2 THEN prime ELSE @]
           /\ private' = [private EXCEPT ![t] = IF draw = DRAWS THEN prime ELSE @]
           /\ places' = [places EXCEPT ![t] = Append(@, place)]
           /\ pc' = [pc EXCEPT ![t] = After(draw)]
  BY DEF Draw, Goto
<1>4. r \in RandValues
  <2>1. stream[rand.seed] \in Seq(RandValues)
    BY <1>2 DEF TInv, NumberTypes
  <2>2. CASE place.at > Len(stream[place.seed])
    BY <1>3, <2>2
  <2>3. CASE ~(place.at > Len(stream[place.seed]))
    <3>1. rand.taken + 1 \in 1 .. Len(stream[rand.seed])
      BY <1>2, <2>1, <2>3
    <3>2. r = stream[rand.seed][rand.taken + 1]
      BY <1>3, <2>3
    <3> QED
      BY <2>1, <3>1, <3>2
  <2> QED
    BY <2>2, <2>3
<1> DEFINE prime == bn_getprimeb_random(r, draw)
<1>5. prime \in Nat /\ Prime(prime)
  BY <1>1, <1>4, GmpAssumption
<1>6. stream' \in [Seeds -> Seq(RandValues)]
  <2>1. Append(stream[rand.seed], r) \in Seq(RandValues)
    BY <1>2, <1>4 DEF TInv, NumberTypes
  <2> QED
    BY <1>3, <2>1 DEF TInv, NumberTypes
<1>7. Len(places'[t]) = draw
  <2>1. places'[t] = Append(places[t], place) /\ places[t] \in Seq(Place) /\ place \in Place
    BY <1>2, DrawEffect DEF TInv
  <2> QED
    BY <2>1
<1>8. UNCHANGED <<public, n>>
  BY DEF Draw
<1>9. /\ q' = [q EXCEPT ![t] = IF draw = 1 THEN prime ELSE q[t]]
      /\ p' = [p EXCEPT ![t] = IF draw = 2 THEN prime ELSE p[t]]
      /\ private' = [private EXCEPT ![t] = IF draw = DRAWS THEN prime ELSE private[t]]
      /\ places' = [places EXCEPT ![t] = Append(places[t], place)]
      /\ pc' = [pc EXCEPT ![t] = After(draw)]
  BY <1>3
<1> HIDE DEF prime
<1> QED
  BY <1>1, <1>5, <1>6, <1>7, <1>8, <1>9

LEMMA DrawTypes ==
  ASSUME TInv, NEW t \in Threads, Draw(t)
  PROVE  CountedDraws' /\ NumberTypes'
<1> DEFINE draw == Len(places[t]) + 1
           place == [seed |-> rand.seed, at |-> rand.taken + 1]
<1>1. /\ draw \in 1 .. DRAWS /\ Len(places'[t]) = draw
      /\ places' = [places EXCEPT ![t] = Append(places[t], place)]
      /\ pc' = [pc EXCEPT ![t] = After(draw)]
      /\ UNCHANGED <<public, n>> /\ stream' \in [Seeds -> Seq(RandValues)]
  BY DrawGives
<1>2. places \in [Threads -> Seq(Place)] /\ pc \in [Threads -> Labels]
  BY DEF TInv, StateTypes
<1>3. NumberTypes'
  <2>1. PICK prime \in Nat :
          /\ q' = [q EXCEPT ![t] = IF draw = 1 THEN prime ELSE q[t]]
          /\ p' = [p EXCEPT ![t] = IF draw = 2 THEN prime ELSE p[t]]
          /\ private' = [private EXCEPT ![t] = IF draw = DRAWS THEN prime ELSE private[t]]
    BY DrawGives
  <2> HIDE DEF draw
  <2>2. q' \in [Threads -> Nat] /\ p' \in [Threads -> Nat] /\ private' \in [Threads -> Nat]
    BY <2>1 DEF TInv, NumberTypes
  <2> QED
    BY <1>1, <2>2 DEF TInv, NumberTypes
<1>4. CountedDraws'
  <2>1. pc'[t] = IF draw < DRAWS THEN "test" ELSE "invert"
    BY <1>1, <1>2, AfterIs
  <2>2. \A u \in Threads \ {t} : places'[u] = places[u] /\ pc'[u] = pc[u]
    BY <1>1, <1>2
  <2>3. /\ Len(places'[t]) \in Taken
        /\ pc'[t] \in {"test", "init_rand", "srand", "rand"} => Len(places'[t]) < DRAWS
    BY <1>1, <2>1 DEF Taken, DRAWS
  <2> QED
    BY <2>2, <2>3 DEF TInv, CountedDraws
<1> QED
  BY <1>3, <1>4

LEMMA TStep == TInv /\ [Next]_vars => TInv'
<1> SUFFICES ASSUME TInv, [Next]_vars PROVE CountedDraws' /\ NumberTypes'
  BY StateTypesStep DEF TInv
<1>1. pc \in [Threads -> Labels]
  BY DEF TInv, StateTypes
<1>2. CASE UNCHANGED vars \/ Tick
  BY <1>2 DEF vars, Tick, numbers, history, TInv, CountedDraws, NumberTypes
<1>3. ASSUME NEW t \in Threads, Test(t) \/ InitRand(t) PROVE CountedDraws' /\ NumberTypes'
  <2>1. pc[t] \in {"test", "init_rand"} /\ \A u \in Threads \ {t} : pc'[u] = pc[u]
    BY <1>1, <1>3 DEF Test, InitRand, Goto
  <2>2. UNCHANGED <<places, stream, numbers>>
    BY <1>3 DEF Test, InitRand, history
  <2>3. CountedDraws'
    BY <2>1, <2>2 DEF TInv, CountedDraws
  <2> QED
    BY <2>2, <2>3 DEF numbers, TInv, NumberTypes
<1>4. ASSUME NEW t \in Threads, Seed(t) PROVE CountedDraws' /\ NumberTypes'
  <2>1. pc[t] = "srand" /\ \A u \in Threads \ {t} : pc'[u] = pc[u]
    BY <1>1, <1>4 DEF Seed, Goto
  <2>2. UNCHANGED <<places, stream, numbers>>
    BY <1>4 DEF Seed
  <2>3. CountedDraws'
    BY <2>1, <2>2 DEF TInv, CountedDraws
  <2> QED
    BY <2>2, <2>3 DEF numbers, TInv, NumberTypes
<1>5. ASSUME NEW t \in Threads, Draw(t) PROVE CountedDraws' /\ NumberTypes'
  BY <1>5, DrawTypes
<1>6. ASSUME NEW t \in Threads, Invert(t) PROVE CountedDraws' /\ NumberTypes'
  <2>1. pc' = [pc EXCEPT ![t] = "done"] /\ UNCHANGED <<places, stream, q, p, private>>
    BY <1>6 DEF Invert, Goto, history
  <2>2. CountedDraws'
    BY <1>1, <2>1 DEF TInv, CountedDraws
  <2>3. p[t] \in Nat /\ q[t] \in Nat /\ private[t] \in Nat
    BY DEF TInv, NumberTypes
  <2>4. p[t] * q[t] \in Nat
    BY <2>3, ProductIsNat
  <2>5. mpz_invert(private[t], Totient(t)) \in Nat
    <3>1. Totient(t) \in Int
      BY <2>3 DEF Totient
    <3> QED
      BY <2>3, <3>1, InverseIsNat
  <2>6. n' \in [Threads -> Nat] /\ public' \in [Threads -> Nat]
    BY <1>6, <2>4, <2>5 DEF Invert, TInv, NumberTypes
  <2> QED
    BY <2>1, <2>2, <2>6 DEF TInv, NumberTypes
<1> QED
  BY <1>2, <1>3, <1>4, <1>5, <1>6 DEF Next, rsa_init_keys

\* A thread draws three numbers and no more, from one generator that others draw
\* from and seed, and what it computes from them are natural numbers.
THEOREM TypeCorrectness == Spec => []TypeOK
<1>1. TInv => TypeOK
  BY DEF TInv, StateTypes, CountedDraws, NumberTypes, TypeOK
<1>2. Spec => []TInv
  BY TInit, TStep, PTL DEF Spec
<1> QED
  BY <1>1, <1>2, PTL

-----------------------------------------------------------------------------
(* Remainders                                                              *)

HIDE ClockAssumption

\* A set of natural numbers that is not empty has a least member.
LEMMA LeastNatural ==
  ASSUME NEW T \in SUBSET Nat, T # {}
  PROVE  \E m \in T : \A k \in T : m <= k
<1> DEFINE Below(w) == 0 .. w - 1
           D == {Below(w) : w \in T}
<1>1. D \subseteq FiniteSubsetsOf(Nat) /\ D # {}
  <2>1. \A w \in Nat : Below(w) \in SUBSET Nat /\ IsFiniteSet(Below(w))
    BY FS_Interval
  <2> QED
    BY <2>1 DEF FiniteSubsetsOf
<1>2. PICK x \in D : \A y \in D : <<y, x>> \notin StrictSubsetOrdering(Nat)
  <2> DEFINE R == StrictSubsetOrdering(Nat)
             F == FiniteSubsetsOf(Nat)
  <2>1. IsWellFoundedOn(R, F)
    BY FS_StrictSubsetOrderingWellFounded
  <2>2. D \subseteq F /\ D # {}
    BY <1>1
  <2> HIDE DEF D, R, F
  <2>3. \E x \in D : \A y \in D : <<y, x>> \notin R
    BY <2>1, <2>2, WFMin
  <2> QED
    BY <2>3 DEF R
<1>3. PICK m \in T : x = Below(m)
  OBVIOUS
<1>4. ASSUME NEW k \in T, k < m PROVE FALSE
  <2>1. Below(k) \subseteq Below(m) /\ Below(k) # Below(m)
    BY <1>4
  <2>2. <<Below(k), Below(m)>> \in StrictSubsetOrdering(Nat)
    <3>1. Below(k) \in SUBSET Nat /\ Below(m) \in SUBSET Nat
      OBVIOUS
    <3>2. <<Below(k), Below(m)>> \in (SUBSET Nat) \X (SUBSET Nat)
      <4> HIDE DEF Below
      <4> QED
        BY <3>1
    <3> HIDE DEF Below
    <3> QED
      BY <2>1, <3>2 DEF StrictSubsetOrdering
  <2>3. Below(k) \in D
    OBVIOUS
  <2> HIDE DEF Below, D
  <2> QED
    BY <1>2, <1>3, <2>2, <2>3, Zenon
<1> QED
  BY <1>4

\* Induction on a set of natural numbers.
LEMMA InductionOnNat ==
  ASSUME NEW S, 0 \in S, \A w \in Nat : w \in S => w + 1 \in S
  PROVE  Nat \subseteq S
<1>1. SUFFICES ASSUME Nat \ S # {} PROVE FALSE
  OBVIOUS
<1>2. PICK m \in Nat \ S : \A k \in Nat \ S : m <= k
  BY <1>1, LeastNatural
<1>3. m # 0 /\ m - 1 \in Nat
  BY <1>2
<1>4. m - 1 \in S
  BY <1>2, <1>3
<1> QED
  BY <1>2, <1>3, <1>4

\* The remainder, kept apart from the arithmetic of the provers.
Rem(a, m) == a % m

\* What the remainder is: the number less a multiple of m, below m.
LEMMA Division ==
  ASSUME NEW a \in Nat, NEW m \in Nat \ {0}
  PROVE  /\ Rem(a, m) \in 0 .. m - 1 /\ Rem(a, m) \in Nat
         /\ \E k \in Nat : a = m * k + Rem(a, m)
<1>1. a % m \in 0 .. m - 1 /\ a % m \in Nat /\ a \div m \in Nat
  OBVIOUS
<1>2. a = m * (a \div m) + (a % m)
  OBVIOUS
<1> QED
  BY <1>1, <1>2, Zenon DEF Rem

\* Only the remainder is that.
LEMMA Remainder ==
  ASSUME NEW m \in Nat \ {0}, NEW k \in Nat, NEW r \in 0 .. m - 1
  PROVE  Rem(m * k + r, m) = r
<1>0. m * k + r \in Nat
  OBVIOUS
<1>1. PICK s \in 0 .. m - 1 : s = Rem(m * k + r, m)
  BY <1>0, Division
<1>2. PICK j \in Nat : m * k + r = m * j + s
  BY <1>0, <1>1, Division
<1>4. CASE k < j
  <2>1. PICK i \in Nat : j = k + 1 + i
    BY <1>4
  <2>2. m * j = m * k + m + m * i /\ m * i \in Nat
    BY <2>1
  <2> QED
    BY <1>2, <2>2
<1>5. CASE j < k
  <2>1. PICK i \in Nat : k = j + 1 + i
    BY <1>5
  <2>2. m * k = m * j + m + m * i /\ m * i \in Nat
    BY <2>1
  <2> QED
    BY <1>2, <2>2
<1>6. CASE j = k
  BY <1>1, <1>2, <1>6
<1> QED
  BY <1>4, <1>5, <1>6

\* A sum and a product modulo m depend on their parts modulo m.
LEMMA RemAdd ==
  ASSUME NEW m \in Nat \ {0}, NEW a \in Nat, NEW b \in Nat
  PROVE  Rem(Rem(a, m) + b, m) = Rem(a + b, m)
<1>1. PICK r \in Nat : r = Rem(a, m)
  BY Division
<1>2. PICK k \in Nat : a = m * k + r
  BY <1>1, Division
<1>3. r + b \in Nat
  OBVIOUS
<1>4. PICK s \in 0 .. m - 1 : s = Rem(r + b, m)
  BY <1>3, Division
<1>5. PICK j \in Nat : r + b = m * j + s
  BY <1>3, <1>4, Division
<1>6. a + b = m * (k + j) + s
  <2>1. m * k + m * j = m * (k + j)
    OBVIOUS
  <2> QED
    BY <1>2, <1>5, <2>1
<1>7. k + j \in Nat
  OBVIOUS
<1>8. Rem(m * (k + j) + s, m) = s
  BY <1>7, Remainder
<1> QED
  BY <1>1, <1>4, <1>6, <1>8

LEMMA RemMul ==
  ASSUME NEW m \in Nat \ {0}, NEW a \in Nat, NEW b \in Nat
  PROVE  Rem(Rem(a, m) * b, m) = Rem(a * b, m)
<1>1. PICK r \in Nat : r = Rem(a, m)
  BY Division
<1>2. PICK k \in Nat : a = m * k + r
  BY <1>1, Division
<1>3. r * b \in Nat
  OBVIOUS
<1>4. PICK s \in 0 .. m - 1 : s = Rem(r * b, m)
  BY <1>3, Division
<1>5. PICK j \in Nat : r * b = m * j + s
  BY <1>3, <1>4, Division
<1>6. a * b = m * (k * b + j) + s
  <2>1. a * b = (m * k + r) * b
    BY <1>2
  <2>2. (m * k + r) * b = m * (k * b) + r * b
    OBVIOUS
  <2>3. m * (k * b) + m * j = m * (k * b + j)
    OBVIOUS
  <2> QED
    BY <1>5, <2>1, <2>2, <2>3
<1>7. k * b + j \in Nat
  OBVIOUS
<1>8. Rem(m * (k * b + j) + s, m) = s
  BY <1>7, Remainder
<1> QED
  BY <1>1, <1>4, <1>6, <1>8

\* A number below m is its own remainder.
LEMMA RemSmall ==
  ASSUME NEW m \in Nat \ {0}, NEW r \in 0 .. m - 1
  PROVE  Rem(r, m) = r
<1>1. m * 0 + r = r
  OBVIOUS
<1> QED
  BY <1>1, Remainder

LEMMA RemRem ==
  ASSUME NEW m \in Nat \ {0}, NEW a \in Nat
  PROVE  Rem(Rem(a, m), m) = Rem(a, m)
BY Division, RemSmall

\* The multiples of m are the numbers with remainder 0.
LEMMA RemMultiple ==
  ASSUME NEW m \in Nat \ {0}, NEW k \in Nat
  PROVE  Rem(m * k, m) = 0 /\ Rem(k * m, m) = 0
<1>1. m * k + 0 = m * k /\ m * k = k * m /\ 0 \in 0 .. m - 1
  OBVIOUS
<1>2. Rem(m * k + 0, m) = 0
  BY <1>1, Remainder
<1> QED
  BY <1>1, <1>2

LEMMA RemZero ==
  ASSUME NEW m \in Nat \ {0}, NEW a \in Nat, Rem(a, m) = 0
  PROVE  \E k \in Nat : a = m * k
<1>1. PICK k \in Nat : a = m * k + 0
  BY Division
<1> QED
  BY <1>1

\* Both factors modulo m.
LEMMA RemMulBoth ==
  ASSUME NEW m \in Nat \ {0}, NEW a \in Nat, NEW b \in Nat, NEW c \in Nat, NEW e \in Nat,
         Rem(a, m) = Rem(c, m), Rem(b, m) = Rem(e, m)
  PROVE  Rem(a * b, m) = Rem(c * e, m)
<1>1. PICK u \in Nat, v \in Nat : u = Rem(a, m) /\ v = Rem(b, m)
  BY Division
<1>2. Rem(u * b, m) = Rem(a * b, m)
  BY <1>1, RemMul
<1>3. Rem(v * u, m) = Rem(b * u, m)
  BY <1>1, RemMul
<1>4. Rem(u * e, m) = Rem(c * e, m)
  BY <1>1, RemMul
<1>5. Rem(v * u, m) = Rem(e * u, m)
  BY <1>1, RemMul
<1>6. b * u = u * b /\ e * u = u * e
  OBVIOUS
<1> QED
  BY <1>2, <1>3, <1>4, <1>5, <1>6

\* Two factors in either order, one reduced at a time.
Swaps(a, b, x, m) == Rem(a * Rem(b * x, m), m) = Rem(b * Rem(a * x, m), m)
LEMMA RemSwap ==
  ASSUME NEW m \in Nat \ {0}, NEW a \in Nat, NEW b \in Nat, NEW x \in Nat
  PROVE  Swaps(a, b, x, m)
<1>1. b * x \in Nat /\ a * x \in Nat
  OBVIOUS
<1>2. PICK u \in Nat, v \in Nat : u = Rem(b * x, m) /\ v = Rem(a * x, m)
  BY <1>1, Division
<1>3. Rem(u * a, m) = Rem((b * x) * a, m) /\ Rem(v * b, m) = Rem((a * x) * b, m)
  BY <1>1, <1>2, RemMul
<1>4. (b * x) * a = (a * x) * b /\ u * a = a * u /\ v * b = b * v
  OBVIOUS
<1> QED
  BY <1>2, <1>3, <1>4 DEF Swaps

-----------------------------------------------------------------------------
LEMMA PrimeRem ==
  ASSUME NEW d \in Nat, Prime(d)
  PROVE  d \in Nat \ {0} /\ d > 1 /\ \A c \in 2 .. d - 1 : Rem(d, c) # 0
<1>1. d > 1
  BY Zenon DEF Prime
<1>2. \A c \in 2 .. d - 1 : Rem(d, c) # 0
  BY Zenon DEF Prime, Rem
<1> QED
  BY <1>1, <1>2

\* A number that a prime does not divide has an inverse modulo it.
LEMMA PrimeInverse ==
  ASSUME NEW d \in Nat, Prime(d), NEW a \in Nat, Rem(a, d) # 0
  PROVE  \E y \in 1 .. d - 1 : Rem(a * y, d) = 1
<1>0. d \in Nat \ {0} /\ d > 1 /\ \A c \in 2 .. d - 1 : Rem(d, c) # 0
  BY PrimeRem
<1> DEFINE Reached(r) == \E x \in Nat : Rem(a * x, d) = r
           T == {r \in 1 .. d - 1 : Reached(r)}
<1>1. T \in SUBSET Nat /\ T # {}
  <2>1. a * 1 = a
    OBVIOUS
  <2>2. Rem(a, d) \in 1 .. d - 1
    BY <1>0, Division
  <2>3. Reached(Rem(a, d))
    BY <2>1
  <2> HIDE DEF Reached
  <2> QED
    BY <2>2, <2>3
<1>2. PICK r \in T : \A k \in T : r <= k
  <2> HIDE DEF T
  <2> QED
    BY <1>1, LeastNatural
<1>3. PICK x \in Nat : Rem(a * x, d) = r
  BY <1>2
<1>4. r \in 1 .. d - 1 /\ \A k \in 1 .. d - 1 : Reached(k) => r <= k
  <2> HIDE DEF Reached
  <2> QED
    BY <1>2
<1> HIDE DEF T
<1>5. r = 1
  <2> SUFFICES ASSUME r # 1 PROVE FALSE
    OBVIOUS
  <2>0. r \in 2 .. d - 1 /\ r \in Nat \ {0}
    BY <1>4
  <2>1. PICK s \in 0 .. r - 1 : s = Rem(d, r)
    BY <2>0, Division
  <2>2. s # 0
    BY <1>0, <2>0, <2>1
  <2>3. PICK k \in Nat : d = r * k + s
    BY <2>0, <2>1, Division
  <2>4. PICK c \in Nat : c = k * (d - 1)
    BY <1>0
  <2>5. Rem(r * c, d) = s
    <3>1. r * c = (r * k) * (d - 1)
      BY <1>0, <2>0, <2>4
    <3>2. PICK u \in Nat : u = r * k
      BY <2>0
    <3>3. r * c = u * (d - 1) /\ d = u + s
      BY <3>1, <3>2, <2>3
    <3>4. u >= 1
      BY <3>3, <2>0, <2>1
    <3>5. u * (d - 1) = d * (u - 1) + s
      BY <3>3
    <3>6. u - 1 \in Nat /\ s \in 0 .. d - 1
      BY <3>4, <2>0, <2>1
    <3>7. Rem(d * (u - 1) + s, d) = s
      BY <1>0, <3>6, Remainder
    <3>8. r * c = d * (u - 1) + s
      BY <3>3, <3>5
    <3> QED
      BY <3>7, <3>8
  <2>6. Rem((a * x) * c, d) = s
    <3>1. a * x \in Nat /\ r \in Nat
      BY <2>0
    <3>2. Rem(r * c, d) = Rem((a * x) * c, d)
      BY <1>0, <1>3, <3>1, RemMul
    <3> QED
      BY <2>5, <3>2
  <2>7. (a * x) * c = a * (x * c) /\ x * c \in Nat
    OBVIOUS
  <2>8. Reached(s)
    BY <2>6, <2>7
  <2>9. s \in 1 .. d - 1 /\ s < r
    BY <2>0, <2>1, <2>2
  <2> HIDE DEF Reached
  <2> QED
    BY <1>4, <2>8, <2>9, <2>0
<1>6. PICK y \in 0 .. d - 1 : y = Rem(x, d)
  BY <1>0, Division
<1>7. Rem(a * y, d) = 1
  <2>1. Rem(y * a, d) = Rem(x * a, d)
    BY <1>0, <1>6, RemMul
  <2>2. y * a = a * y /\ x * a = a * x
    OBVIOUS
  <2> QED
    BY <1>3, <1>5, <2>1, <2>2
<1>8. y # 0
  <2>1. a * 0 = 0 /\ 0 \in 0 .. d - 1
    BY <1>0
  <2>2. Rem(0, d) = 0
    BY <1>0, <2>1, RemSmall
  <2> QED
    BY <1>7, <2>1, <2>2
<1>9. y \in 1 .. d - 1
  BY <1>6, <1>8
<1> QED
  BY <1>7, <1>9

\* Euclid's lemma.
LEMMA PrimeDivides ==
  ASSUME NEW d \in Nat, Prime(d), NEW a \in Nat, NEW b \in Nat, Rem(a * b, d) = 0
  PROVE  Rem(a, d) = 0 \/ Rem(b, d) = 0
<1> SUFFICES ASSUME Rem(a, d) # 0 PROVE Rem(b, d) = 0
  OBVIOUS
<1>0. d \in Nat \ {0}
  BY PrimeRem
<1>1. PICK y \in 1 .. d - 1 : Rem(a * y, d) = 1
  BY PrimeInverse
<1>2. Rem((a * y) * b, d) = Rem(b, d)
  <2>1. a * y \in Nat /\ 1 * b = b
    OBVIOUS
  <2>2. Rem(1 * b, d) = Rem((a * y) * b, d)
    BY <1>0, <1>1, <2>1, RemMul
  <2> QED
    BY <2>1, <2>2
<1>3. Rem((a * b) * y, d) = 0
  <2>1. a * b \in Nat /\ 0 * y = 0 /\ y \in Nat /\ 0 \in 0 .. d - 1
    BY <1>0
  <2>2. Rem(0 * y, d) = Rem((a * b) * y, d)
    BY <1>0, <2>1, RemMul
  <2>3. Rem(0, d) = 0
    BY <1>0, <2>1, RemSmall
  <2> QED
    BY <2>1, <2>2, <2>3
<1>4. (a * y) * b = (a * b) * y
  OBVIOUS
<1> QED
  BY <1>2, <1>3, <1>4

-----------------------------------------------------------------------------
\* A function of the naturals is given by its first value and its step.
Follows(g, e, a, st) ==
  g \in [0 .. e -> Nat] /\ g[0] = a /\ \A k \in 0 .. e - 1 : g[k + 1] = st[k][g[k]]

\* A first value and a step for each number give such a function.
LEMMA Iteration ==
  ASSUME NEW a \in Nat, NEW st \in [Nat -> [Nat -> Nat]]
  PROVE  \E f \in [Nat -> Nat] : f[0] = a /\ \A k \in Nat : f[k + 1] = st[k][f[k]]
<1> DEFINE S == {e \in Nat : \E g : Follows(g, e, a, st)}
<1>1. 0 \in S
  <2>1. Follows([k \in 0 .. 0 |-> a], 0, a, st)
    BY DEF Follows
  <2> QED
    BY <2>1
<1>2. \A e \in Nat : e \in S => e + 1 \in S
  <2> SUFFICES ASSUME NEW e \in Nat, NEW g, Follows(g, e, a, st)
               PROVE  \E h : Follows(h, e + 1, a, st)
    OBVIOUS
  <2> DEFINE h == [k \in 0 .. e + 1 |-> IF k = e + 1 THEN st[e][g[e]] ELSE g[k]]
  <2>1. g \in [0 .. e -> Nat] /\ g[0] = a /\ \A k \in 0 .. e - 1 : g[k + 1] = st[k][g[k]]
    BY DEF Follows
  <2>2. st[e][g[e]] \in Nat
    <3>1. st[e] \in [Nat -> Nat]
      OBVIOUS
    <3>2. g \in [0 .. e -> Nat]
      BY <2>1, Zenon
    <3>4. e \in 0 .. e
      OBVIOUS
    <3>3. g[e] \in Nat
      BY <3>2, <3>4
    <3> QED
      BY <3>1, <3>3
  <2>3. h \in [0 .. e + 1 -> Nat]
    <3>1. g \in [0 .. e -> Nat]
      BY <2>1
    <3>2. PICK z \in Nat : z = st[e][g[e]]
      BY <2>2
    <3>3. h = [k \in 0 .. e + 1 |-> IF k = e + 1 THEN z ELSE g[k]]
      BY <3>2
    <3>4. \A k \in 0 .. e + 1 : (IF k = e + 1 THEN z ELSE g[k]) \in Nat
      <4>1. \A k \in 0 .. e + 1 : k # e + 1 => k \in 0 .. e
        OBVIOUS
      <4>2. \A k \in 0 .. e : g[k] \in Nat
        BY <3>1
      <4> QED
        BY <4>1, <4>2
    <3> HIDE DEF h
    <3> QED
      BY <3>3, <3>4
  <2>4. h[0] = a
    BY <2>1
  <2>5. ASSUME NEW k \in 0 .. e PROVE h[k + 1] = st[k][h[k]]
    <3>1. CASE k = e
      BY <3>1
    <3>2. CASE k < e
      <4>0. k \in 0 .. e - 1 /\ k + 1 \in 0 .. e + 1 /\ k + 1 # e + 1 /\ k # e + 1 /\ k \in 0 .. e + 1
        BY <3>2
      <4>1. h[k + 1] = g[k + 1]
        BY <4>0, Zenon
      <4>2. h[k] = g[k]
        BY <4>0, Zenon
      <4>3. g[k + 1] = st[k][g[k]]
        BY <2>1, <4>0
      <4> QED
        BY <4>1, <4>2, <4>3
    <3> QED
      BY <3>1, <3>2
  <2> HIDE DEF h
  <2>6. (e + 1) - 1 = e
    OBVIOUS
  <2>7. \A k \in 0 .. (e + 1) - 1 : h[k + 1] = st[k][h[k]]
    BY <2>5, <2>6
  <2>8. Follows(h, e + 1, a, st)
    BY <2>3, <2>4, <2>7, Zenon DEF Follows
  <2> QED
    BY <2>8
<1>3. Nat \subseteq S
  <2> HIDE DEF S
  <2> QED
    BY <1>1, <1>2, InductionOnNat
<1> DEFINE G == [e \in Nat |-> CHOOSE g : Follows(g, e, a, st)]
<1>4. \A e \in Nat : Follows(G[e], e, a, st)
  <2> SUFFICES ASSUME NEW e \in Nat PROVE Follows(G[e], e, a, st)
    OBVIOUS
  <2>1. \E g : Follows(g, e, a, st)
    BY <1>3
  <2>2. G[e] = CHOOSE g : Follows(g, e, a, st)
    OBVIOUS
  <2> HIDE DEF G
  <2> QED
    BY <2>1, <2>2
<1> HIDE DEF G, S
<1>5. \A e \in Nat : G[e] \in [0 .. e -> Nat] /\ G[e][0] = a /\ \A k \in 0 .. e - 1 : G[e][k + 1] = st[k][G[e][k]]
  BY <1>4 DEF Follows
<1> DEFINE U == {k \in Nat : \A e \in Nat : k <= e => G[e][k] = G[k][k]}
<1>6. 0 \in U
  BY <1>5
<1>7. \A k \in Nat : k \in U => k + 1 \in U
  <2>0. SUFFICES ASSUME NEW k \in Nat, \A e \in Nat : k <= e => G[e][k] = G[k][k],
                        NEW e \in Nat, k + 1 <= e
               PROVE  G[e][k + 1] = G[k + 1][k + 1]
    <3>1. \A k \in Nat : k + 1 \in Nat
      OBVIOUS
    <3> QED
      BY <3>1, Zenon
  <2>1. G[e][k] = G[k][k] /\ G[k + 1][k] = G[k][k]
    <3>1. k <= e /\ k <= k + 1 /\ k + 1 \in Nat
      BY <2>0
    <3> QED
      BY <2>0, <3>1, Zenon
  <2>2. k \in 0 .. e - 1 /\ k \in 0 .. (k + 1) - 1 /\ k + 1 \in Nat
    BY <2>0
  <2>3. G[e][k + 1] = st[k][G[e][k]] /\ G[k + 1][k + 1] = st[k][G[k + 1][k]]
    BY <1>5, <2>2
  <2> QED
    BY <2>1, <2>3
<1>8. Nat \subseteq U
  <2> HIDE DEF U
  <2> QED
    BY <1>6, <1>7, InductionOnNat
<1> DEFINE f == [e \in Nat |-> G[e][e]]
<1>9. f \in [Nat -> Nat]
  <2>1. ASSUME NEW e \in Nat PROVE G[e][e] \in Nat
    <3>1. G[e] \in [0 .. e -> Nat]
      BY <1>5, Zenon
    <3>2. e \in 0 .. e
      OBVIOUS
    <3> QED
      BY <3>1, <3>2
  <2> QED
    BY <2>1
<1>10. f[0] = a
  BY <1>5
<1>11. ASSUME NEW k \in Nat PROVE f[k + 1] = st[k][f[k]]
  <2>0. k + 1 \in Nat /\ k \in 0 .. (k + 1) - 1 /\ k <= k + 1
    OBVIOUS
  <2>1. G[k + 1][k + 1] = st[k][G[k + 1][k]]
    BY <1>5, <2>0
  <2>2. k \in U
    <3> HIDE DEF U
    <3> QED
      BY <1>8
  <2>3. G[k + 1][k] = G[k][k]
    BY <2>0, <2>2, Zenon
  <2>4. f[k + 1] = G[k + 1][k + 1] /\ f[k] = G[k][k]
    BY <2>0, Zenon
  <2> QED
    BY <2>1, <2>3, <2>4
<1> HIDE DEF f
<1> QED
  BY <1>9, <1>10, <1>11

\* The powers of a number modulo m.
Power(b, m) ==
  CHOOSE f \in [Nat -> Nat] : f[0] = Rem(1, m) /\ \A k \in Nat : f[k + 1] = Rem(b * f[k], m)

\* The function that Power chooses exists.
LEMMA Powers ==
  ASSUME NEW b \in Nat, NEW m \in Nat \ {0}
  PROVE  /\ Power(b, m) \in [Nat -> Nat] /\ Power(b, m)[0] = Rem(1, m)
         /\ \A k \in Nat : Power(b, m)[k + 1] = Rem(b * Power(b, m)[k], m)
<1> DEFINE st == [k \in Nat |-> [x \in Nat |-> Rem(b * x, m)]]
<1>1. st \in [Nat -> [Nat -> Nat]]
  <2>1. \A x \in Nat : b * x \in Nat
    OBVIOUS
  <2>2. \A x \in Nat : Rem(b * x, m) \in Nat
    BY <2>1, Division
  <2> QED
    BY <2>2
<1>2. Rem(1, m) \in Nat
  BY Division
<1>3. \A k \in Nat, x \in Nat : st[k][x] = Rem(b * x, m)
  OBVIOUS
<1> HIDE DEF st
<1>4. PICK f \in [Nat -> Nat] : f[0] = Rem(1, m) /\ \A k \in Nat : f[k + 1] = st[k][f[k]]
  BY <1>1, <1>2, Iteration
<1>5. f[0] = Rem(1, m) /\ \A k \in Nat : f[k + 1] = Rem(b * f[k], m)
  BY <1>3, <1>4
<1>6. \E g \in [Nat -> Nat] : g[0] = Rem(1, m) /\ \A k \in Nat : g[k + 1] = Rem(b * g[k], m)
  BY <1>5
<1> QED
  BY <1>6, Zenon DEF Power

LEMMA PowerStep ==
  ASSUME NEW b \in Nat, NEW m \in Nat \ {0}, NEW k \in Nat
  PROVE  /\ Power(b, m)[0] = Rem(1, m)
         /\ Power(b, m)[k] \in Nat /\ Power(b, m)[k] \in 0 .. m - 1
         /\ Power(b, m)[k + 1] = Rem(b * Power(b, m)[k], m)
<1> DEFINE f == Power(b, m)
<1>1. f \in [Nat -> Nat] /\ f[0] = Rem(1, m) /\ \A i \in Nat : f[i + 1] = Rem(b * f[i], m)
  BY Powers
<1> HIDE DEF f
<1>2. f[k] \in Nat
  BY <1>1
<1>3. f[k] \in 0 .. m - 1
  <2>1. CASE k = 0
    BY <1>1, <2>1, Division
  <2>2. CASE k # 0
    <3>1. k - 1 \in Nat /\ (k - 1) + 1 = k
      BY <2>2
    <3>2. PICK x \in Nat : x = f[k - 1]
      BY <1>1, <3>1
    <3>3. b * x \in Nat
      OBVIOUS
    <3>4. f[k] = Rem(b * x, m)
      <4>1. f[(k - 1) + 1] = Rem(b * f[k - 1], m)
        BY <1>1, <3>1, Zenon
      <4> QED
        BY <3>1, <3>2, <4>1
    <3> QED
      BY <3>3, <3>4, Division
  <2> QED
    BY <2>1, <2>2
<1> QED
  BY <1>1, <1>2, <1>3 DEF f

\* A power of a sum of exponents is the product of the powers.
LEMMA PowerSum ==
  ASSUME NEW b \in Nat, NEW m \in Nat \ {0}, NEW i \in Nat, NEW j \in Nat
  PROVE  Power(b, m)[i + j] = Rem(Power(b, m)[i] * Power(b, m)[j], m)
<1> DEFINE S == {k \in Nat : Power(b, m)[i + k] = Rem(Power(b, m)[i] * Power(b, m)[k], m)}
<1>0. PICK x \in Nat : x = Power(b, m)[i] /\ x \in 0 .. m - 1
  BY PowerStep
<1>1. 0 \in S
  <2>1. i + 0 = i /\ 1 * x = x /\ x * Rem(1, m) = Rem(1, m) * x
    BY Division
  <2>2. Rem(Rem(1, m) * x, m) = Rem(1 * x, m)
    BY RemMul
  <2>3. Rem(x, m) = x
    BY <1>0, RemSmall
  <2>4. Power(b, m)[0] = Rem(1, m)
    BY PowerStep
  <2> QED
    BY <1>0, <2>1, <2>2, <2>3, <2>4
<1>2. \A k \in Nat : k \in S => k + 1 \in S
  <2>0. SUFFICES ASSUME NEW k \in Nat, Power(b, m)[i + k] = Rem(x * Power(b, m)[k], m)
                 PROVE  Power(b, m)[i + (k + 1)] = Rem(x * Power(b, m)[k + 1], m)
    BY <1>0
  <2>1. PICK y \in Nat : y = Power(b, m)[k]
    BY PowerStep
  <2>2. Power(b, m)[k + 1] = Rem(b * y, m)
    BY <2>1, PowerStep
  <2>3. Power(b, m)[i + (k + 1)] = Rem(b * Rem(x * y, m), m)
    <3>1. i + k \in Nat /\ i + (k + 1) = (i + k) + 1
      OBVIOUS
    <3>2. Power(b, m)[(i + k) + 1] = Rem(b * Power(b, m)[i + k], m)
      BY <3>1, PowerStep
    <3> QED
      BY <2>0, <2>1, <3>1, <3>2
  <2>4. Rem(b * Rem(x * y, m), m) = Rem(x * Rem(b * y, m), m)
    <3>1. Swaps(b, x, y, m)
      BY RemSwap
    <3> QED
      BY <3>1, Zenon DEF Swaps
  <2> QED
    BY <2>2, <2>3, <2>4, Zenon
<1> HIDE DEF S
<1>3. Nat \subseteq S
  BY <1>1, <1>2, InductionOnNat
<1> QED
  BY <1>3 DEF S

\* A power of a power has the product of the exponents.
LEMMA PowerPower ==
  ASSUME NEW b \in Nat, NEW m \in Nat \ {0}, NEW i \in Nat, NEW j \in Nat
  PROVE  Power(Power(b, m)[i], m)[j] = Power(b, m)[i * j]
<1>0. PICK x \in Nat : x = Power(b, m)[i]
  BY PowerStep
<1> DEFINE S == {k \in Nat : Power(x, m)[k] = Power(b, m)[i * k]}
<1>1. 0 \in S
  <2>1. i * 0 = 0
    OBVIOUS
  <2>2. Power(x, m)[0] = Rem(1, m) /\ Power(b, m)[0] = Rem(1, m)
    BY PowerStep
  <2> QED
    BY <2>1, <2>2
<1>2. \A k \in Nat : k \in S => k + 1 \in S
  <2>0. SUFFICES ASSUME NEW k \in Nat, Power(x, m)[k] = Power(b, m)[i * k]
                 PROVE  Power(x, m)[k + 1] = Power(b, m)[i * (k + 1)]
    OBVIOUS
  <2>1. PICK z \in Nat : z = i * k
    OBVIOUS
  <2>2. Power(x, m)[k + 1] = Rem(x * Power(x, m)[k], m)
    BY PowerStep
  <2>3. Power(b, m)[i + z] = Rem(x * Power(b, m)[z], m)
    BY <1>0, PowerSum
  <2>4. i * (k + 1) = i + z
    BY <2>1
  <2> QED
    BY <2>0, <2>1, <2>2, <2>3, <2>4
<1> HIDE DEF S
<1>3. Nat \subseteq S
  BY <1>1, <1>2, InductionOnNat
<1>4. Power(x, m)[j] = Power(b, m)[i * j]
  BY <1>3 DEF S
<1> QED
  BY <1>0, <1>4

LEMMA PowerOfOne ==
  ASSUME NEW m \in Nat \ {0}, NEW j \in Nat
  PROVE  Power(1, m)[j] = Rem(1, m)
<1> DEFINE S == {k \in Nat : Power(1, m)[k] = Rem(1, m)}
<1>1. 0 \in S
  BY PowerStep
<1>2. \A k \in Nat : k \in S => k + 1 \in S
  <2>0. SUFFICES ASSUME NEW k \in Nat, Power(1, m)[k] = Rem(1, m)
                 PROVE  Power(1, m)[k + 1] = Rem(1, m)
    OBVIOUS
  <2>1. PICK r \in Nat : r = Rem(1, m)
    BY Division
  <2>2. 1 * r = r
    OBVIOUS
  <2>3. Power(1, m)[k + 1] = Rem(1 * r, m)
    <3>1. Power(1, m)[k + 1] = Rem(1 * Power(1, m)[k], m)
      BY PowerStep
    <3> QED
      BY <2>0, <2>1, <3>1
  <2>4. Rem(r, m) = r
    BY <2>1, RemRem
  <2> QED
    BY <2>1, <2>2, <2>3, <2>4
<1> HIDE DEF S
<1>3. Nat \subseteq S
  BY <1>1, <1>2, InductionOnNat
<1> QED
  BY <1>3 DEF S

\* A divisor of the modulus.
LEMMA RemFactor ==
  ASSUME NEW d \in Nat \ {0}, NEW e \in Nat \ {0}, NEW a \in Nat
  PROVE  Rem(Rem(a, d * e), d) = Rem(a, d)
<1>1. PICK m \in Nat \ {0} : m = d * e
  OBVIOUS
<1>2. PICK r \in Nat : r = Rem(a, m)
  BY Division
<1>3. PICK k \in Nat : a = m * k + r
  BY <1>2, Division
<1>4. m * k = d * (e * k) /\ e * k \in Nat /\ d * (e * k) \in Nat
  BY <1>1
<1>5. Rem(Rem(d * (e * k), d) + r, d) = Rem(d * (e * k) + r, d)
  BY <1>4, RemAdd
<1>6. Rem(d * (e * k), d) = 0
  BY <1>4, RemMultiple
<1>7. 0 + r = r
  OBVIOUS
<1> QED
  BY <1>1, <1>2, <1>3, <1>4, <1>5, <1>6, <1>7

\* A power modulo m gives the power modulo a divisor of m.
Reduces(m, d, e, b) == m = d * e => \A j \in Nat : Rem(Power(b, m)[j], d) = Power(b, d)[j]

LEMMA PowerFactor ==
  ASSUME NEW d \in Nat \ {0}, NEW e \in Nat \ {0}, NEW m \in Nat \ {0}, NEW b \in Nat
  PROVE  Reduces(m, d, e, b)
<1> SUFFICES ASSUME m = d * e, NEW j \in Nat PROVE Rem(Power(b, m)[j], d) = Power(b, d)[j]
  BY DEF Reduces
<1> DEFINE S == {k \in Nat : Rem(Power(b, m)[k], d) = Power(b, d)[k]}
<1>1. 0 \in S
  <2>1. Rem(Rem(1, m), d) = Rem(1, d)
    BY RemFactor
  <2> QED
    BY <2>1, PowerStep
<1>2. \A k \in Nat : k \in S => k + 1 \in S
  <2>0. SUFFICES ASSUME NEW k \in Nat, Rem(Power(b, m)[k], d) = Power(b, d)[k]
                 PROVE  Rem(Power(b, m)[k + 1], d) = Power(b, d)[k + 1]
    OBVIOUS
  <2>1. PICK x \in Nat : x = Power(b, m)[k]
    BY PowerStep
  <2>2. PICK y \in Nat : y = Power(b, d)[k]
    BY PowerStep
  <2>3. Power(b, m)[k + 1] = Rem(b * x, m) /\ Power(b, d)[k + 1] = Rem(b * y, d)
    BY <2>1, <2>2, PowerStep
  <2>4. Rem(Rem(b * x, m), d) = Rem(b * x, d)
    <3>1. b * x \in Nat
      OBVIOUS
    <3> QED
      BY <3>1, RemFactor
  <2>5. Rem(x * b, d) = Rem(y * b, d)
    <3>1. Rem(Rem(x, d) * b, d) = Rem(x * b, d)
      BY RemMul
    <3>2. Rem(x, d) = y
      BY <2>0, <2>1, <2>2
    <3> QED
      BY <3>1, <3>2
  <2>6. x * b = b * x /\ y * b = b * y
    OBVIOUS
  <2> QED
    BY <2>3, <2>4, <2>5, <2>6
<1> HIDE DEF S
<1>3. Nat \subseteq S
  BY <1>1, <1>2, InductionOnNat
<1> QED
  BY <1>3 DEF S

\* One level of the squaring: the value for i from the value for half of it.
Squared(b, m, i, half) == IF i = 0 THEN Rem(1, m) ELSE Rem(half * half * (IF i % 2 = 1 THEN b ELSE 1), m)

\* A power from the power for half the exponent.
LEMMA PowerSquared ==
  ASSUME NEW b \in Nat, NEW m \in Nat \ {0}, NEW i \in Nat
  PROVE  Squared(b, m, i, Power(b, m)[i \div 2]) = Power(b, m)[i]
<1>1. CASE i = 0
  BY <1>1, PowerStep, Zenon DEF Squared
<1>2. CASE i # 0
  <2>1. PICK k \in Nat : k = i \div 2
    OBVIOUS
  <2>2. PICK x \in Nat : x = Power(b, m)[k]
    BY PowerStep
  <2>3. x * x \in Nat
    OBVIOUS
  <2>4. Power(b, m)[k + k] = Rem(x * x, m)
    <3>2. \A j \in Nat : Power(b, m)[k + j] = Rem(Power(b, m)[k] * Power(b, m)[j], m)
      BY PowerSum
    <3>1. Power(b, m)[k + k] = Rem(Power(b, m)[k] * Power(b, m)[k], m)
      BY <3>2, Zenon
    <3> QED
      BY <2>2, <3>1
  <2>5. CASE i % 2 = 1
    <3>1. i = (k + k) + 1 /\ k + k \in Nat
      BY <2>1, <2>5
    <3>2. PICK r \in Nat : r = Rem(x * x, m)
      BY <2>3, Division
    <3>3. Power(b, m)[i] = Rem(b * r, m)
      <4>1. Power(b, m)[(k + k) + 1] = Rem(b * Power(b, m)[k + k], m)
        BY <3>1, PowerStep
      <4>2. Power(b, m)[k + k] = r
        BY <2>4, <3>2
      <4> QED
        BY <3>1, <4>1, <4>2
    <3>4. Rem(r * b, m) = Rem((x * x) * b, m)
      BY <2>3, <3>2, RemMul
    <3>5. r * b = b * r
      OBVIOUS
    <3>6. Squared(b, m, i, x) = Rem(x * x * b, m)
      BY <1>2, <2>5, Zenon DEF Squared
    <3> QED
      BY <2>1, <2>2, <3>3, <3>4, <3>5, <3>6
  <2>6. CASE ~ i % 2 = 1
    <3>1. i = k + k
      BY <2>1, <2>6
    <3>2. x * x * 1 = x * x
      OBVIOUS
    <3>3. Squared(b, m, i, x) = Rem(x * x * 1, m)
      BY <1>2, <2>6, Zenon DEF Squared
    <3> QED
      BY <2>1, <2>2, <2>4, <3>1, <3>2, <3>3
  <2> QED
    BY <2>5, <2>6
<1> QED
  BY <1>1, <1>2

\* Repeated squaring gives the powers.
LEMMA PowmIs ==
  ASSUME NEW b \in Nat, NEW m \in Nat \ {0}, NEW e \in Nat
  PROVE  mpz_powm(b, e, m) = Power(b, m)[e]
<1> DEFINE Body(g) == [i \in 0 .. e |-> Squared(b, m, i, g[i \div 2])]
<1>1. mpz_powm(b, e, m) = (CHOOSE g : g = Body(g))[e]
  BY Zenon DEF mpz_powm, Squared, Rem
<1> DEFINE f == [i \in 0 .. e |-> Power(b, m)[i]]
<1>2. \A i \in 0 .. e : i \div 2 \in 0 .. e /\ i \in Nat
  OBVIOUS
<1>3. f = Body(f)
  <2>1. ASSUME NEW i \in 0 .. e PROVE f[i] = Squared(b, m, i, f[i \div 2])
    <3>1. f[i] = Power(b, m)[i] /\ f[i \div 2] = Power(b, m)[i \div 2]
      BY <1>2, Zenon
    <3>2. Squared(b, m, i, Power(b, m)[i \div 2]) = Power(b, m)[i]
      BY <1>2, PowerSquared
    <3> QED
      BY <3>1, <3>2
  <2>2. f = [i \in 0 .. e |-> f[i]]
    BY Zenon
  <2> HIDE DEF f
  <2> QED
    BY <2>1, <2>2, Zenon
<1>4. PICK W : W = (CHOOSE g : g = Body(g))
  OBVIOUS
<1>5. W = Body(W)
  <2>1. \E g : g = Body(g)
    BY <1>3
  <2> HIDE DEF Body
  <2> QED
    BY <1>4, <2>1, Zenon
<1>6. \A i \in 0 .. e : W[i] = Squared(b, m, i, W[i \div 2])
  BY <1>5, Zenon
<1> DEFINE S == {k \in Nat : \A i \in 0 .. e : i <= k => W[i] = Power(b, m)[i]}
<1>7. 0 \in S
  <2>1. \A i \in 0 .. e : i <= 0 => i = 0
    OBVIOUS
  <2>2. 0 \in 0 .. e
    OBVIOUS
  <2>3. W[0] = Rem(1, m)
    BY <1>6, <2>2, Zenon DEF Squared
  <2>4. Power(b, m)[0] = Rem(1, m)
    BY PowerStep
  <2> QED
    BY <2>1, <2>3, <2>4
<1>8. \A k \in Nat : k \in S => k + 1 \in S
  <2>0. SUFFICES ASSUME NEW k \in Nat, \A i \in 0 .. e : i <= k => W[i] = Power(b, m)[i],
                        NEW i \in 0 .. e, i <= k + 1
                 PROVE  W[i] = Power(b, m)[i]
    <3>1. \A k \in Nat : k + 1 \in Nat
      OBVIOUS
    <3> QED
      BY <3>1, Zenon
  <2>1. CASE i = 0
    BY <2>0, <2>1
  <2>2. CASE i # 0
    <3>1. i \div 2 <= k
      BY <2>0, <2>2
    <3>2. W[i \div 2] = Power(b, m)[i \div 2]
      BY <1>2, <2>0, <3>1, Zenon
    <3>3. Squared(b, m, i, Power(b, m)[i \div 2]) = Power(b, m)[i]
      BY <1>2, PowerSquared
    <3> QED
      BY <1>6, <3>2, <3>3
  <2> QED
    BY <2>1, <2>2
<1>9. e \in S
  <2> HIDE DEF S
  <2>1. Nat \subseteq S
    BY <1>7, <1>8, InductionOnNat
  <2> QED
    BY <2>1
<1>10. W[e] = Power(b, m)[e]
  <2>1. e \in 0 .. e /\ e <= e
    OBVIOUS
  <2> QED
    BY <1>9, <2>1, Zenon
<1> HIDE DEF Body
<1> QED
  BY <1>1, <1>4, <1>10

-----------------------------------------------------------------------------
\* The product modulo d of the members of S up to a number.
Gathered(S, d) ==
  CHOOSE f \in [Nat -> Nat] :
    f[0] = 1 /\ \A k \in Nat : f[k + 1] = IF k + 1 \in S THEN Rem((k + 1) * f[k], d) ELSE f[k]

\* The function that Gathered chooses exists.
LEMMA GatheredStep ==
  ASSUME NEW S, NEW d \in Nat \ {0}, NEW k \in Nat
  PROVE  /\ Gathered(S, d)[k] \in Nat /\ Gathered(S, d)[0] = 1
         /\ Gathered(S, d)[k + 1] = IF k + 1 \in S THEN Rem((k + 1) * Gathered(S, d)[k], d) ELSE Gathered(S, d)[k]
<1> DEFINE st == [i \in Nat |-> [x \in Nat |-> IF i + 1 \in S THEN Rem((i + 1) * x, d) ELSE x]]
<1>1. st \in [Nat -> [Nat -> Nat]]
  <2>1. \A i \in Nat, x \in Nat : (i + 1) * x \in Nat
    OBVIOUS
  <2>2. \A i \in Nat, x \in Nat : Rem((i + 1) * x, d) \in Nat
    BY <2>1, Division
  <2> QED
    BY <2>2
<1>3. \A i \in Nat, x \in Nat : st[i][x] = IF i + 1 \in S THEN Rem((i + 1) * x, d) ELSE x
  OBVIOUS
<1> HIDE DEF st
<1>2. 1 \in Nat
  OBVIOUS
<1>4. PICK f \in [Nat -> Nat] : f[0] = 1 /\ \A i \in Nat : f[i + 1] = st[i][f[i]]
  BY <1>1, <1>2, Iteration
<1>5. f[0] = 1 /\ \A i \in Nat : f[i + 1] = IF i + 1 \in S THEN Rem((i + 1) * f[i], d) ELSE f[i]
  BY <1>3, <1>4
<1>6. \E g \in [Nat -> Nat] :
        g[0] = 1 /\ \A i \in Nat : g[i + 1] = IF i + 1 \in S THEN Rem((i + 1) * g[i], d) ELSE g[i]
  BY <1>5
<1> DEFINE h == Gathered(S, d)
<1>7. /\ h \in [Nat -> Nat] /\ h[0] = 1
      /\ \A i \in Nat : h[i + 1] = IF i + 1 \in S THEN Rem((i + 1) * h[i], d) ELSE h[i]
  BY <1>6, Zenon DEF Gathered
<1> HIDE DEF h
<1>8. h[k] \in Nat
  BY <1>7
<1>9. h[k + 1] = IF k + 1 \in S THEN Rem((k + 1) * h[k], d) ELSE h[k]
  BY <1>7, Zenon
<1> QED
  BY <1>7, <1>8, <1>9 DEF h

LEMMA GatheredNone ==
  ASSUME NEW d \in Nat \ {0}, NEW k \in Nat
  PROVE  Gathered({}, d)[k] = 1
<1> DEFINE U == {i \in Nat : Gathered({}, d)[i] = 1}
<1>1. 0 \in U
  BY GatheredStep
<1>2. \A i \in Nat : i \in U => i + 1 \in U
  <2>0. SUFFICES ASSUME NEW i \in Nat, Gathered({}, d)[i] = 1
                 PROVE  Gathered({}, d)[i + 1] = 1
    OBVIOUS
  <2>1. Gathered({}, d)[i + 1] = IF i + 1 \in {} THEN Rem((i + 1) * Gathered({}, d)[i], d) ELSE Gathered({}, d)[i]
    BY GatheredStep
  <2> QED
    BY <2>0, <2>1
<1> HIDE DEF U
<1>3. Nat \subseteq U
  BY <1>1, <1>2, InductionOnNat
<1> QED
  BY <1>3 DEF U

\* One member more is one factor more.
LEMMA GatheredMore ==
  ASSUME NEW S, NEW d \in Nat \ {0}, NEW x \in Nat, x # 0, x \notin S, NEW k \in Nat
  PROVE  Gathered(S \cup {x}, d)[k] = IF x <= k THEN Rem(x * Gathered(S, d)[k], d) ELSE Gathered(S, d)[k]
<1> DEFINE f == Gathered(S \cup {x}, d)
           g == Gathered(S, d)
           U == {i \in Nat : f[i] = IF x <= i THEN Rem(x * g[i], d) ELSE g[i]}
<1>0. \A i \in Nat :
        /\ f[i] \in Nat /\ f[0] = 1 /\ f[i + 1] = IF i + 1 \in S \cup {x} THEN Rem((i + 1) * f[i], d) ELSE f[i]
        /\ g[i] \in Nat /\ g[0] = 1 /\ g[i + 1] = IF i + 1 \in S THEN Rem((i + 1) * g[i], d) ELSE g[i]
  BY GatheredStep
<1> HIDE DEF f, g
<1>1. 0 \in U
  <2>1. ~ x <= 0
    OBVIOUS
  <2> QED
    BY <1>0, <2>1
<1>2. \A i \in Nat : i \in U => i + 1 \in U
  <2>0. SUFFICES ASSUME NEW i \in Nat, f[i] = IF x <= i THEN Rem(x * g[i], d) ELSE g[i]
                 PROVE  f[i + 1] = IF x <= i + 1 THEN Rem(x * g[i + 1], d) ELSE g[i + 1]
    OBVIOUS
  <2>1. PICK y \in Nat, z \in Nat : y = f[i] /\ z = g[i]
    BY <1>0
  <2>2. /\ f[i + 1] = IF i + 1 \in S \cup {x} THEN Rem((i + 1) * y, d) ELSE y
        /\ g[i + 1] = IF i + 1 \in S THEN Rem((i + 1) * z, d) ELSE z
        /\ y = IF x <= i THEN Rem(x * z, d) ELSE z
    BY <1>0, <2>0, <2>1
  <2>3. CASE x = i + 1
    <3>1. g[i + 1] = z /\ y = z /\ f[i + 1] = Rem(x * z, d) /\ x <= i + 1
      BY <2>2, <2>3
    <3> QED
      BY <3>1
  <2>4. CASE i + 1 < x
    <3>1. ~ x <= i /\ ~ x <= i + 1 /\ x # i + 1
      BY <2>4
    <3> QED
      BY <2>2, <3>1
  <2>5. CASE x <= i
    <3>1. x <= i + 1 /\ x # i + 1
      BY <2>5
    <3>2. CASE i + 1 \in S
      <4>1. f[i + 1] = Rem((i + 1) * Rem(x * z, d), d) /\ g[i + 1] = Rem((i + 1) * z, d)
        BY <2>2, <2>5, <3>2, Zenon
      <4>2. Rem((i + 1) * Rem(x * z, d), d) = Rem(x * Rem((i + 1) * z, d), d)
        <5>1. PICK j \in Nat, c \in Nat : j = i + 1 /\ c = x
          OBVIOUS
        <5>2. Rem(j * Rem(c * z, d), d) = Rem(c * Rem(j * z, d), d)
          <6>1. Swaps(j, c, z, d)
            BY RemSwap
          <6> QED
            BY <6>1, Zenon DEF Swaps
        <5> QED
          BY <5>1, <5>2
      <4> QED
        BY <3>1, <4>1, <4>2, Zenon
    <3>3. CASE i + 1 \notin S
      <4>1. f[i + 1] = Rem(x * z, d) /\ g[i + 1] = z
        BY <2>2, <2>5, <3>1, <3>3, Zenon
      <4> QED
        BY <3>1, <4>1, Zenon
    <3> QED
      BY <3>2, <3>3
  <2>6. x = i + 1 \/ i + 1 < x \/ x <= i
    OBVIOUS
  <2> QED
    BY <2>3, <2>4, <2>5, <2>6
<1> HIDE DEF U
<1>3. Nat \subseteq U
  BY <1>1, <1>2, InductionOnNat
<1>4. f[k] = IF x <= k THEN Rem(x * g[k], d) ELSE g[k]
  BY <1>3 DEF U
<1> QED
  BY <1>4 DEF f, g

\* No prime divides a product of smaller numbers.
LEMMA GatheredNotZero ==
  ASSUME NEW d \in Nat, Prime(d), NEW S, NEW k \in 0 .. d - 1
  PROVE  Gathered(S, d)[k] \in 1 .. d - 1
<1>0. d \in Nat \ {0} /\ d > 1
  BY PrimeRem
<1> DEFINE U == {i \in Nat : i <= d - 1 => Gathered(S, d)[i] \in 1 .. d - 1}
<1>1. 0 \in U
  BY <1>0, GatheredStep
<1>2. \A i \in Nat : i \in U => i + 1 \in U
  <2>0. SUFFICES ASSUME NEW i \in Nat, i + 1 <= d - 1, Gathered(S, d)[i] \in 1 .. d - 1
                 PROVE  Gathered(S, d)[i + 1] \in 1 .. d - 1
    OBVIOUS
  <2>1. PICK z \in 1 .. d - 1 : z = Gathered(S, d)[i]
    BY <2>0
  <2>2. Gathered(S, d)[i + 1] = IF i + 1 \in S THEN Rem((i + 1) * z, d) ELSE z
    BY <1>0, <2>1, GatheredStep
  <2>3. Rem((i + 1) * z, d) # 0
    <3>1. i + 1 \in 0 .. d - 1 /\ z \in 0 .. d - 1 /\ i + 1 \in Nat /\ z \in Nat /\ i + 1 # 0 /\ z # 0
      BY <2>0
    <3>2. Rem(i + 1, d) # 0 /\ Rem(z, d) # 0
      BY <1>0, <3>1, RemSmall
    <3> QED
      BY <3>1, <3>2, PrimeDivides
  <2>4. Rem((i + 1) * z, d) \in 0 .. d - 1
    <3>1. (i + 1) * z \in Nat
      OBVIOUS
    <3> QED
      BY <1>0, <3>1, Division
  <2>5. Rem((i + 1) * z, d) \in 1 .. d - 1
    BY <2>3, <2>4
  <2> QED
    BY <2>2, <2>5
<1> HIDE DEF U
<1>3. Nat \subseteq U
  BY <1>1, <1>2, InductionOnNat
<1>4. k \in Nat /\ k <= d - 1
  OBVIOUS
<1> QED
  BY <1>3, <1>4 DEF U

\* Multiples of b by different numbers below the prime d differ modulo d.
LEMMA MultiplesDiffer ==
  ASSUME NEW d \in Nat, Prime(d), NEW b \in Nat, Rem(b, d) # 0,
         NEW i \in 1 .. d - 1, NEW j \in 1 .. d - 1, Rem(b * i, d) = Rem(b * j, d)
  PROVE  i = j
<1>0. d \in Nat \ {0} /\ d > 1
  BY PrimeRem
<1>1. PICK y \in 1 .. d - 1 : Rem(b * y, d) = 1
  BY PrimeInverse
<1>2. ASSUME NEW k \in 1 .. d - 1 PROVE Rem(Rem(b * k, d) * y, d) = k
  <2>1. b * k \in Nat /\ b * y \in Nat /\ y \in Nat /\ k \in Nat /\ k \in 0 .. d - 1
    OBVIOUS
  <2>2. Rem(Rem(b * k, d) * y, d) = Rem((b * k) * y, d)
    BY <1>0, <2>1, RemMul
  <2>3. Rem(1 * k, d) = Rem((b * y) * k, d)
    BY <1>0, <1>1, <2>1, RemMul
  <2>4. (b * k) * y = (b * y) * k /\ 1 * k = k
    OBVIOUS
  <2>5. Rem(k, d) = k
    BY <1>0, <2>1, RemSmall
  <2> QED
    BY <2>2, <2>3, <2>4, <2>5
<1> QED
  BY <1>2

\* Every number below d is such a multiple.
LEMMA MultiplesReachAll ==
  ASSUME NEW d \in Nat, Prime(d), NEW b \in Nat, Rem(b, d) # 0, NEW r \in 1 .. d - 1
  PROVE  \E i \in 1 .. d - 1 : Rem(b * i, d) = r
<1>0. d \in Nat \ {0} /\ d > 1
  BY PrimeRem
<1>1. PICK y \in 1 .. d - 1 : Rem(b * y, d) = 1
  BY PrimeInverse
<1>2. y * r \in Nat /\ b * y \in Nat /\ r \in Nat /\ r \in 0 .. d - 1
  OBVIOUS
<1>3. PICK i \in 0 .. d - 1 : i = Rem(y * r, d)
  BY <1>0, <1>2, Division
<1>4. Rem(b * i, d) = r
  <2>1. Rem(i * b, d) = Rem((y * r) * b, d)
    BY <1>0, <1>2, <1>3, RemMul
  <2>2. Rem(1 * r, d) = Rem((b * y) * r, d)
    BY <1>0, <1>1, <1>2, RemMul
  <2>3. Rem(r, d) = r
    BY <1>0, <1>2, RemSmall
  <2>4. (y * r) * b = (b * y) * r /\ 1 * r = r /\ i * b = b * i
    OBVIOUS
  <2> QED
    BY <2>1, <2>2, <2>3, <2>4
<1>5. i # 0
  <2>1. b * 0 = 0 /\ 0 \in 0 .. d - 1
    BY <1>0
  <2>2. Rem(0, d) = 0
    BY <1>0, <2>1, RemSmall
  <2> QED
    BY <1>4, <2>1, <2>2
<1> QED
  BY <1>3, <1>4, <1>5

Multiples(b, d, k) == {Rem(b * i, d) : i \in 1 .. k}

\* The product of the first k multiples of b takes the k-th power of b out.
LEMMA MultiplesGathered ==
  ASSUME NEW d \in Nat, Prime(d), NEW b \in Nat, Rem(b, d) # 0, NEW k \in 0 .. d - 1
  PROVE  Gathered(Multiples(b, d, k), d)[d - 1] = Rem(Power(b, d)[k] * Gathered(1 .. k, d)[d - 1], d)
<1>0. d \in Nat \ {0} /\ d > 1 /\ d - 1 \in Nat
  BY PrimeRem
<1> DEFINE U == {i \in Nat : i <= d - 1 =>
                  Gathered(Multiples(b, d, i), d)[d - 1] = Rem(Power(b, d)[i] * Gathered(1 .. i, d)[d - 1], d)}
<1>1. 0 \in U
  <2>1. Multiples(b, d, 0) = {} /\ 1 .. 0 = {}
    BY DEF Multiples
  <2>2. Gathered({}, d)[d - 1] = 1
    BY <1>0, GatheredNone
  <2>3. 1 \in 0 .. d - 1
    BY <1>0
  <2>4. Rem(1, d) = 1
    BY <1>0, <2>3, RemSmall
  <2>5. Power(b, d)[0] = 1
    BY <1>0, <2>4, PowerStep
  <2>6. 1 * 1 = 1
    OBVIOUS
  <2> QED
    BY <2>1, <2>2, <2>4, <2>5, <2>6
<1>2. \A i \in Nat : i \in U => i + 1 \in U
  <2>0. SUFFICES ASSUME NEW i \in Nat, i + 1 <= d - 1,
                        Gathered(Multiples(b, d, i), d)[d - 1] = Rem(Power(b, d)[i] * Gathered(1 .. i, d)[d - 1], d)
                 PROVE  Gathered(Multiples(b, d, i + 1), d)[d - 1]
                          = Rem(Power(b, d)[i + 1] * Gathered(1 .. i + 1, d)[d - 1], d)
    OBVIOUS
  <2>1. PICK c \in 1 .. d - 1 : c = i + 1
    BY <2>0
  <2>2. PICK x \in 0 .. d - 1 : x = Rem(b * c, d)
    <3>1. b * c \in Nat
      OBVIOUS
    <3> QED
      BY <1>0, <3>1, Division
  <2>3. x \in Nat /\ x # 0 /\ x <= d - 1
    <3>1. c \in 0 .. d - 1 /\ c \in Nat
      OBVIOUS
    <3>2. Rem(c, d) # 0
      BY <1>0, <3>1, RemSmall
    <3>3. x # 0
      BY <2>2, <3>1, <3>2, PrimeDivides
    <3> QED
      BY <3>3
  <2>4. Multiples(b, d, c) = Multiples(b, d, i) \cup {x} /\ x \notin Multiples(b, d, i)
    <3>1. 1 .. c = (1 .. i) \cup {c}
      BY <2>1
    <3>2. \A j \in 1 .. i : Rem(b * j, d) # x
      <4>1. \A j \in 1 .. i : j \in 1 .. d - 1 /\ j # c
        BY <2>1
      <4> QED
        BY <2>2, <4>1, MultiplesDiffer
    <3> QED
      BY <2>2, <3>1, <3>2 DEF Multiples
  <2>5. PICK w \in Nat : w = Gathered(1 .. i, d)[d - 1]
    BY <1>0, GatheredStep
  <2>6. PICK u \in Nat : u = Power(b, d)[i]
    BY <1>0, PowerStep
  <2>7. Gathered(Multiples(b, d, c), d)[d - 1] = Rem(x * Rem(u * w, d), d)
    <3>1. Gathered(Multiples(b, d, i) \cup {x}, d)[d - 1] = Rem(x * Gathered(Multiples(b, d, i), d)[d - 1], d)
      BY <1>0, <2>3, <2>4, GatheredMore
    <3> QED
      BY <2>0, <2>4, <2>5, <2>6, <3>1
  <2>8. Gathered(1 .. c, d)[d - 1] = Rem(c * w, d)
    <3>1. 1 .. c = (1 .. i) \cup {c} /\ c \notin 1 .. i /\ c \in Nat /\ c # 0 /\ c <= d - 1
      BY <2>1
    <3>2. Gathered((1 .. i) \cup {c}, d)[d - 1] = Rem(c * Gathered(1 .. i, d)[d - 1], d)
      BY <1>0, <3>1, GatheredMore
    <3> QED
      BY <2>5, <3>1, <3>2
  <2>9. Power(b, d)[c] = Rem(b * u, d)
    BY <1>0, <2>1, <2>6, PowerStep
  <2>10. Rem(x * Rem(u * w, d), d) = Rem(Rem(b * u, d) * Rem(c * w, d), d)
    <3>1. c \in Nat /\ b * c \in Nat /\ u * w \in Nat /\ b * u \in Nat /\ c * w \in Nat
      OBVIOUS
    <3>2. PICK x1 \in Nat, x2 \in Nat, x3 \in Nat : x1 = Rem(u * w, d) /\ x2 = Rem(b * u, d) /\ x3 = Rem(c * w, d)
      BY <1>0, <3>1, Division
    <3>3. Rem(x, d) = Rem(b * c, d) /\ Rem(x1, d) = Rem(u * w, d) /\ Rem(x2, d) = Rem(b * u, d) /\ Rem(x3, d) = Rem(c * w, d)
      BY <1>0, <2>2, <3>1, <3>2, RemRem
    <3>4. Rem(x * x1, d) = Rem((b * c) * (u * w), d)
      BY <1>0, <2>3, <3>1, <3>3, RemMulBoth
    <3>5. Rem(x2 * x3, d) = Rem((b * u) * (c * w), d)
      BY <1>0, <3>1, <3>3, RemMulBoth
    <3>6. (b * c) * (u * w) = (b * u) * (c * w)
      <4>1. (b * c) * (u * w) = b * (c * (u * w)) /\ (b * u) * (c * w) = b * (u * (c * w))
        BY <3>1
      <4>2. c * (u * w) = u * (c * w)
        BY <3>1
      <4> QED
        BY <4>1, <4>2
    <3> QED
      BY <3>2, <3>4, <3>5, <3>6
  <2> QED
    BY <2>1, <2>7, <2>8, <2>9, <2>10
<1> HIDE DEF U
<1>3. Nat \subseteq U
  BY <1>1, <1>2, InductionOnNat
<1>4. k \in Nat /\ k <= d - 1
  OBVIOUS
<1> QED
  BY <1>3, <1>4 DEF U

\* Fermat's little theorem.
LEMMA Fermat ==
  ASSUME NEW d \in Nat, Prime(d), NEW b \in Nat, Rem(b, d) # 0
  PROVE  Power(b, d)[d - 1] = 1
<1>0. d \in Nat \ {0} /\ d > 1 /\ d - 1 \in Nat /\ d - 1 \in 0 .. d - 1 /\ 1 \in 0 .. d - 1
  BY PrimeRem
<1>1. Multiples(b, d, d - 1) = 1 .. d - 1
  <2>1. ASSUME NEW i \in 1 .. d - 1 PROVE Rem(b * i, d) \in 1 .. d - 1
    <3>1. i \in 0 .. d - 1 /\ i \in Nat /\ b * i \in Nat
      OBVIOUS
    <3>2. Rem(i, d) # 0
      BY <1>0, <3>1, RemSmall
    <3>3. Rem(b * i, d) # 0
      BY <3>1, <3>2, PrimeDivides
    <3>4. Rem(b * i, d) \in 0 .. d - 1
      BY <1>0, <3>1, Division
    <3> QED
      BY <3>3, <3>4
  <2>2. \A r \in 1 .. d - 1 : \E i \in 1 .. d - 1 : Rem(b * i, d) = r
    BY MultiplesReachAll
  <2> QED
    BY <2>1, <2>2 DEF Multiples
<1>2. PICK w \in 1 .. d - 1 : w = Gathered(1 .. d - 1, d)[d - 1]
  BY <1>0, GatheredNotZero
<1>3. PICK u \in 0 .. d - 1 : u = Power(b, d)[d - 1]
  BY <1>0, PowerStep
<1>4. w = Rem(u * w, d)
  BY <1>0, <1>1, <1>2, <1>3, MultiplesGathered
<1>5. w \in Nat /\ u \in Nat /\ u * w \in Nat /\ w \in 0 .. d - 1
  OBVIOUS
<1>6. Rem(w, d) # 0
  BY <1>0, <1>5, RemSmall
<1>7. PICK y \in 1 .. d - 1 : Rem(w * y, d) = 1
  BY <1>5, <1>6, PrimeInverse
<1>8. Rem(w * y, d) = Rem((u * w) * y, d)
  <2>1. y \in Nat
    OBVIOUS
  <2>2. Rem(Rem(u * w, d) * y, d) = Rem((u * w) * y, d)
    BY <1>0, <1>5, <2>1, RemMul, Zenon
  <2> QED
    BY <1>4, <2>2, Zenon
<1>9. (u * w) * y = (w * y) * u /\ 1 * u = u /\ w * y \in Nat
  OBVIOUS
<1>10. Rem(1 * u, d) = Rem((w * y) * u, d)
  BY <1>0, <1>5, <1>7, <1>9, RemMul
<1>11. Rem(u, d) = u
  BY <1>0, RemSmall
<1> QED
  BY <1>3, <1>7, <1>8, <1>9, <1>10, <1>11

\* To the power of a multiple of d - 1, and one more, a number is itself modulo d.
LEMMA FermatPower ==
  ASSUME NEW d \in Nat, Prime(d), NEW b \in Nat, NEW k \in Nat
  PROVE  Power(b, d)[(d - 1) * k + 1] = Rem(b, d)
<1>0. d \in Nat \ {0} /\ d > 1 /\ d - 1 \in Nat /\ 0 \in 0 .. d - 1 /\ 1 \in 0 .. d - 1
  BY PrimeRem
<1>1. PICK j \in Nat : j = (d - 1) * k
  BY <1>0
<1>2. PICK x \in Nat : x = Power(b, d)[j]
  BY <1>0, PowerStep
<1>3. Power(b, d)[j + 1] = Rem(b * x, d)
  BY <1>0, <1>2, PowerStep
<1>4. CASE Rem(b, d) = 0
  <2>1. Rem(Rem(b, d) * x, d) = Rem(b * x, d)
    BY <1>0, RemMul
  <2>2. 0 * x = 0
    OBVIOUS
  <2>3. Rem(0, d) = 0
    BY <1>0, RemSmall
  <2> QED
    BY <1>1, <1>3, <1>4, <2>1, <2>2, <2>3
<1>5. CASE Rem(b, d) # 0
  <2>1. Power(b, d)[d - 1] = 1
    BY <1>5, Fermat
  <2>2. Power(Power(b, d)[d - 1], d)[k] = Power(b, d)[(d - 1) * k]
    BY <1>0, PowerPower
  <2>3. Power(1, d)[k] = 1
    <3>1. Rem(1, d) = 1
      BY <1>0, RemSmall
    <3> QED
      BY <1>0, <3>1, PowerOfOne
  <2>4. x = 1
    BY <1>1, <1>2, <2>1, <2>2, <2>3
  <2>5. b * 1 = b
    OBVIOUS
  <2> QED
    BY <1>1, <1>3, <2>4, <2>5
<1> QED
  BY <1>4, <1>5

\* A prime does not divide another.
LEMMA PrimesDoNotDivide ==
  ASSUME NEW d \in Nat, Prime(d), NEW e \in Nat, Prime(e), d # e
  PROVE  Rem(e, d) # 0
<1>0. d > 1 /\ d \in Nat \ {0} /\ e > 1 /\ \A c \in 2 .. e - 1 : Rem(e, c) # 0
  BY PrimeRem
<1>1. CASE d < e
  BY <1>0, <1>1
<1>2. CASE e < d
  <2>1. e \in 0 .. d - 1 /\ e # 0
    BY <1>0, <1>2
  <2> QED
    BY <1>0, <2>1, RemSmall
<1> QED
  BY <1>1, <1>2

\* The difference of numbers that are equal modulo m.
LEMMA RemDifference ==
  ASSUME NEW m \in Nat \ {0}, NEW a \in Nat, NEW c \in Nat, Rem(a + c, m) = Rem(a, m)
  PROVE  Rem(c, m) = 0
<1>1. PICK r \in 0 .. m - 1 : r = Rem(a, m)
  BY Division
<1>2. PICK j \in Nat : a = m * j + r
  BY <1>1, Division
<1>3. PICK x \in Nat : x = a + c
  OBVIOUS
<1>4. PICK i \in Nat : x = m * i + r
  <2>1. Rem(x, m) = r
    BY <1>1, <1>3
  <2> QED
    BY <2>1, Division
<1>5. m * i + r = m * j + r + c
  BY <1>2, <1>3, <1>4
<1>6. CASE j <= i
  <2>1. PICK k \in Nat : i = j + k
    BY <1>6
  <2>2. m * i = m * j + m * k
    BY <2>1
  <2>3. c = m * k
    BY <1>5, <2>2
  <2> QED
    BY <2>3, RemMultiple
<1>7. CASE i < j
  <2>1. PICK k \in Nat : j = i + 1 + k
    BY <1>7
  <2>2. m * j = m * i + m + m * k /\ m * k \in Nat
    BY <2>1
  <2> QED
    BY <1>5, <2>2
<1> QED
  BY <1>6, <1>7

\* Two primes and two numbers below their product.
LEMMA ChineseRemainder ==
  ASSUME NEW d \in Nat, Prime(d), NEW e \in Nat, Prime(e), d # e,
         NEW a \in Nat, NEW c \in Nat, a + c < d * e,
         Rem(a + c, d) = Rem(a, d), Rem(a + c, e) = Rem(a, e)
  PROVE  c = 0
<1>0. d \in Nat \ {0} /\ e \in Nat \ {0}
  BY PrimeRem
<1>1. Rem(c, d) = 0 /\ Rem(c, e) = 0
  BY <1>0, RemDifference
<1>2. PICK k \in Nat : c = e * k
  BY <1>0, <1>1, RemZero
<1>3. Rem(e, d) # 0
  BY PrimesDoNotDivide
<1>4. Rem(k, d) = 0
  <2>1. Rem(e * k, d) = 0
    BY <1>1, <1>2
  <2> QED
    BY <1>3, <2>1, PrimeDivides
<1>5. PICK j \in Nat : k = d * j
  BY <1>0, <1>4, RemZero
<1>6. PICK m \in Nat \ {0} : m = d * e
  BY <1>0
<1>7. c = m * j
  <2>1. e * (d * j) = (d * e) * j
    OBVIOUS
  <2> QED
    BY <1>2, <1>5, <1>6, <2>1
<1>8. CASE j = 0
  BY <1>7, <1>8
<1>9. CASE j # 0
  <2>1. PICK i \in Nat : j = 1 + i
    BY <1>9
  <2>2. m * j = m + m * i /\ m * i \in Nat
    BY <2>1
  <2> QED
    BY <1>6, <1>7, <2>2
<1> QED
  BY <1>8, <1>9

\* Numbers below the product of two primes that agree modulo both are equal.
LEMMA EqualBelowProduct ==
  ASSUME NEW d \in Nat, Prime(d), NEW e \in Nat, Prime(e), d # e,
         NEW a \in Nat, NEW b \in Nat, a < d * e, b < d * e,
         Rem(a, d) = Rem(b, d), Rem(a, e) = Rem(b, e)
  PROVE  a = b
<1>0. d * e \in Nat
  OBVIOUS
<1>1. CASE a <= b
  <2>1. PICK c \in Nat : b = a + c
    BY <1>1
  <2>2. c = 0
    <3>1. a + c < d * e /\ Rem(a + c, d) = Rem(a, d) /\ Rem(a + c, e) = Rem(a, e)
      BY <2>1
    <3> QED
      BY <3>1, ChineseRemainder
  <2> QED
    BY <2>1, <2>2
<1>2. CASE b <= a
  <2>1. PICK c \in Nat : a = b + c
    BY <1>2
  <2>2. c = 0
    <3>1. b + c < d * e /\ Rem(b + c, d) = Rem(b, d) /\ Rem(b + c, e) = Rem(b, e)
      BY <2>1
    <3> QED
      BY <3>1, ChineseRemainder
  <2> QED
    BY <2>1, <2>2
<1> QED
  BY <1>1, <1>2

\* Modulo a number that the prime d does not divide, d has an inverse.
LEMMA InverseExists ==
  ASSUME NEW d \in Nat, Prime(d), NEW v \in Nat, v > 1, Rem(v, d) # 0
  PROVE  mpz_invert(d, v) \in 1 .. v - 1 /\ Rem(d * mpz_invert(d, v), v) = 1
<1>0. d \in Nat \ {0} /\ v \in Nat \ {0} /\ 1 \in 0 .. v - 1 /\ v - 1 \in Nat
  BY PrimeRem
<1>1. PICK y \in 1 .. d - 1 : Rem(v * y, d) = 1
  BY PrimeInverse
<1>2. PICK k \in Nat : v * y = d * k + 1
  <2>1. PICK z \in Nat : z = v * y
    OBVIOUS
  <2>2. Rem(z, d) = 1 /\ d \in Nat \ {0}
    BY <1>0, <1>1, <2>1
  <2>3. PICK k \in Nat : z = d * k + 1
    BY <2>2, Division
  <2> QED
    BY <2>1, <2>3
<1>3. PICK x \in Nat : x = k * (v - 1)
  BY <1>0
<1>4. PICK u \in Nat : u = y * (v - 1) - 1
  <2>1. PICK w \in Nat : v - 1 = 1 + w
    OBVIOUS
  <2>2. y * (1 + w) = y + y * w /\ y * w \in Nat
    BY <2>1
  <2> QED
    BY <2>1, <2>2
<1>5. d * x = v * u + 1
  <2>1. d * x = (d * k) * (v - 1)
    BY <1>3
  <2>2. (d * k) * (v - 1) = (v * y - 1) * (v - 1)
    <3>1. d * k = v * y - 1
      BY <1>2
    <3> QED
      BY <3>1
  <2>3. (v * y - 1) * (v - 1) = v * (y * (v - 1) - 1) + 1
    <3>1. PICK w \in Nat : w = v - 1
      BY <1>0
    <3>2. PICK z \in Nat : z = y * w
      BY <3>1
    <3>3. (v * y - 1) * w = v * z - w
      <4>1. (v * y) * w = v * (y * w)
        OBVIOUS
      <4>2. (v * y - 1) * w = (v * y) * w - w
        OBVIOUS
      <4> QED
        BY <3>2, <4>1, <4>2
    <3>4. v * (z - 1) = v * z - v
      OBVIOUS
    <3> QED
      BY <3>1, <3>2, <3>3, <3>4
  <2> QED
    BY <1>4, <2>1, <2>2, <2>3
<1>6. Rem(d * x, v) = 1
  BY <1>0, <1>5, Remainder
<1>7. PICK e \in 0 .. v - 1 : e = Rem(x, v)
  BY <1>0, Division
<1>8. Rem(d * e, v) = 1
  <2>1. Rem(e * d, v) = Rem(x * d, v)
    BY <1>0, <1>7, RemMul
  <2>2. e * d = d * e /\ x * d = d * x
    OBVIOUS
  <2> QED
    BY <1>6, <2>1, <2>2
<1>9. e # 0
  <2>1. d * 0 = 0 /\ 0 \in 0 .. v - 1
    BY <1>0
  <2>2. Rem(0, v) = 0
    BY <1>0, <2>1, RemSmall
  <2> QED
    BY <1>8, <2>1, <2>2
<1>10. e \in 1 .. v - 1
  BY <1>7, <1>9
<1>11. \E z \in 1 .. v - 1 : Rem(d * z, v) = 1
  BY <1>8, <1>10
<1>12. mpz_invert(d, v) = CHOOSE z \in 1 .. v - 1 : Rem(d * z, v) = 1
  BY <1>11, Zenon DEF mpz_invert, Rem
<1> QED
  BY <1>11, <1>12, Zenon

\* RSA: with an inverse of one exponent modulo (d - 1)(e - 1) as the other, what
\* is encrypted is decrypted.
LEMMA Rsa ==
  ASSUME NEW d \in Nat, Prime(d), NEW e \in Nat, Prime(e), d # e,
         NEW x \in Nat, NEW y \in Nat, NEW k \in Nat, x * y = ((d - 1) * (e - 1)) * k + 1,
         NEW b \in Nat, b < d * e
  PROVE  mpz_powm(mpz_powm(b, y, d * e), x, d * e) = b
<1>0. d \in Nat \ {0} /\ e \in Nat \ {0} /\ d - 1 \in Nat /\ e - 1 \in Nat
  BY PrimeRem
<1>1. PICK m \in Nat \ {0} : m = d * e /\ m = e * d
  BY <1>0
<1>2. PICK c \in Nat : c = mpz_powm(b, y, m) /\ c = Power(b, m)[y]
  <2>1. Power(b, m)[y] \in Nat
    BY PowerStep
  <2> QED
    BY <2>1, PowmIs
<1>3. PICK z \in Nat : z = y * x /\ z = x * y
  OBVIOUS
<1>4. PICK a \in 0 .. m - 1 : a = Power(b, m)[z]
  BY <1>3, PowerStep
<1>5. mpz_powm(c, x, m) = a
  <2>1. mpz_powm(c, x, m) = Power(c, m)[x]
    BY PowmIs
  <2>2. Power(Power(b, m)[y], m)[x] = Power(b, m)[y * x]
    BY PowerPower
  <2> QED
    BY <1>2, <1>3, <1>4, <2>1, <2>2
<1>6. Rem(a, d) = Rem(b, d)
  <2>1. Rem(Power(b, m)[z], d) = Power(b, d)[z]
    <3>1. Reduces(m, d, e, b)
      BY <1>0, PowerFactor
    <3> QED
      BY <1>1, <3>1, Zenon DEF Reduces
  <2>2. PICK j \in Nat : j = (e - 1) * k
    BY <1>0
  <2>3. z = (d - 1) * j + 1
    <3>1. ((d - 1) * (e - 1)) * k = (d - 1) * ((e - 1) * k)
      BY <1>0
    <3> QED
      BY <1>3, <2>2, <3>1
  <2>4. Power(b, d)[(d - 1) * j + 1] = Rem(b, d)
    BY FermatPower
  <2> QED
    BY <1>1, <1>4, <2>1, <2>3, <2>4
<1>7. Rem(a, e) = Rem(b, e)
  <2>1. Rem(Power(b, m)[z], e) = Power(b, e)[z]
    <3>1. Reduces(m, e, d, b)
      BY <1>0, PowerFactor
    <3> QED
      BY <1>1, <3>1, Zenon DEF Reduces
  <2>2. PICK j \in Nat : j = (d - 1) * k
    BY <1>0
  <2>3. z = (e - 1) * j + 1
    <3>1. ((d - 1) * (e - 1)) * k = (e - 1) * ((d - 1) * k)
      BY <1>0
    <3> QED
      BY <1>3, <2>2, <3>1
  <2>4. Power(b, e)[(e - 1) * j + 1] = Rem(b, e)
    BY FermatPower
  <2> QED
    BY <1>1, <1>4, <2>1, <2>3, <2>4
<1>8. a \in Nat /\ a < d * e
  BY <1>1, <1>4
<1>9. a = b
  BY <1>6, <1>7, <1>8, EqualBelowProduct
<1> QED
  BY <1>1, <1>2, <1>5, <1>9

-----------------------------------------------------------------------------
(* The keys                                                                *)

\* What a thread has drawn are primes, and its key is made of them.
Drawn ==
  \A t \in Threads :
    /\ Len(places[t]) >= 1 => Prime(q[t])
    /\ Len(places[t]) >= 2 => Prime(p[t])
    /\ Len(places[t]) >= 3 => Prime(private[t])
    /\ pc[t] \in {"invert", "done"} => Len(places[t]) = DRAWS
    /\ pc[t] = "done" => n[t] = p[t] * q[t] /\ public[t] = mpz_invert(private[t], Totient(t))

RInv == TInv /\ Drawn

LEMMA RInit == Init => RInv
<1> SUFFICES ASSUME Init PROVE Drawn
  BY TInit DEF RInv
<1>1. \A t \in Threads : places[t] = <<>> /\ pc[t] = "test"
  BY DEF Init
<1>2. Len(<<>>) = 0
  OBVIOUS
<1>3. \A t \in Threads : Len(places[t]) = 0 /\ pc[t] = "test"
  BY <1>1, <1>2, Zenon
<1>4. ~ 0 >= 1 /\ ~ 0 >= 2 /\ ~ 0 >= 3 /\ "test" \notin {"invert", "done"} /\ "test" # "done"
  OBVIOUS
<1> QED
  BY <1>3, <1>4, Zenon DEF Drawn

LEMMA RStep == RInv /\ [Next]_vars => RInv'
<1> SUFFICES ASSUME RInv, [Next]_vars PROVE Drawn'
  BY TStep DEF RInv
<1>0. pc \in [Threads -> Labels] /\ TInv
  BY DEF RInv, TInv, StateTypes
<1>1. CASE UNCHANGED vars \/ Tick
  BY <1>1 DEF vars, Tick, numbers, history, RInv, Drawn, Totient
<1>2. ASSUME NEW t \in Threads, Test(t) \/ InitRand(t) \/ Seed(t) PROVE Drawn'
  <2>1. UNCHANGED <<places, q, p, private, public, n>>
    BY <1>2 DEF Test, InitRand, Seed, history, numbers
  <2>2. pc'[t] \notin {"invert", "done"} /\ \A u \in Threads \ {t} : pc'[u] = pc[u]
    BY <1>0, <1>2 DEF Test, InitRand, Seed, Goto
  <2> QED
    BY <2>1, <2>2 DEF RInv, Drawn, Totient
<1>3. ASSUME NEW t \in Threads, Draw(t) PROVE Drawn'
  <2> DEFINE draw == Len(places[t]) + 1
             place == [seed |-> rand.seed, at |-> rand.taken + 1]
  <2>1. /\ draw \in 1 .. DRAWS /\ Len(places'[t]) = draw
        /\ places' = [places EXCEPT ![t] = Append(places[t], place)]
        /\ pc' = [pc EXCEPT ![t] = After(draw)]
        /\ UNCHANGED <<public, n>>
    BY <1>0, <1>3, DrawGives
  <2>2. PICK prime \in Nat :
          /\ Prime(prime)
          /\ q' = [q EXCEPT ![t] = IF draw = 1 THEN prime ELSE q[t]]
          /\ p' = [p EXCEPT ![t] = IF draw = 2 THEN prime ELSE p[t]]
          /\ private' = [private EXCEPT ![t] = IF draw = DRAWS THEN prime ELSE private[t]]
    BY <1>0, <1>3, DrawGives
  <2>3. pc'[t] = IF draw < DRAWS THEN "test" ELSE "invert"
    BY <1>0, <2>1, AfterIs
  <2>4. /\ places \in [Threads -> Seq(Place)] /\ q \in [Threads -> Nat] /\ p \in [Threads -> Nat]
        /\ private \in [Threads -> Nat]
    BY <1>0 DEF TInv, StateTypes, NumberTypes
  <2>5. ASSUME NEW u \in Threads \ {t}
        PROVE  /\ places'[u] = places[u] /\ pc'[u] = pc[u] /\ q'[u] = q[u] /\ p'[u] = p[u]
               /\ private'[u] = private[u] /\ public'[u] = public[u] /\ n'[u] = n[u]
    <3> HIDE DEF draw, place
    <3> QED
      BY <1>0, <2>1, <2>2, <2>4
  <2>6. /\ draw = 1 => Prime(q'[t])
        /\ draw = 2 => Prime(p'[t]) /\ q'[t] = q[t]
        /\ draw = 3 => Prime(private'[t]) /\ q'[t] = q[t] /\ p'[t] = p[t]
    <3> HIDE DEF draw
    <3> QED
      BY <2>2, <2>4 DEF DRAWS
  <2>7. /\ draw - 1 >= 1 => Prime(q[t])
        /\ draw - 1 >= 2 => Prime(p[t])
    <3>1. draw - 1 = Len(places[t])
      BY <2>4
    <3> QED
      BY <3>1 DEF RInv, Drawn
  <2>8. /\ Len(places'[t]) >= 1 => Prime(q'[t])
        /\ Len(places'[t]) >= 2 => Prime(p'[t])
        /\ Len(places'[t]) >= 3 => Prime(private'[t])
        /\ pc'[t] \in {"invert", "done"} => Len(places'[t]) = DRAWS
        /\ pc'[t] # "done"
    <3> HIDE DEF draw
    <3>1. draw = 1 \/ draw = 2 \/ draw = 3
      BY <2>1 DEF DRAWS
    <3> QED
      BY <2>1, <2>3, <2>6, <2>7, <3>1 DEF DRAWS
  <2>9. ASSUME NEW u \in Threads \ {t}
        PROVE  /\ Len(places'[u]) >= 1 => Prime(q'[u])
               /\ Len(places'[u]) >= 2 => Prime(p'[u])
               /\ Len(places'[u]) >= 3 => Prime(private'[u])
               /\ pc'[u] \in {"invert", "done"} => Len(places'[u]) = DRAWS
               /\ pc'[u] = "done" => n'[u] = p'[u] * q'[u] /\ public'[u] = mpz_invert(private'[u], Totient(u)')
    BY <2>5 DEF RInv, Drawn, Totient
  <2> QED
    BY <2>8, <2>9 DEF Drawn
<1>4. ASSUME NEW t \in Threads, Invert(t) PROVE Drawn'
  <2>1. UNCHANGED <<places, q, p, private>> /\ pc[t] = "invert" /\ \A u \in Threads \ {t} : pc'[u] = pc[u]
    BY <1>0, <1>4 DEF Invert, Goto, history
  <2>2. /\ n'[t] = p[t] * q[t] /\ public'[t] = mpz_invert(private[t], Totient(t))
        /\ \A u \in Threads \ {t} : n'[u] = n[u] /\ public'[u] = public[u]
    BY <1>0, <1>4 DEF Invert, TInv, NumberTypes
  <2>3. Totient(t)' = Totient(t)
    BY <2>1 DEF Totient
  <2>4. \A u \in Threads : Totient(u)' = Totient(u)
    BY <2>1 DEF Totient
  <2> QED
    BY <2>1, <2>2, <2>4 DEF RInv, Drawn
<1> QED
  BY <1>1, <1>2, <1>3, <1>4 DEF Next, rsa_init_keys

\* A key made of good primes decrypts what it has encrypted: for primes of any
\* size, whatever rand() returns and however the threads share it, where the
\* prime private key divides neither p - 1 nor q - 1 the public key is its
\* inverse and a number below n comes back.
THEOREM KeysAreInverse == Spec => []KeysWork
<1>1. RInv => KeysWork
  <2> SUFFICES ASSUME RInv, NEW t \in Threads, pc[t] = "done", p[t] # q[t],
                      (p[t] - 1) % private[t] # 0, (q[t] - 1) % private[t] # 0,
                      NEW m \in 0 .. n[t] - 1
               PROVE  rsa_decrypt(rsa_encrypt(m, public[t], n[t]), private[t], n[t]) = m
    BY DEF KeysWork
  <2>1. /\ Prime(q[t]) /\ Prime(p[t]) /\ Prime(private[t])
        /\ n[t] = p[t] * q[t] /\ public[t] = mpz_invert(private[t], Totient(t))
    BY DEF RInv, Drawn, DRAWS
  <2>2. PICK a \in Nat, b \in Nat, d \in Nat : a = p[t] /\ b = q[t] /\ d = private[t]
    BY DEF RInv, TInv, NumberTypes
  <2>3. Prime(a) /\ Prime(b) /\ Prime(d) /\ a # b
    BY <2>1, <2>2
  <2>4. a > 1 /\ b > 1 /\ d \in Nat \ {0} /\ a - 1 \in Nat /\ b - 1 \in Nat
    BY <2>3, PrimeRem
  <2>5. Rem(a - 1, d) # 0 /\ Rem(b - 1, d) # 0
    BY <2>2, Zenon DEF Rem
  <2>6. PICK v \in Nat : v = (a - 1) * (b - 1)
    BY <2>4
  <2>7. v > 1
    <3>1. PICK i \in Nat, j \in Nat : a - 1 = 1 + i /\ b - 1 = 1 + j
      BY <2>4
    <3>2. (1 + i) * (1 + j) = 1 + i + j + i * j /\ i * j \in Nat
      OBVIOUS
    <3>3. i # 0 \/ j # 0
      BY <2>3, <3>1
    <3> QED
      BY <2>6, <3>1, <3>2, <3>3
  <2>8. Rem(v, d) # 0
    <3>1. Rem((a - 1) * (b - 1), d) # 0
      BY <2>3, <2>4, <2>5, PrimeDivides
    <3> QED
      BY <2>6, <3>1
  <2>9. PICK e \in 1 .. v - 1 : e = mpz_invert(d, v) /\ Rem(d * e, v) = 1
    BY <2>3, <2>7, <2>8, InverseExists
  <2>10. PICK k \in Nat : d * e = v * k + 1
    <3>1. PICK x \in Nat : x = d * e
      OBVIOUS
    <3>2. Rem(x, v) = 1 /\ v \in Nat \ {0}
      BY <2>7, <2>9, <3>1
    <3>3. PICK k \in Nat : x = v * k + 1
      BY <3>2, Division
    <3> QED
      BY <3>1, <3>3
  <2>11. m \in Nat /\ m < a * b /\ e \in Nat /\ d * e = ((a - 1) * (b - 1)) * k + 1
    <3>1. PICK x \in Nat : x = a * b
      OBVIOUS
    <3>2. n[t] = x
      BY <2>1, <2>2, <3>1
    <3> QED
      BY <2>6, <2>10, <3>1, <3>2
  <2>12. mpz_powm(mpz_powm(m, e, a * b), d, a * b) = m
    BY <2>3, <2>11, Rsa
  <2>13. n[t] = a * b /\ public[t] = e /\ private[t] = d
    <3>1. Totient(t) = v
      BY <2>2, <2>6 DEF Totient
    <3> QED
      BY <2>1, <2>2, <2>9, <3>1
  <2> QED
    BY <2>12, <2>13 DEF rsa_encrypt, rsa_decrypt
<1>2. Spec => []RInv
  BY RInit, RStep, PTL DEF Spec
<1> QED
  BY <1>1, <1>2, PTL

=============================================================================
