----------------------------- MODULE KeyGeneration -----------------------------
(***************************************************************************)
(* The random numbers and the RSA keys, math_utils.c and                   *)
(* rly_cryptography.c: every login thread of the server draws its primes   *)
(* from the one rand() of the process, which whoever finds rand_initiated  *)
(* unset has seeded with the second of the clock.                          *)
(***************************************************************************)
EXTENDS Integers, Sequences

CONSTANTS
  Threads,         \* the login threads in rsa_init_keys
  RandValues,      \* what rand() may return
  urandomb,        \* urandomb[r, nbits]: mpz_urandomb of a generator seeded with r
  key_bitlength,   \* RSA_KEY_LENGTH * 8 in the programs, a few bits in the runs
  FirstSecond, LastSecond    \* bound on the clock; the seed before any srand is 1

ASSUME LengthAssumption == key_bitlength \in Nat \ {0}
ASSUME ClockAssumption == FirstSecond \in Nat /\ LastSecond \in Nat /\ 1 < FirstSecond /\ FirstSecond <= LastSecond

VARIABLES
  rand_initiated,   \* __uint8_t rand_initiated
  second,           \* what time(NULL) returns
  rand,             \* the state of rand(): its seed and how many numbers were taken
  stream,           \* the numbers that each seed gives, as far as they are known
  pc, seed,         \* of each thread: the next step, and the seed it has read
  q, p, private, public, n,    \* its numbers, 0 where unset
  places,           \* history: where in which stream its draws came from
  reseeded,         \* history: another thread has called srand since its first draw
  unready           \* history: it drew while a thread was between its flag and its srand

numbers == <<q, p, private, public, n>>
history == <<places, reseeded, unready>>
vars == <<rand_initiated, second, rand, stream, pc, seed, numbers, history>>

Default == 1
Seeds == {Default} \cup FirstSecond .. LastSecond
DRAWS == 3      \* of a thread: q, p and key_private
Taken == 0 .. DRAWS

-----------------------------------------------------------------------------
(* GMP                                                                     *)

Prime(x) == x > 1 /\ \A d \in 2 .. x - 1 : x % d # 0

\* mpz_nextprime: the first prime greater than x; there is one below 2x + 3.
mpz_nextprime(x) == CHOOSE y \in x + 1 .. 2 * x + 2 : Prime(y) /\ \A z \in x + 1 .. y - 1 : ~Prime(z)

\* mpz_invert: where there is no inverse, the number stays the 0 of mpz_init2.
mpz_invert(x, v) ==
  IF \E y \in 1 .. v - 1 : (x * y) % v = 1 THEN CHOOSE y \in 1 .. v - 1 : (x * y) % v = 1 ELSE 0

mpz_powm(base, exp, m) ==
  LET power[i \in 0 .. exp] ==
        IF i = 0 THEN 1 % m
        ELSE LET half == power[i \div 2] IN (half * half * (IF i % 2 = 1 THEN base ELSE 1)) % m
  IN power[exp]

rsa_encrypt(message, key_public, m) == mpz_powm(message, key_public, m)
rsa_decrypt(message, key_private, m) == mpz_powm(message, key_private, m)

-----------------------------------------------------------------------------
Init ==
  /\ rand_initiated = FALSE
  /\ second = FirstSecond
  /\ rand = [seed |-> Default, taken |-> 0]
  /\ stream = [s \in Seeds |-> <<>>]
  /\ pc = [t \in Threads |-> "test"] /\ seed = [t \in Threads |-> Default]
  /\ q = [t \in Threads |-> 0] /\ p = [t \in Threads |-> 0] /\ private = [t \in Threads |-> 0]
  /\ public = [t \in Threads |-> 0] /\ n = [t \in Threads |-> 0]
  /\ places = [t \in Threads |-> <<>>]
  /\ reseeded = [t \in Threads |-> FALSE] /\ unready = [t \in Threads |-> FALSE]

Goto(t, label) == pc' = [pc EXCEPT ![t] = label]

\* if (!rand_initiated)
Test(t) ==
  /\ pc[t] = "test"
  /\ Goto(t, IF rand_initiated THEN "rand" ELSE "init_rand")
  /\ UNCHANGED <<rand_initiated, second, rand, stream, seed, numbers, history>>

\* Mutant of InitRand: the flag is not set.
InitRandUnflagged(t) ==
  /\ pc[t] = "init_rand"
  /\ seed' = [seed EXCEPT ![t] = second]
  /\ Goto(t, "srand")
  /\ UNCHANGED <<rand_initiated, second, rand, stream, numbers, history>>

\* rand_initiated = 1, and time(NULL) is read.
InitRand(t) ==
  /\ pc[t] = "init_rand"
  /\ rand_initiated' = TRUE
  /\ seed' = [seed EXCEPT ![t] = second]
  /\ Goto(t, "srand")
  /\ UNCHANGED <<second, rand, stream, numbers, history>>

\* Mutant of Seed: srand is not called.
SeedSkipped(t) ==
  /\ pc[t] = "srand"
  /\ Goto(t, "rand")
  /\ UNCHANGED <<rand_initiated, second, rand, stream, seed, numbers, history>>

Seed(t) ==
  /\ pc[t] = "srand"
  /\ rand' = [seed |-> seed[t], taken |-> 0]
  /\ reseeded' = [u \in Threads |-> reseeded[u] \/ (u # t /\ places[u] # <<>>)]
  /\ Goto(t, "rand")
  /\ UNCHANGED <<rand_initiated, second, stream, seed, numbers, places, unready>>

\* The lengths that rsa_init_keys asks for: even, halved, and one bit less.
Length(draw) ==
  LET even == key_bitlength + (key_bitlength % 2)
  IN IF draw < DRAWS THEN even \div 2 ELSE even - 1

\* The prime that an output r of rand() gives.
bn_getprimeb_random(r, draw) == mpz_nextprime(urandomb[r, Length(draw)])

\* What GMP makes of the outputs of rand() are primes.
ASSUME GmpAssumption ==
  \A r \in RandValues, draw \in 1 .. DRAWS :
    bn_getprimeb_random(r, draw) \in Nat /\ Prime(bn_getprimeb_random(r, draw))

After(draw) == IF draw < DRAWS THEN "test" ELSE "invert"

\* bn_getprimeb_random from rand() on; the draws of a thread are q, p and key_private.
Draw(t) ==
  /\ pc[t] = "rand"
  /\ LET place == [seed |-> rand.seed, at |-> rand.taken + 1]
         draw == Len(places[t]) + 1
         fresh == place.at > Len(stream[place.seed])
     IN \E r \in (IF fresh THEN RandValues ELSE {stream[place.seed][place.at]}) :
          LET prime == bn_getprimeb_random(r, draw)
          IN /\ stream' = IF fresh THEN [stream EXCEPT ![place.seed] = Append(@, r)] ELSE stream
             /\ rand' = [rand EXCEPT !.taken = @ + 1]
             /\ places' = [places EXCEPT ![t] = Append(@, place)]
             /\ unready' = [unready EXCEPT ![t] = @ \/ \E u \in Threads : pc[u] = "srand"]
             /\ q' = [q EXCEPT ![t] = IF draw = 1 THEN prime ELSE @]
             /\ p' = [p EXCEPT ![t] = IF draw = 2 THEN prime ELSE @]
             /\ private' = [private EXCEPT ![t] = IF draw = DRAWS THEN prime ELSE @]
             /\ Goto(t, After(draw))
  /\ UNCHANGED <<rand_initiated, second, seed, public, n, reseeded>>

\* Mutant of Totient: one prime is not reduced by one.
TotientOfN(t) == p[t] * (q[t] - 1)

Totient(t) == (p[t] - 1) * (q[t] - 1)      \* v

Invert(t) ==
  /\ pc[t] = "invert"
  /\ n' = [n EXCEPT ![t] = p[t] * q[t]]
  /\ public' = [public EXCEPT ![t] = mpz_invert(private[t], Totient(t))]
  /\ Goto(t, "done")
  /\ UNCHANGED <<rand_initiated, second, rand, stream, seed, q, p, private, history>>

Tick ==
  /\ second < LastSecond
  /\ second' = second + 1
  /\ UNCHANGED <<rand_initiated, rand, stream, pc, seed, numbers, history>>

rsa_init_keys(t) == Test(t) \/ InitRand(t) \/ Seed(t) \/ Draw(t) \/ Invert(t)

Next == Tick \/ \E t \in Threads : rsa_init_keys(t)

Spec == Init /\ [][Next]_vars

-----------------------------------------------------------------------------
(* Properties                                                              *)

Labels == {"test", "init_rand", "srand", "rand", "invert", "done"}

TypeOK ==
  /\ rand_initiated \in BOOLEAN /\ second \in FirstSecond .. LastSecond
  /\ rand.seed \in Seeds /\ rand.taken \in Nat
  /\ pc \in [Threads -> Labels] /\ seed \in [Threads -> Seeds]
  /\ {q, p, private, public, n} \subseteq [Threads -> Nat]
  /\ \A t \in Threads : Len(places[t]) \in Taken
  /\ reseeded \in [Threads -> BOOLEAN] /\ unready \in [Threads -> BOOLEAN]

\* The primes of one key come from different outputs of rand() unless another
\* thread called srand between them, which takes the stream back to its start
\* when it is in the same second: then p and q can be equal (math_utils.c:12-16).
PrimesFresh ==
  \A t \in Threads : \A i, j \in 1 .. Len(places[t]) :
    i # j /\ places[t][i] = places[t][j] => reseeded[t]

\* The flag is set before srand, so that a thread may draw from a generator
\* that nobody has seeded; only beside a thread that is about to seed it.
SeededBeforeUse ==
  \A t \in Threads : \A i \in 1 .. Len(places[t]) :
    places[t][i].seed = Default => unready[t]

\* A key is good when its primes differ and the private one divides neither
\* p - 1 nor q - 1: what rsa_encrypt then makes of a number less than n,
\* rsa_decrypt gives back.
KeysWork ==
  \A t \in Threads :
    /\ pc[t] = "done"
    /\ p[t] # q[t] /\ (p[t] - 1) % private[t] # 0 /\ (q[t] - 1) % private[t] # 0
    => \A m \in 0 .. n[t] - 1 : rsa_decrypt(rsa_encrypt(m, public[t], n[t]), private[t], n[t]) = m
=============================================================================
