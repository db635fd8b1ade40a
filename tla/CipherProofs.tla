---------------------------- MODULE CipherProofs ----------------------------
(***************************************************************************)
(* The safety properties of CipherContext for any number of threads, any   *)
(* length of message, any division of a block and any number of calls.     *)
(***************************************************************************)
EXTENDS CipherContext, TLAPS

\* The pieces of the vector that a thread is going to rely on: those it has yet
\* to read of this block, or has copied already for the next; and their value.
Reads(t) == pc[t] \in {"encrypt", "decrypt"}
Pending(t) ==
  IF Reads(t) THEN part[t] .. PARTS
  ELSE IF pc[t] = "store_next" THEN 1 .. part[t] - 1 ELSE {}
Required(t) == IF Reads(t) THEN Expected(t) ELSE CipherBlock(t, block[t])

\* A thread that will not find what it relies on, and whose block is not counted as
\* damaged yet, has been hit once more than it has been damaged.
Owed(t) == IF ~wrong[t] /\ \E p \in Pending(t) : Iv[p] # Required(t) THEN 1 ELSE 0
OwedInv == \A t \in Threads : damaged[t] + Owed(t) <= hits[t]

\* Where the blocks of a message are counted from and to.
ProgressInv == \A t \in Threads :
  /\ pc[t] = "encrypt" => block[t] = 1
  /\ ~Reads(t) => ~wrong[t]
  /\ pc[t] = "idle" => part[t] = 1
  /\ damaged[t] <= (IF Reads(t) /\ ~wrong[t] THEN block[t] - 1 ELSE block[t])

\* A piece of the vector that is not the fixed one will be set back by a thread that
\* is inside.
CleanInv == \A p \in Parts : Iv[p] # Fixed =>
  \E t \in Threads : Inside(t) /\ (pc[t] = "set_iv" => part[t] <= p)

\* Whoever is alone has not been hit, and stays alone until somebody calls.
AloneInv == \A t \in Threads :
  alone[t] => /\ hits[t] = 0
              /\ Inside(t) => \A u \in Threads \ {t} : ~Inside(u)

\* The inductive invariant.
CInv == TypeOK /\ OwedInv /\ ProgressInv /\ CleanInv /\ AloneInv

USE BlocksAssumption, CallsAssumption

PcLabels == {"idle", "encrypt", "store_last", "decrypt", "store_next", "set_iv"}

\* The initial states satisfy the invariant.
LEMMA CInit == Init => CInv
<1> SUFFICES ASSUME Init PROVE CInv
  OBVIOUS
<1> USE DEF Init
<1>1. TypeOK
  BY DEF TypeOK, Fixed, Vectors, Parts
<1>2. \A t \in Threads : ~Reads(t) /\ pc[t] = "idle" /\ Pending(t) = {}
  BY DEF Reads, Pending
<1>3. OwedInv
  <2> SUFFICES ASSUME NEW t \in Threads PROVE damaged[t] + Owed(t) <= hits[t]
    BY DEF OwedInv
  <2>1. Owed(t) = 0
    BY <1>2 DEF Owed
  <2>2. damaged[t] = 0 /\ hits[t] = 0
    OBVIOUS
  <2> QED
    BY <2>1, <2>2
<1>4. ProgressInv
  <2> SUFFICES ASSUME NEW t \in Threads
               PROVE  ~wrong[t] /\ part[t] = 1 /\ damaged[t] <= block[t]
    BY <1>2 DEF ProgressInv
  <2>2. damaged[t] = 0 /\ block[t] = 1
    OBVIOUS
  <2> QED
    BY <2>2
<1>5. AloneInv /\ CleanInv
  BY DEF AloneInv, CleanInv, Inside
<1> QED
  BY <1>1, <1>3, <1>4, <1>5 DEF CInv

\* What a copy of one piece into the vector does: it hits every other thread inside.
LEMMA CopyHits ==
  ASSUME TypeOK, NEW t \in Threads, NEW v \in Vectors, SetIv(t, v)
  PROVE  /\ Iv' \in [Parts -> Vectors]
         /\ part' \in [Threads -> Parts]
         /\ hits' \in [Threads -> Nat]
         /\ \A u \in Threads \ {t} :
              part'[u] = part[u] /\ hits'[u] = IF Inside(u) THEN hits[u] + 1 ELSE hits[u]
         /\ part'[t] = IF part[t] = PARTS THEN 1 ELSE part[t] + 1
         /\ Iv'[part[t]] = v /\ hits'[t] = hits[t]
         /\ \A p \in Parts : p # part[t] => Iv'[p] = Iv[p]
<1> USE DEF TypeOK, Others, Parts
<1>1. /\ Iv' = [Iv EXCEPT ![part[t]] = v]
      /\ hits' = [u \in Threads |-> IF u \in Others(t) THEN hits[u] + 1 ELSE hits[u]]
      /\ part' = [part EXCEPT ![t] = IF part[t] = PARTS THEN 1 ELSE part[t] + 1]
  BY DEF SetIv, Pass, Last
<1>2. part[t] \in 1 .. PARTS
  OBVIOUS
<1>3. (IF part[t] = PARTS THEN 1 ELSE part[t] + 1) \in 1 .. PARTS
  BY <1>2
<1>4. Iv' \in [Parts -> Vectors] /\ Iv'[part[t]] = v /\ \A p \in Parts : p # part[t] => Iv'[p] = Iv[p]
  BY <1>1, <1>2
<1>5. /\ part' \in [Threads -> Parts] /\ part'[t] = IF part[t] = PARTS THEN 1 ELSE part[t] + 1
      /\ \A u \in Threads \ {t} : part'[u] = part[u]
  BY <1>1, <1>3
<1>6. /\ hits' \in [Threads -> Nat] /\ hits'[t] = hits[t]
      /\ \A u \in Threads \ {t} : hits'[u] = IF Inside(u) THEN hits[u] + 1 ELSE hits[u]
  BY <1>1
<1> QED
  BY <1>4, <1>5, <1>6

LEMMA OwedType == \A t \in Threads : Owed(t) \in {0, 1} /\ Owed(t)' \in {0, 1}
BY DEF Owed

\* A thread that does not move while another writes a piece still owes no more than
\* it was hit.
LEMMA OthersOwe ==
  ASSUME TypeOK, OwedInv, NEW t \in Threads, NEW v \in Vectors, SetIv(t, v),
         NEW u \in Threads \ {t},
         pc'[u] = pc[u], damaged'[u] = damaged[u]
  PROVE  damaged'[u] + Owed(u)' <= hits'[u]
<1>1. damaged[u] \in Nat /\ hits[u] \in Nat
  BY DEF TypeOK
<1>2. damaged[u] + Owed(u) <= hits[u]
  BY DEF OwedInv
<1>3. hits'[u] = IF Inside(u) THEN hits[u] + 1 ELSE hits[u]
  BY CopyHits
<1>4. CASE Inside(u)
  <2>1. hits'[u] = hits[u] + 1
    BY <1>3, <1>4
  <2> QED
    BY <1>1, <1>2, <2>1, OwedType
<1>5. CASE ~Inside(u)
  <2>1. hits'[u] = hits[u]
    BY <1>3, <1>5
  <2>2. Pending(u)' = {}
    BY <1>5 DEF Pending, Reads, Inside
  <2>3. Owed(u)' = 0
    BY <2>2 DEF Owed
  <2> QED
    BY <1>1, <1>2, <2>1, <2>3, OwedType
<1> QED
  BY <1>4, <1>5

\* Being alone survives the copy of another, and of oneself.
LEMMA CopyAlone ==
  ASSUME TypeOK, AloneInv, NEW t \in Threads, NEW v \in Vectors, SetIv(t, v), Inside(t),
         UNCHANGED alone, \A u \in Threads \ {t} : pc'[u] = pc[u]
  PROVE  AloneInv'
<1> SUFFICES ASSUME NEW u \in Threads, alone'[u]
             PROVE  hits'[u] = 0 /\ (Inside(u)' => \A w \in Threads \ {u} : ~Inside(w)')
  BY DEF AloneInv
<1>1. hits[u] = 0 /\ (Inside(u) => \A w \in Threads \ {u} : ~Inside(w))
  BY DEF AloneInv
<1>2. CASE u = t
  <2>1. \A w \in Threads \ {u} : ~Inside(w) /\ ~Inside(w)'
    BY <1>1, <1>2 DEF Inside
  <2>2. hits'[t] = hits[t]
    BY CopyHits
  <2> QED
    BY <1>1, <1>2, <2>1, <2>2
<1>3. CASE u # t
  <2>1. ~Inside(u) /\ ~Inside(u)'
    BY <1>1, <1>3 DEF Inside
  <2>2. hits'[u] = hits[u]
    BY <1>3, <2>1, CopyHits
  <2> QED
    BY <1>1, <2>1, <2>2
<1> QED
  BY <1>2, <1>3

\* A call: whoever is inside is not alone any more.
LEMMA CCall ==
  ASSUME CInv, NEW t \in Threads, NEW first \in {"encrypt", "decrypt"}, Call(t, first)
  PROVE  CInv'
<1> USE DEF CInv
<1>0. /\ damaged'[t] = 0 /\ hits'[t] = (IF \A p \in Parts : Iv[p] = Fixed THEN 0 ELSE 1)
      /\ Iv' = Iv /\ block'[t] = 1 /\ part' = part /\ wrong' = wrong
      /\ pc[t] = "idle" /\ pc'[t] = first
      /\ \A u \in Threads \ {t} :
           /\ damaged'[u] = damaged[u] /\ hits'[u] = hits[u]
           /\ block'[u] = block[u] /\ pc'[u] = pc[u]
  BY DEF Call, TypeOK
<1>1. TypeOK'
  <2>1. hits' \in [Threads -> Nat] /\ alone' \in [Threads -> BOOLEAN]
    BY DEF TypeOK, Call
  <2>2. calls' \in [Threads -> 0 .. MAX_CALLS]
    BY DEF TypeOK, Call
  <2>3. block' \in [Threads -> 1 .. BLOCKS] /\ damaged' \in [Threads -> 0 .. BLOCKS]
    BY DEF TypeOK, Call
  <2>4. pc' \in [Threads -> PcLabels]
    BY DEF TypeOK, Call, PcLabels
  <2> QED
    BY <1>0, <2>1, <2>2, <2>3, <2>4 DEF TypeOK, PcLabels
<1>2. OwedInv'
  <2> SUFFICES ASSUME NEW u \in Threads PROVE damaged'[u] + Owed(u)' <= hits'[u]
    BY DEF OwedInv
  <2>1. CASE u = t
    <3>1. Reads(t)' /\ Required(t)' = Fixed
      BY <1>0 DEF Reads, Required, Expected
    <3>2. Pending(t)' \subseteq Parts
      <4>1. part'[t] \in 1 .. PARTS
        BY <1>0 DEF TypeOK, Parts
      <4> QED
        BY <3>1, <4>1 DEF Pending, Parts
    <3>3. (\A p \in Parts : Iv[p] = Fixed) => Owed(t)' = 0
      BY <1>0, <3>1, <3>2 DEF Owed
    <3> QED
      BY <1>0, <2>1, <3>3, OwedType
  <2>2. CASE u # t
    <3>1. Owed(u)' = Owed(u)
      BY <1>0, <2>2 DEF Owed, Pending, Required, Expected, Reads, CipherBlock
    <3> QED
      BY <1>0, <2>2, <3>1 DEF OwedInv
  <2> QED
    BY <2>1, <2>2
<1>3. ProgressInv'
  <2> SUFFICES ASSUME NEW u \in Threads
               PROVE  /\ pc'[u] = "encrypt" => block'[u] = 1
                      /\ ~Reads(u)' => ~wrong'[u]
                      /\ pc'[u] = "idle" => part'[u] = 1
                      /\ damaged'[u] <= (IF Reads(u)' /\ ~wrong'[u] THEN block'[u] - 1 ELSE block'[u])
    BY DEF ProgressInv
  <2>1. CASE u = t
    <3>1. Reads(t)' /\ pc'[t] # "idle"
      BY <1>0 DEF Reads
    <3> QED
      BY <1>0, <2>1, <3>1
  <2>2. CASE u # t
    <3>1. Reads(u)' = Reads(u)
      BY <1>0, <2>2 DEF Reads
    <3> QED
      BY <1>0, <2>2, <3>1 DEF ProgressInv
  <2> QED
    BY <2>1, <2>2
<1>4. AloneInv'
  <2> SUFFICES ASSUME NEW u \in Threads, alone'[u]
               PROVE  hits'[u] = 0 /\ (Inside(u)' => \A w \in Threads \ {u} : ~Inside(w)')
    BY DEF AloneInv
  <2>1. CASE u = t
    <3>1. \A w \in Threads \ {t} : ~Inside(w)
      BY <2>1 DEF Call, TypeOK, Others
    <3>2. ~Inside(t)
      BY <1>0 DEF Inside
    <3>3. \A p \in Parts : Iv[p] = Fixed
      BY <3>1, <3>2 DEF CleanInv
    <3> QED
      BY <1>0, <2>1, <3>1, <3>3 DEF Inside
  <2>2. CASE u # t
    <3>1. alone[u] /\ ~Inside(u)
      BY <2>2 DEF Call, TypeOK
    <3> QED
      BY <1>0, <2>2, <3>1 DEF AloneInv, Inside
  <2> QED
    BY <2>1, <2>2
<1>5. CleanInv'
  <2>1. \A u \in Threads : Inside(u) => u # t
    BY <1>0 DEF Inside
  <2>2. \A u \in Threads : Inside(u) => Inside(u)' /\ pc'[u] = pc[u] /\ part'[u] = part[u]
    BY <1>0, <2>1 DEF Inside
  <2> QED
    BY <1>0, <2>2 DEF CleanInv
<1> QED
  BY <1>1, <1>2, <1>3, <1>4, <1>5

\* Reading a piece of the vector: whoever is damaged owed it, and owes no more.
LEMMA CRead ==
  ASSUME CInv, NEW t \in Threads, EncryptFirst(t) \/ DecryptBlock(t)
  PROVE  CInv'
<1> USE DEF CInv
<1> DEFINE k == part[t]
           miss == Iv[k] # Expected(t)
<1>1. /\ Reads(t) /\ Inside(t) /\ Inside(t)' /\ pc' \in [Threads -> PcLabels]
      /\ pc[t] # "set_iv" /\ pc'[t] # "set_iv"
      /\ \A u \in Threads \ {t} : pc'[u] = pc[u]
      /\ Last(t) => pc'[t] \in {"store_last", "store_next"}
      /\ ~Last(t) => pc'[t] = pc[t] /\ block'[t] = block[t]
  BY DEF EncryptFirst, DecryptBlock, Reads, Inside, TypeOK, PcLabels
<1>2. /\ Iv' = Iv /\ hits' = hits /\ alone' = alone /\ calls' = calls
      /\ \A u \in Threads \ {t} : block'[u] = block[u]
      /\ block'[t] \in block[t] .. BLOCKS
      /\ block' \in [Threads -> 1 .. BLOCKS]
  BY DEF EncryptFirst, DecryptBlock, TypeOK
<1>3. UseIv(t, Expected(t)) /\ k \in 1 .. PARTS
  BY DEF EncryptFirst, DecryptBlock, ProgressInv, Expected, TypeOK, Parts
<1>4. /\ part' = [part EXCEPT ![t] = IF k = PARTS THEN 1 ELSE k + 1]
      /\ part' \in [Threads -> Parts]
      /\ damaged' = IF miss /\ ~wrong[t] THEN [damaged EXCEPT ![t] = damaged[t] + 1] ELSE damaged
      /\ wrong' = [wrong EXCEPT ![t] = (wrong[t] \/ miss) /\ ~Last(t)]
  BY <1>3 DEF UseIv, Pass, Last, TypeOK, Parts
<1>5. /\ damaged'[t] = damaged[t] + (IF miss /\ ~wrong[t] THEN 1 ELSE 0)
      /\ \A u \in Threads \ {t} : damaged'[u] = damaged[u] /\ wrong'[u] = wrong[u] /\ part'[u] = part[u]
      /\ part'[t] = (IF k = PARTS THEN 1 ELSE k + 1)
      /\ damaged' \in [Threads -> Nat] /\ wrong' \in [Threads -> BOOLEAN]
      /\ wrong'[t] = ((wrong[t] \/ miss) /\ ~Last(t))
  BY <1>4 DEF TypeOK
<1>6. /\ damaged[t] \in Nat /\ hits[t] \in Nat /\ block[t] \in 1 .. BLOCKS /\ wrong[t] \in BOOLEAN
      /\ damaged[t] <= (IF wrong[t] THEN block[t] ELSE block[t] - 1)
      /\ damaged[t] + Owed(t) <= hits[t]
  BY <1>1 DEF TypeOK, ProgressInv, OwedInv
<1> HIDE DEF miss, k
<1>7. /\ damaged'[t] <= block[t] /\ damaged'[t] \in 0 .. BLOCKS
      /\ ~Last(t) /\ ~wrong'[t] => damaged'[t] <= block[t] - 1
  BY <1>5, <1>6
<1>8. ProgressInv'
  <2> SUFFICES ASSUME NEW u \in Threads
               PROVE  /\ pc'[u] = "encrypt" => block'[u] = 1
                      /\ ~Reads(u)' => ~wrong'[u]
                      /\ pc'[u] = "idle" => part'[u] = 1
                      /\ damaged'[u] <= (IF Reads(u)' /\ ~wrong'[u] THEN block'[u] - 1 ELSE block'[u])
    BY DEF ProgressInv
  <2>1. CASE u = t /\ Last(t)
    <3>1. ~Reads(t)' /\ ~wrong'[t] /\ pc'[t] # "idle" /\ pc'[t] # "encrypt"
      BY <1>1, <1>5, <2>1 DEF Reads
    <3>2. damaged'[t] <= block'[t]
      BY <1>2, <1>6, <1>7
    <3> QED
      BY <2>1, <3>1, <3>2
  <2>2. CASE u = t /\ ~Last(t)
    <3>1. Reads(t)' /\ pc'[t] = pc[t] /\ pc[t] # "idle" /\ block'[t] = block[t]
      BY <1>1, <2>2 DEF Reads, Inside
    <3>2. pc[t] = "encrypt" => block[t] = 1
      BY DEF ProgressInv
    <3> QED
      BY <1>7, <2>2, <3>1, <3>2
  <2>3. CASE u # t
    <3>1. Reads(u)' = Reads(u)
      BY <1>1, <2>3 DEF Reads
    <3> QED
      BY <1>1, <1>2, <1>5, <2>3, <3>1 DEF ProgressInv
  <2> QED
    BY <2>1, <2>2, <2>3
<1>9. OwedInv'
  <2> SUFFICES ASSUME NEW u \in Threads PROVE damaged'[u] + Owed(u)' <= hits'[u]
    BY DEF OwedInv
  <2>1. CASE u = t
    <3>1. Pending(t) = k .. PARTS /\ Required(t) = Expected(t)
      BY <1>1 DEF Pending, Required, k
    <3>2. miss /\ ~wrong[t] => Owed(t) = 1
      BY <1>3, <3>1 DEF Owed, miss
    <3>3. CASE Last(t)
      <4>1. Pending(t)' = {}
        <5>1. part'[t] = 1 /\ ~Reads(t)'
          BY <1>1, <1>5, <3>3 DEF Last, Reads, k
        <5> QED
          BY <5>1 DEF Pending
      <4>2. Owed(t)' = 0
        BY <4>1 DEF Owed
      <4> QED
        BY <1>2, <1>5, <1>6, <2>1, <3>2, <4>2, OwedType
    <3>4. CASE ~Last(t)
      <4>1. Reads(t)' /\ part'[t] = k + 1 /\ Expected(t)' = Expected(t)
        BY <1>1, <1>5, <3>4 DEF Reads, Last, k, Expected, CipherBlock
      <4>2. Pending(t)' \subseteq Pending(t) /\ Required(t)' = Required(t)
        <5>1. Pending(t)' = k + 1 .. PARTS /\ Required(t)' = Expected(t)
          BY <4>1 DEF Pending, Required
        <5> QED
          BY <1>3, <3>1, <5>1
      <4>3. Owed(t)' = 1 => ~wrong[t] /\ ~miss /\ Owed(t) = 1
        BY <1>2, <1>5, <3>4, <4>2 DEF Owed
      <4> QED
        BY <1>2, <1>5, <1>6, <2>1, <3>2, <4>3, OwedType
    <3> QED
      BY <3>3, <3>4
  <2>2. CASE u # t
    <3>1. Owed(u)' = Owed(u)
      BY <1>1, <1>2, <1>5, <2>2 DEF Owed, Pending, Required, Expected, Reads, CipherBlock
    <3> QED
      BY <1>2, <1>5, <2>2, <3>1 DEF OwedInv
  <2> QED
    BY <2>1, <2>2
<1>10. AloneInv'
  BY <1>1, <1>2 DEF AloneInv, Inside
<1>11. CleanInv'
  <2>1. \A u \in Threads : u # t => Inside(u)' = Inside(u) /\ pc'[u] = pc[u] /\ part'[u] = part[u]
    BY <1>1, <1>5 DEF Inside
  <2>2. Inside(t)' /\ pc'[t] # "set_iv"
    BY <1>1
  <2> QED
    BY <1>2, <2>1, <2>2 DEF CleanInv
<1>12. TypeOK'
  <2>1. \A u \in Threads : damaged'[u] \in 0 .. BLOCKS
    BY <1>5, <1>7 DEF TypeOK
  <2>2. damaged' \in [Threads -> 0 .. BLOCKS]
    BY <1>5, <2>1
  <2> QED
    BY <1>1, <1>2, <1>4, <1>5, <2>2 DEF TypeOK, PcLabels
<1> QED
  BY <1>8, <1>9, <1>10, <1>11, <1>12

\* What a step that writes a piece leaves of the invariant to show: that the pieces
\* the writer relies on next are those it relied on before, with the one it writes.
LEMMA CWrite ==
  ASSUME CInv, NEW t \in Threads, NEW v \in Vectors, SetIv(t, v), Inside(t), ~Reads(t),
         UNCHANGED <<wrong, damaged, alone, calls>>,
         pc' \in [Threads -> PcLabels],
         block' \in [Threads -> 1 .. BLOCKS],
         \A u \in Threads \ {t} : pc'[u] = pc[u] /\ block'[u] = block[u],
         pc'[t] # "encrypt", pc'[t] = "idle" => part[t] = PARTS,
         block'[t] = (IF Reads(t)' THEN block[t] + 1 ELSE block[t]),
         Pending(t)' \subseteq Pending(t) \cup {part[t]},
         Pending(t)' # {} => Required(t)' = v /\ Required(t) = v,
         pc'[t] \in {"set_iv", "idle"} =>
           \/ pc[t] = "set_iv" /\ v = Fixed /\ (pc'[t] = "idle" <=> part[t] = PARTS)
           \/ pc'[t] = "set_iv" /\ part[t] = PARTS
  PROVE  CInv'
<1> USE DEF CInv
<1> DEFINE k == part[t]
<1>0. k \in 1 .. PARTS /\ Parts = 1 .. PARTS
  BY DEF TypeOK, Parts
<1>1. TypeOK'
  BY CopyHits DEF TypeOK, PcLabels
<1>2. OwedInv'
  <2> SUFFICES ASSUME NEW u \in Threads PROVE damaged'[u] + Owed(u)' <= hits'[u]
    BY DEF OwedInv
  <2>1. CASE u = t
    <3>1. damaged[t] \in Nat /\ hits[t] \in Nat /\ damaged'[t] = damaged[t] /\ hits'[t] = hits[t]
      BY CopyHits DEF TypeOK
    <3>2. damaged[t] + Owed(t) <= hits[t]
      BY DEF OwedInv
    <3>3. Owed(t)' = 1 => Owed(t) = 1
      <4> SUFFICES ASSUME ~wrong[t], NEW p \in Pending(t)', Iv'[p] # Required(t)'
                   PROVE  Owed(t) = 1
        BY DEF Owed
      <4>1. Required(t)' = v /\ Required(t) = v
        OBVIOUS
      <4>2. p # part[t]
        BY <4>1, CopyHits
      <4>3. p \in Pending(t) /\ p \in Parts
        <5>1. p \in Pending(t)
          BY <4>2
        <5>2. Pending(t) \subseteq 1 .. PARTS
          BY <1>0 DEF Pending, Reads
        <5> QED
          BY <1>0, <5>1, <5>2
      <4>4. Iv[p] # Required(t)
        BY <4>1, <4>2, <4>3, CopyHits
      <4> QED
        BY <4>3, <4>4 DEF Owed
    <3> QED
      BY <2>1, <3>1, <3>2, <3>3, OwedType
  <2>2. CASE u # t
    BY <2>2, OthersOwe
  <2> QED
    BY <2>1, <2>2
<1>3. ProgressInv'
  <2> SUFFICES ASSUME NEW u \in Threads
               PROVE  /\ pc'[u] = "encrypt" => block'[u] = 1
                      /\ ~Reads(u)' => ~wrong'[u]
                      /\ pc'[u] = "idle" => part'[u] = 1
                      /\ damaged'[u] <= (IF Reads(u)' /\ ~wrong'[u] THEN block'[u] - 1 ELSE block'[u])
    BY DEF ProgressInv
  <2>1. CASE u = t
    <3>1. damaged[t] <= block[t] /\ damaged'[t] = damaged[t] /\ block[t] \in 1 .. BLOCKS
      BY DEF ProgressInv, TypeOK
    <3>2. ~wrong[t] /\ ~wrong'[t]
      BY DEF ProgressInv
    <3>3. pc'[t] = "idle" => part'[t] = 1
      BY CopyHits
    <3> QED
      BY <2>1, <3>1, <3>2, <3>3
  <2>2. CASE u # t
    <3>1. Reads(u)' = Reads(u)
      BY <2>2 DEF Reads
    <3>2. part'[u] = part[u]
      BY <2>2, CopyHits
    <3> QED
      BY <2>2, <3>1, <3>2 DEF ProgressInv
  <2> QED
    BY <2>1, <2>2
<1>4. AloneInv'
  BY CopyAlone
<1>5. CleanInv'
  <2> SUFFICES ASSUME NEW p \in Parts, Iv'[p] # Fixed
               PROVE  \E u \in Threads : Inside(u)' /\ (pc'[u] = "set_iv" => part'[u] <= p)
    BY DEF CleanInv
  <2>1. part'[t] = (IF k = PARTS THEN 1 ELSE k + 1) /\ \A u \in Threads \ {t} : part'[u] = part[u]
    BY CopyHits
  <2>2. CASE pc'[t] \notin {"set_iv", "idle"}
    BY <2>2 DEF Inside
  <2>3. CASE pc'[t] = "set_iv" /\ part[t] = PARTS
    <3>1. Inside(t)' /\ part'[t] <= p
      BY <1>0, <2>1, <2>3 DEF Inside
    <3> QED
      BY <3>1
  <2>4. CASE pc[t] = "set_iv" /\ v = Fixed /\ (pc'[t] = "idle" <=> part[t] = PARTS) /\ pc'[t] \in {"set_iv", "idle"}
    <3>1. p # k /\ Iv[p] # Fixed
      BY <2>4, CopyHits
    <3>2. PICK w \in Threads : Inside(w) /\ (pc[w] = "set_iv" => part[w] <= p)
      BY <3>1 DEF CleanInv
    <3>3. CASE w = t
      <4>1. k < p /\ k < PARTS
        BY <1>0, <2>4, <3>1, <3>2, <3>3
      <4>2. Inside(t)' /\ part'[t] <= p
        BY <1>0, <2>1, <2>4, <4>1 DEF Inside
      <4> QED
        BY <4>2
    <3>4. CASE w # t
      <4>1. Inside(w)' /\ pc'[w] = pc[w] /\ part'[w] = part[w]
        BY <2>1, <3>2, <3>4 DEF Inside
      <4> QED
        BY <3>2, <4>1
    <3> QED
      BY <3>3, <3>4
  <2> QED
    BY <2>2, <2>3, <2>4
<1> QED
  BY <1>1, <1>2, <1>3, <1>4, <1>5

\* The three steps that write the vector.
LEMMA CStores ==
  ASSUME CInv, NEW t \in Threads, StoreLast(t) \/ StoreNext(t) \/ AES_ctx_set_iv(t)
  PROVE  CInv'
<1>0. TypeOK /\ part[t] \in 1 .. PARTS /\ block[t] \in 1 .. BLOCKS
  BY DEF CInv, TypeOK, Parts
<1>1. CASE StoreLast(t)
  <2>1. SetIv(t, CipherBlock(t, BLOCKS)) /\ CipherBlock(t, BLOCKS) \in Vectors
    BY <1>1 DEF StoreLast, CipherBlock, Vectors
  <2>2. /\ Inside(t) /\ ~Reads(t) /\ UNCHANGED <<block, wrong, damaged, alone, calls>>
        /\ pc'[t] = (IF part[t] = PARTS THEN "set_iv" ELSE "store_last")
        /\ \A u \in Threads \ {t} : pc'[u] = pc[u]
        /\ pc' \in [Threads -> PcLabels]
    BY <1>0, <1>1 DEF StoreLast, TypeOK, Inside, Reads, Last, PcLabels
  <2>3. ~Reads(t)' /\ Pending(t)' = {}
    BY <2>2 DEF Reads, Pending
  <2>4. block' \in [Threads -> 1 .. BLOCKS]
    BY <1>0, <2>2 DEF TypeOK
  <2> QED
    BY <2>1, <2>2, <2>3, <2>4, CWrite
<1>2. CASE StoreNext(t) /\ ~Last(t)
  <2>1. SetIv(t, CipherBlock(t, block[t])) /\ CipherBlock(t, block[t]) \in Vectors
    BY <1>0, <1>2 DEF StoreNext, CipherBlock, Vectors
  <2>2. /\ Inside(t) /\ ~Reads(t) /\ UNCHANGED <<pc, block, wrong, damaged, alone, calls>>
        /\ pc[t] = "store_next" /\ part[t] # PARTS
    BY <1>2 DEF StoreNext, Advance, Inside, Reads, Last
  <2>3. ~Reads(t)' /\ part'[t] = part[t] + 1
    BY <1>0, <2>1, <2>2, CopyHits DEF Reads
  <2>4. /\ Pending(t)' \subseteq Pending(t) \cup {part[t]}
        /\ Required(t)' = CipherBlock(t, block[t]) /\ Required(t) = CipherBlock(t, block[t])
    BY <1>0, <2>2, <2>3 DEF Pending, Required, Reads, CipherBlock
  <2>5. block' \in [Threads -> 1 .. BLOCKS] /\ pc' \in [Threads -> PcLabels]
    BY <1>0, <2>2 DEF TypeOK, PcLabels
  <2> QED
    BY <2>1, <2>2, <2>3, <2>4, <2>5, CWrite
<1>3. CASE StoreNext(t) /\ Last(t) /\ block[t] < BLOCKS
  <2>1. SetIv(t, CipherBlock(t, block[t])) /\ CipherBlock(t, block[t]) \in Vectors
    BY <1>0, <1>3 DEF StoreNext, CipherBlock, Vectors
  <2>2. /\ Inside(t) /\ ~Reads(t) /\ UNCHANGED <<wrong, damaged, alone, calls>>
        /\ pc[t] = "store_next" /\ pc'[t] = "decrypt" /\ part[t] = PARTS
        /\ pc' \in [Threads -> PcLabels]
    BY <1>0, <1>3 DEF StoreNext, Advance, TypeOK, Inside, Reads, Last, PcLabels
  <2>3. /\ block'[t] = block[t] + 1
        /\ \A u \in Threads \ {t} : pc'[u] = pc[u] /\ block'[u] = block[u]
        /\ block' \in [Threads -> 1 .. BLOCKS]
    BY <1>0, <1>3 DEF StoreNext, Advance, TypeOK
  <2>4. Reads(t)' /\ part'[t] = 1
    BY <2>1, <2>2, <1>0, CopyHits DEF Reads
  <2>5. Expected(t)' = CipherBlock(t, block[t])
    BY <1>0, <2>3 DEF Expected, CipherBlock
  <2>6. /\ Pending(t)' \subseteq Pending(t) \cup {part[t]}
        /\ Required(t)' = CipherBlock(t, block[t]) /\ Required(t) = CipherBlock(t, block[t])
    BY <1>0, <2>2, <2>4, <2>5 DEF Pending, Required, Reads
  <2> QED
    BY <2>1, <2>2, <2>3, <2>4, <2>6, CWrite
<1>4. CASE StoreNext(t) /\ Last(t) /\ ~(block[t] < BLOCKS)
  <2>1. SetIv(t, CipherBlock(t, block[t])) /\ CipherBlock(t, block[t]) \in Vectors
    BY <1>0, <1>4 DEF StoreNext, CipherBlock, Vectors
  <2>2. /\ Inside(t) /\ ~Reads(t) /\ UNCHANGED <<block, wrong, damaged, alone, calls>>
        /\ pc'[t] = "set_iv" /\ part[t] = PARTS /\ \A u \in Threads \ {t} : pc'[u] = pc[u]
        /\ pc' \in [Threads -> PcLabels]
    BY <1>0, <1>4 DEF StoreNext, Advance, TypeOK, Inside, Reads, Last, PcLabels
  <2>3. ~Reads(t)' /\ Pending(t)' = {}
    BY <2>2 DEF Reads, Pending
  <2>4. block' \in [Threads -> 1 .. BLOCKS]
    BY <1>0, <2>2 DEF TypeOK
  <2> QED
    BY <2>1, <2>2, <2>3, <2>4, CWrite
<1>5. CASE AES_ctx_set_iv(t)
  <2>1. SetIv(t, Fixed) /\ Fixed \in Vectors
    BY <1>5 DEF AES_ctx_set_iv, Fixed, Vectors
  <2>2. /\ Inside(t) /\ ~Reads(t) /\ UNCHANGED <<block, wrong, damaged, alone, calls>>
        /\ pc[t] = "set_iv" /\ pc'[t] = (IF part[t] = PARTS THEN "idle" ELSE "set_iv")
        /\ \A u \in Threads \ {t} : pc'[u] = pc[u]
        /\ pc' \in [Threads -> PcLabels]
    BY <1>0, <1>5 DEF AES_ctx_set_iv, TypeOK, Inside, Reads, Last, PcLabels
  <2>3. ~Reads(t)' /\ Pending(t)' = {}
    BY <2>2 DEF Reads, Pending
  <2>4. block' \in [Threads -> 1 .. BLOCKS]
    BY <1>0, <2>2 DEF TypeOK
  <2> QED
    BY <2>1, <2>2, <2>3, <2>4, CWrite
<1> QED
  BY <1>1, <1>2, <1>3, <1>4, <1>5

\* The invariant of CipherContext: a thread is hit at least once for every block
\* that comes out wrong, the one it is about to spoil included.
THEOREM CipherInvariance == Spec => []CInv
<1>1. ASSUME CInv, [Next]_vars PROVE CInv'
  <2>1. CASE UNCHANGED vars
    BY <1>1, <2>1 DEF vars, CInv, TypeOK, OwedInv, Owed, Pending, Required, Reads, Expected, CipherBlock,
                      ProgressInv, CleanInv, AloneInv, Inside
  <2>2. ASSUME NEW t \in Threads, aes_cbc_encrypt(t) PROVE CInv'
    BY <1>1, <2>2, CCall, CRead, CStores DEF aes_cbc_encrypt
  <2>3. ASSUME NEW t \in Threads, aes_cbc_decrypt(t) PROVE CInv'
    BY <1>1, <2>3, CCall, CRead, CStores DEF aes_cbc_decrypt
  <2>4. ASSUME NEW t \in Threads, AES_ctx_set_iv(t) PROVE CInv'
    BY <1>1, <2>4, CStores
  <2> QED
    BY <1>1, <2>1, <2>2, <2>3, <2>4 DEF Next
<1> QED
  BY <1>1, CInit, PTL DEF Spec

\* The variables keep their types, and no thread leaves its message.
THEOREM CipherTypes == Spec => []TypeOK
BY CipherInvariance, PTL DEF CInv

\* Between calls the vector is the fixed one, whatever has overlapped before.
THEOREM VectorIsRestored == Spec => []IdleIsClean
<1>1. CInv => IdleIsClean
  BY DEF CInv, CleanInv, IdleIsClean
<1> QED
  BY <1>1, CipherInvariance, PTL

\* A message loses one block at most for each piece of the vector that another thread
\* writes during the call, and for a vector that was spoilt when the call began.
THEOREM DamageIsBounded == Spec => []DamageBounded
<1>1. CInv => DamageBounded
  <2> SUFFICES ASSUME CInv, NEW t \in Threads PROVE damaged[t] <= hits[t]
    BY DEF DamageBounded
  <2>1. damaged[t] \in Nat /\ hits[t] \in Nat
    BY DEF CInv, TypeOK
  <2>2. damaged[t] + Owed(t) <= hits[t]
    BY DEF CInv, OwedInv
  <2> QED
    BY <2>1, <2>2, OwedType
<1> QED
  BY <1>1, CipherInvariance, PTL

\* A call that nobody overlaps is right.
THEOREM AloneMeansRight == Spec => []AloneIsRight
<1>1. CInv => AloneIsRight
  <2> SUFFICES ASSUME CInv, NEW t \in Threads, alone[t] PROVE damaged[t] = 0
    BY DEF AloneIsRight
  <2>1. damaged[t] \in Nat /\ hits[t] = 0
    BY DEF CInv, TypeOK, AloneInv
  <2>2. damaged[t] + Owed(t) <= hits[t]
    BY DEF CInv, OwedInv
  <2> QED
    BY <2>1, <2>2, OwedType
<1> QED
  BY <1>1, CipherInvariance, PTL
=============================================================================
