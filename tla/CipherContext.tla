---------------------------- MODULE CipherContext ----------------------------
(***************************************************************************)
(* One aes_encryption_data used by several threads: that of the client, in *)
(* which one thread encrypts and another decrypts, and those of the server *)
(* in which the reader decrypts and encrypts and the writer encrypts.      *)
(* AES_CBC_encrypt_buffer and AES_CBC_decrypt_buffer chain the blocks      *)
(* through ctx->Iv, and aes_cbc_encrypt and aes_cbc_decrypt set it back.   *)
(* memcpy and XorWithIv go through the vector in PARTS pieces, between     *)
(* which another thread may run.  A block is right if every piece of it    *)
(* was combined with that of the vector it should be.                      *)
(***************************************************************************)
EXTENDS Naturals

CONSTANTS
  Threads,     \* the threads that use the context
  BLOCKS,      \* the length of a message, in blocks of AES_BLOCKLEN bytes
  PARTS,       \* the pieces in which a block is copied or read
  MAX_CALLS    \* bound on the calls of each thread

ASSUME BlocksAssumption == BLOCKS \in Nat \ {0} /\ PARTS \in Nat \ {0}
ASSUME CallsAssumption == MAX_CALLS \in Nat

VARIABLES
  Iv,       \* the pieces of ctx->Iv
  pc,       \* the next step of each thread
  block,    \* the block it is at, from 1
  part,     \* the piece it copies or reads next
  wrong,    \* a piece of the block it is at was combined with another vector
  damaged,  \* how many blocks of its last message came out wrong
  hits,     \* history: the pieces others have written in its call, and 1 if it found Iv spoilt
  alone,    \* history: nobody else has been in a call since it called
  calls

vars == <<Iv, pc, block, part, wrong, damaged, hits, alone, calls>>

\* Values of the vector: the initialization vector, or the ciphertext block n of thread t.
Fixed == [of |-> "iv", n |-> 0]
CipherBlock(t, n) == [of |-> t, n |-> n]

ASSUME ThreadsAssumption == "iv" \notin Threads

Parts == 1 .. PARTS
Inside(t) == pc[t] # "idle"
Others(t) == {u \in Threads \ {t} : Inside(u)}

-----------------------------------------------------------------------------
Init ==
  /\ Iv = [p \in Parts |-> Fixed]
  /\ pc = [t \in Threads |-> "idle"]
  /\ block = [t \in Threads |-> 1] /\ part = [t \in Threads |-> 1]
  /\ wrong = [t \in Threads |-> FALSE]
  /\ damaged = [t \in Threads |-> 0]
  /\ hits = [t \in Threads |-> 0]
  /\ alone = [t \in Threads |-> TRUE]
  /\ calls = [t \in Threads |-> 0]

Last(t) == part[t] = PARTS
Pass(t) == part' = [part EXCEPT ![t] = IF Last(t) THEN 1 ELSE @ + 1]

\* The next piece of memcpy(ctx->Iv, v).
SetIv(t, v) ==
  /\ Iv' = [Iv EXCEPT ![part[t]] = v]
  /\ hits' = [u \in Threads |-> IF u \in Others(t) THEN hits[u] + 1 ELSE hits[u]]
  /\ Pass(t)

\* The next piece of XorWithIv(buf, ctx->Iv), where the chain requires v.
UseIv(t, v) ==
  LET miss == Iv[part[t]] # v
  IN /\ damaged' = IF miss /\ ~wrong[t] THEN [damaged EXCEPT ![t] = @ + 1] ELSE damaged
     /\ wrong' = [wrong EXCEPT ![t] = (@ \/ miss) /\ ~Last(t)]
     /\ Pass(t)

Call(t, first) ==
  /\ pc[t] = "idle" /\ calls[t] < MAX_CALLS
  /\ pc' = [pc EXCEPT ![t] = first]
  /\ block' = [block EXCEPT ![t] = 1]
  /\ damaged' = [damaged EXCEPT ![t] = 0]
  /\ hits' = [hits EXCEPT ![t] = IF \A p \in Parts : Iv[p] = Fixed THEN 0 ELSE 1]
  /\ alone' = [u \in Threads |-> IF u = t THEN Others(t) = {} ELSE alone[u] /\ ~Inside(u)]
  /\ calls' = [calls EXCEPT ![t] = @ + 1]
  /\ UNCHANGED <<Iv, part, wrong>>

\* AES_CBC_encrypt_buffer reads ctx->Iv for the first block and goes on with its
\* own ciphertext, of which it stores the last block.
EncryptFirst(t) ==
  /\ pc[t] = "encrypt"
  /\ UseIv(t, Fixed)
  /\ IF Last(t)
       THEN pc' = [pc EXCEPT ![t] = "store_last"] /\ block' = [block EXCEPT ![t] = BLOCKS]
       ELSE UNCHANGED <<pc, block>>
  /\ UNCHANGED <<Iv, hits, alone, calls>>

StoreLast(t) ==
  /\ pc[t] = "store_last"
  /\ SetIv(t, CipherBlock(t, BLOCKS))
  /\ pc' = IF Last(t) THEN [pc EXCEPT ![t] = "set_iv"] ELSE pc
  /\ UNCHANGED <<block, wrong, damaged, alone, calls>>

\* AES_CBC_decrypt_buffer reads ctx->Iv for every block, and stores the
\* ciphertext of the block into it for the next.
Expected(t) == IF block[t] = 1 THEN Fixed ELSE CipherBlock(t, block[t] - 1)

DecryptBlock(t) ==
  /\ pc[t] = "decrypt"
  /\ UseIv(t, Expected(t))
  /\ pc' = IF Last(t) THEN [pc EXCEPT ![t] = "store_next"] ELSE pc
  /\ UNCHANGED <<Iv, block, hits, alone, calls>>

\* After storeNextIv has been copied: the next block, or the end of the loop.
Advance(t) ==
  IF ~Last(t) THEN UNCHANGED <<pc, block>>
  ELSE IF block[t] < BLOCKS
    THEN block' = [block EXCEPT ![t] = @ + 1] /\ pc' = [pc EXCEPT ![t] = "decrypt"]
    ELSE pc' = [pc EXCEPT ![t] = "set_iv"] /\ UNCHANGED block

\* Mutant of StoreNext: the ciphertext is not kept.
StoreNextForgotten(t) ==
  /\ pc[t] = "store_next"
  /\ Pass(t) /\ Advance(t)
  /\ UNCHANGED <<Iv, hits, wrong, damaged, alone, calls>>

StoreNext(t) ==
  /\ pc[t] = "store_next"
  /\ SetIv(t, CipherBlock(t, block[t]))
  /\ Advance(t)
  /\ UNCHANGED <<wrong, damaged, alone, calls>>

\* Mutant of AES_ctx_set_iv: the vector is not set back.
AES_ctx_set_ivForgotten(t) ==
  /\ pc[t] = "set_iv"
  /\ pc' = [pc EXCEPT ![t] = "idle"]
  /\ UNCHANGED <<Iv, hits, block, part, wrong, damaged, alone, calls>>

AES_ctx_set_iv(t) ==  \* and the return
  /\ pc[t] = "set_iv"
  /\ SetIv(t, Fixed)
  /\ pc' = IF Last(t) THEN [pc EXCEPT ![t] = "idle"] ELSE pc
  /\ UNCHANGED <<block, wrong, damaged, alone, calls>>

aes_cbc_encrypt(t) == Call(t, "encrypt") \/ EncryptFirst(t) \/ StoreLast(t)
aes_cbc_decrypt(t) == Call(t, "decrypt") \/ DecryptBlock(t) \/ StoreNext(t)

Next == \E t \in Threads : aes_cbc_encrypt(t) \/ aes_cbc_decrypt(t) \/ AES_ctx_set_iv(t)

Spec == Init /\ [][Next]_vars

-----------------------------------------------------------------------------
Vectors == [of : Threads \cup {"iv"}, n : Nat]

\* The type invariant.
TypeOK ==
  /\ Iv \in [Parts -> Vectors]
  /\ pc \in [Threads -> {"idle", "encrypt", "store_last", "decrypt", "store_next", "set_iv"}]
  /\ block \in [Threads -> 1 .. BLOCKS] /\ part \in [Threads -> Parts]
  /\ wrong \in [Threads -> BOOLEAN]
  /\ damaged \in [Threads -> 0 .. BLOCKS]
  /\ hits \in [Threads -> Nat]
  /\ alone \in [Threads -> BOOLEAN]
  /\ calls \in [Threads -> 0 .. MAX_CALLS]

\* Between calls the vector is the fixed one again, however the calls before have
\* overlapped: the last thing each of them does is to set it (aes_encryption.c:16
\* and 23).
IdleIsClean == (\A t \in Threads : ~Inside(t)) => \A p \in Parts : Iv[p] = Fixed

\* A message that is encrypted or decrypted with nobody else inside is right, also
\* after calls that have spoilt each other's vector.
AloneIsRight == \A t \in Threads : alone[t] => damaged[t] = 0

\* Each piece of the vector that another thread writes during a call costs the message
\* one block at most, and so does a vector that the call finds spoilt: the chain is
\* picked up again at the next block, whatever else the two calls do (aes.c:501-529).
DamageBounded == \A t \in Threads : damaged[t] <= hits[t]
=============================================================================
