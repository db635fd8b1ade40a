---------------------------------- MODULE Aes ----------------------------------
(***************************************************************************)
(* The block cipher of both programs, tiny-AES-c/aes.c as aes.h configures *)
(* it (AES128), under aes_cbc_encrypt and aes_cbc_decrypt: a message is    *)
(* encrypted and then decrypted in one context, one transformation of the  *)
(* state at a time.  A block is 16 bytes; byte j of column i, state[i][j]  *)
(* in the code, is At(i, j).                                               *)
(***************************************************************************)
EXTENDS Integers, SequencesExt

CONSTANT Messages   \* records of a 16-byte key, an initialization vector and a text

Cols == 0 .. 3
At(i, j) == 4 * i + j + 1
Col(k) == (k - 1) \div 4
Row(k) == (k - 1) % 4

Byte == 0 .. 255
Block == [1 .. 16 -> Byte]
Bits == 0 .. 7

\* The callers pass a buffer of whole blocks, padded with zeros.
ASSUME MessagesAssumption == \A m \in Messages : m.text \in Seq(Block) /\ m.text # <<>>

Weight == <<1, 2, 4, 8, 16, 32, 64, 128>>
Bit(y, k) == (y \div Weight[k + 1]) % 2       \* (y >> k) & 1
On(y, k) == Bit(y, k) = 1

\* Exclusive or of bytes, bit by bit: a ^ b.
Differ(a, b, k) == IF On(a, k) <=> On(b, k) THEN 0 ELSE Weight[k + 1]
a ## b == Differ(a, b, 0) + Differ(a, b, 1) + Differ(a, b, 2) + Differ(a, b, 3)
        + Differ(a, b, 4) + Differ(a, b, 5) + Differ(a, b, 6) + Differ(a, b, 7)

XorBlocks(a, b) == [k \in 1 .. 16 |-> a[k] ## b[k]]

sbox == <<
  \h63, \h7c, \h77, \h7b, \hf2, \h6b, \h6f, \hc5, \h30, \h01, \h67, \h2b, \hfe, \hd7, \hab, \h76,
  \hca, \h82, \hc9, \h7d, \hfa, \h59, \h47, \hf0, \had, \hd4, \ha2, \haf, \h9c, \ha4, \h72, \hc0,
  \hb7, \hfd, \h93, \h26, \h36, \h3f, \hf7, \hcc, \h34, \ha5, \he5, \hf1, \h71, \hd8, \h31, \h15,
  \h04, \hc7, \h23, \hc3, \h18, \h96, \h05, \h9a, \h07, \h12, \h80, \he2, \heb, \h27, \hb2, \h75,
  \h09, \h83, \h2c, \h1a, \h1b, \h6e, \h5a, \ha0, \h52, \h3b, \hd6, \hb3, \h29, \he3, \h2f, \h84,
  \h53, \hd1, \h00, \hed, \h20, \hfc, \hb1, \h5b, \h6a, \hcb, \hbe, \h39, \h4a, \h4c, \h58, \hcf,
  \hd0, \hef, \haa, \hfb, \h43, \h4d, \h33, \h85, \h45, \hf9, \h02, \h7f, \h50, \h3c, \h9f, \ha8,
  \h51, \ha3, \h40, \h8f, \h92, \h9d, \h38, \hf5, \hbc, \hb6, \hda, \h21, \h10, \hff, \hf3, \hd2,
  \hcd, \h0c, \h13, \hec, \h5f, \h97, \h44, \h17, \hc4, \ha7, \h7e, \h3d, \h64, \h5d, \h19, \h73,
  \h60, \h81, \h4f, \hdc, \h22, \h2a, \h90, \h88, \h46, \hee, \hb8, \h14, \hde, \h5e, \h0b, \hdb,
  \he0, \h32, \h3a, \h0a, \h49, \h06, \h24, \h5c, \hc2, \hd3, \hac, \h62, \h91, \h95, \he4, \h79,
  \he7, \hc8, \h37, \h6d, \h8d, \hd5, \h4e, \ha9, \h6c, \h56, \hf4, \hea, \h65, \h7a, \hae, \h08,
  \hba, \h78, \h25, \h2e, \h1c, \ha6, \hb4, \hc6, \he8, \hdd, \h74, \h1f, \h4b, \hbd, \h8b, \h8a,
  \h70, \h3e, \hb5, \h66, \h48, \h03, \hf6, \h0e, \h61, \h35, \h57, \hb9, \h86, \hc1, \h1d, \h9e,
  \he1, \hf8, \h98, \h11, \h69, \hd9, \h8e, \h94, \h9b, \h1e, \h87, \he9, \hce, \h55, \h28, \hdf,
  \h8c, \ha1, \h89, \h0d, \hbf, \he6, \h42, \h68, \h41, \h99, \h2d, \h0f, \hb0, \h54, \hbb, \h16 >>

rsbox == <<
  \h52, \h09, \h6a, \hd5, \h30, \h36, \ha5, \h38, \hbf, \h40, \ha3, \h9e, \h81, \hf3, \hd7, \hfb,
  \h7c, \he3, \h39, \h82, \h9b, \h2f, \hff, \h87, \h34, \h8e, \h43, \h44, \hc4, \hde, \he9, \hcb,
  \h54, \h7b, \h94, \h32, \ha6, \hc2, \h23, \h3d, \hee, \h4c, \h95, \h0b, \h42, \hfa, \hc3, \h4e,
  \h08, \h2e, \ha1, \h66, \h28, \hd9, \h24, \hb2, \h76, \h5b, \ha2, \h49, \h6d, \h8b, \hd1, \h25,
  \h72, \hf8, \hf6, \h64, \h86, \h68, \h98, \h16, \hd4, \ha4, \h5c, \hcc, \h5d, \h65, \hb6, \h92,
  \h6c, \h70, \h48, \h50, \hfd, \hed, \hb9, \hda, \h5e, \h15, \h46, \h57, \ha7, \h8d, \h9d, \h84,
  \h90, \hd8, \hab, \h00, \h8c, \hbc, \hd3, \h0a, \hf7, \he4, \h58, \h05, \hb8, \hb3, \h45, \h06,
  \hd0, \h2c, \h1e, \h8f, \hca, \h3f, \h0f, \h02, \hc1, \haf, \hbd, \h03, \h01, \h13, \h8a, \h6b,
  \h3a, \h91, \h11, \h41, \h4f, \h67, \hdc, \hea, \h97, \hf2, \hcf, \hce, \hf0, \hb4, \he6, \h73,
  \h96, \hac, \h74, \h22, \he7, \had, \h35, \h85, \he2, \hf9, \h37, \he8, \h1c, \h75, \hdf, \h6e,
  \h47, \hf1, \h1a, \h71, \h1d, \h29, \hc5, \h89, \h6f, \hb7, \h62, \h0e, \haa, \h18, \hbe, \h1b,
  \hfc, \h56, \h3e, \h4b, \hc6, \hd2, \h79, \h20, \h9a, \hdb, \hc0, \hfe, \h78, \hcd, \h5a, \hf4,
  \h1f, \hdd, \ha8, \h33, \h88, \h07, \hc7, \h31, \hb1, \h12, \h10, \h59, \h27, \h80, \hec, \h5f,
  \h60, \h51, \h7f, \ha9, \h19, \hb5, \h4a, \h0d, \h2d, \he5, \h7a, \h9f, \h93, \hc9, \h9c, \hef,
  \ha0, \he0, \h3b, \h4d, \hae, \h2a, \hf5, \hb0, \hc8, \heb, \hbb, \h3c, \h83, \h53, \h99, \h61,
  \h17, \h2b, \h04, \h7e, \hba, \h77, \hd6, \h26, \he1, \h69, \h14, \h63, \h55, \h21, \h0c, \h7d >>

Rcon == <<\h8d, \h01, \h02, \h04, \h08, \h10, \h20, \h40, \h80, \h1b, \h36>>

Nr == 10     \* rounds of AES128
Nk == 4      \* words of its key

getSBoxValue(num) == sbox[num + 1]
getSBoxInvert(num) == rsbox[num + 1]

\* What KeyExpansion reads as the key: key has 8 bytes (AES_KEY_LENGTH) of the
\* 16 of AES128, and the bytes that follow it in aes_encryption_data are iv.
KeyRead(key, iv) == key \o SubSeq(iv, 1, 16 - Len(key))

\* Mutant of RoundConstant: counted from the first word of the schedule.
RoundConstantShifted(i) == Rcon[(i \div Nk)]
RoundConstant(i) == Rcon[(i \div Nk) + 1]

\* One more word for the schedule w, whose words are w[1] .. w[i].
NextWord(w, i) ==
  LET last == w[i]
      rotated == <<last[2], last[3], last[4], last[1]>>
      subst == [j \in 1 .. 4 |-> getSBoxValue(rotated[j])]
      tempa == IF i % Nk = 0 THEN [subst EXCEPT ![1] = @ ## RoundConstant(i)] ELSE last
  IN [j \in 1 .. 4 |-> w[i + 1 - Nk][j] ## tempa[j]]

KeyExpansion(key) ==
  LET first == [i \in 1 .. Nk |-> SubSeq(key, 4 * i - 3, 4 * i)]
      words == FoldLeft(LAMBDA w, i : Append(w, NextWord(w, i)), first, [i \in 1 .. 4 * Nr |-> i + Nk - 1])
  IN [r \in 0 .. Nr |-> [k \in 1 .. 16 |-> words[4 * r + Col(k) + 1][Row(k) + 1]]]

-----------------------------------------------------------------------------
(* The transformations of the state                                        *)

SubBytes(s) == [k \in 1 .. 16 |-> getSBoxValue(s[k])]
InvSubBytes(s) == [k \in 1 .. 16 |-> getSBoxInvert(s[k])]

\* Mutant of InvShiftRows: the rows are shifted the same way again.
ShiftRowsAgain(s) == [k \in 1 .. 16 |-> s[At((Col(k) + Row(k)) % 4, Row(k))]]

\* Row j is rotated by j columns.
ShiftRows(s) == [k \in 1 .. 16 |-> s[At((Col(k) + Row(k)) % 4, Row(k))]]
InvShiftRows(s) == [k \in 1 .. 16 |-> s[At((Col(k) + 4 - Row(k)) % 4, Row(k))]]

\* Mutant of xtime: the eighth bit is lost and not folded back.
xtimeUnreduced(x) == (2 * x) % 256

xtime(x) == ((2 * x) % 256) ## (IF x >= 128 THEN \h1b ELSE 0)

MixColumns(s) == [k \in 1 .. 16 |->
  LET at(j) == s[At(Col(k), j % 4)]
      Tmp == at(0) ## at(1) ## at(2) ## at(3)
  IN at(Row(k)) ## xtime(at(Row(k)) ## at(Row(k) + 1)) ## Tmp]

Multiply(x, y) ==
  LET x2 == xtime(x)  x4 == xtime(x2)  x8 == xtime(x4)  x16 == xtime(x8)
  IN (Bit(y, 0) * x) ## (Bit(y, 1) * x2) ## (Bit(y, 2) * x4) ## (Bit(y, 3) * x8) ## (Bit(y, 4) * x16)

InvMixColumns(s) == [k \in 1 .. 16 |->
  LET factor == <<\h0e, \h0b, \h0d, \h09>>
      term(j) == Multiply(s[At(Col(k), j)], factor[((j + 4 - Row(k)) % 4) + 1])
  IN term(0) ## term(1) ## term(2) ## term(3)]

-----------------------------------------------------------------------------
VARIABLES
  msg,       \* the message that is sent
  RoundKey,  \* ctx->RoundKey
  Iv,        \* ctx->Iv
  buf,       \* the blocks of the buffer, encrypted and then decrypted in place
  n,         \* the block the loop is at
  storeNextIv,   \* the local copy in AES_CBC_decrypt_buffer
  stage,     \* the next transformation
  round,     \* round, in Cipher and InvCipher
  trace      \* history: of each block, the state after each AddRoundKey of Cipher

vars == <<msg, RoundKey, Iv, buf, n, storeNextIv, stage, round, trace>>

state == buf[n]

Init ==            \* aes_init
  /\ msg \in Messages
  /\ RoundKey = KeyExpansion(msg.key) /\ Iv = msg.iv
  /\ buf = msg.text /\ n = 1 /\ round = 0
  /\ storeNextIv = [k \in 1 .. 16 |-> 0]      \* written before it is read
  /\ stage = "xor_iv"
  /\ trace = [b \in 1 .. Len(msg.text) |-> <<>>]

\* The state is transformed and the cipher goes on at label.
Transform(from, new, label) ==
  /\ stage = from /\ stage' = label
  /\ buf' = [buf EXCEPT ![n] = new]
  /\ UNCHANGED <<msg, RoundKey>>

\* AES_CBC_encrypt_buffer: XorWithIv, where Iv points to the last ciphertext.
CbcXor ==
  /\ Transform("xor_iv", XorBlocks(state, IF n = 1 THEN Iv ELSE buf[n - 1]), "add_key")
  /\ round' = 0
  /\ UNCHANGED <<Iv, n, storeNextIv, trace>>

CipherSubBytes ==
  /\ Transform("sub_bytes", SubBytes(state), "shift_rows")
  /\ UNCHANGED <<Iv, n, storeNextIv, round, trace>>

CipherShiftRows ==
  /\ Transform("shift_rows", ShiftRows(state), IF round = Nr THEN "add_key" ELSE "mix_columns")
  /\ UNCHANGED <<Iv, n, storeNextIv, round, trace>>

CipherMixColumns ==
  /\ Transform("mix_columns", MixColumns(state), "add_key")
  /\ UNCHANGED <<Iv, n, storeNextIv, round, trace>>

CipherAddRoundKey ==
  /\ LET new == XorBlocks(state, RoundKey[round])
     IN /\ Transform("add_key", new, IF round < Nr THEN "sub_bytes" ELSE "encrypted")
        /\ trace' = [trace EXCEPT ![n] = Append(@, new)]
  /\ round' = IF round < Nr THEN round + 1 ELSE round
  /\ UNCHANGED <<Iv, n, storeNextIv>>

\* The next block, or aes_cbc_encrypt sets the vector back and returns.
CbcEncrypted ==
  /\ stage = "encrypted"
  /\ IF n < Len(buf) THEN n' = n + 1 /\ stage' = "xor_iv" ELSE n' = 1 /\ stage' = "sent"
  /\ UNCHANGED <<msg, RoundKey, Iv, buf, storeNextIv, round, trace>>

-----------------------------------------------------------------------------
(* AES_CBC_decrypt_buffer and InvCipher                                    *)

BeginBlock ==      \* memcpy(storeNextIv, buf, AES_BLOCKLEN)
  /\ stage \in {"sent", "next_block"}
  /\ stage' = "inv_add_key" /\ round' = Nr
  /\ storeNextIv' = state
  /\ UNCHANGED <<msg, RoundKey, Iv, buf, n, trace>>

InvAddRoundKey ==
  /\ Transform("inv_add_key", XorBlocks(state, RoundKey[round]),
               IF round = Nr THEN "inv_shift_rows" ELSE IF round > 0 THEN "inv_mix_columns" ELSE "inv_xor_iv")
  /\ round' = IF round = Nr THEN round - 1 ELSE round
  /\ UNCHANGED <<Iv, n, storeNextIv, trace>>

CipherInvShiftRows ==
  /\ Transform("inv_shift_rows", InvShiftRows(state), "inv_sub_bytes")
  /\ UNCHANGED <<Iv, n, storeNextIv, round, trace>>

CipherInvSubBytes ==
  /\ Transform("inv_sub_bytes", InvSubBytes(state), "inv_add_key")
  /\ UNCHANGED <<Iv, n, storeNextIv, round, trace>>

CipherInvMixColumns ==
  /\ Transform("inv_mix_columns", InvMixColumns(state), "inv_shift_rows")
  /\ round' = round - 1
  /\ UNCHANGED <<Iv, n, storeNextIv, trace>>

\* Mutant of NextIv: the block is copied after it has been decrypted in place.
NextIvLate == state
NextIv == storeNextIv

CbcInvXor ==
  /\ Transform("inv_xor_iv", XorBlocks(state, Iv), IF n < Len(buf) THEN "next_block" ELSE "received")
  /\ Iv' = IF n < Len(buf) THEN NextIv ELSE msg.iv
  /\ n' = IF n < Len(buf) THEN n + 1 ELSE n
  /\ UNCHANGED <<storeNextIv, round, trace>>

Cipher == CipherSubBytes \/ CipherShiftRows \/ CipherMixColumns \/ CipherAddRoundKey
InvCipher == InvAddRoundKey \/ CipherInvShiftRows \/ CipherInvSubBytes \/ CipherInvMixColumns

Next == CbcXor \/ Cipher \/ CbcEncrypted \/ BeginBlock \/ InvCipher \/ CbcInvXor

Spec == Init /\ [][Next]_vars

-----------------------------------------------------------------------------
(* Properties                                                              *)

\* The implementation is verified against the vectors of SP 800-38A (aes.c:6-7,
\* test.c:200-211): where a message comes with its ciphertext, that is what is sent.
KnownVectors == stage = "sent" /\ msg.cipher # <<>> => buf = msg.cipher

\* Each round of InvCipher takes back one round of Cipher, byte for byte.
UndoesEachRound ==
  stage = "inv_add_key" /\ round < Nr => state = trace[n][round + 1]

\* aes_cbc_decrypt gives back what aes_cbc_encrypt was given (client main.c:139,
\* server main.c:115), and the vector is set back for the next message.
RoundTrip == stage = "received" => buf = msg.text /\ Iv = msg.iv
=============================================================================
