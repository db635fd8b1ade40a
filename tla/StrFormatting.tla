---------------------------- MODULE StrFormatting ----------------------------
(***************************************************************************)
(* split_str and free_str_array of utils/strformatting.c, over every       *)
(* string up to a length, and the uses the server makes of the result: the *)
(* reader for user|message, the login for its username and the writer for  *)
(* server|kick:user:reason.  A string is a sequence of characters, where   *)
(* Delim stands for the delimiter and the others for what is not; it ends  *)
(* where C has its NUL.  Indexes of strs count from 0, as in the code.     *)
(***************************************************************************)
EXTENDS Integers, Sequences, FiniteSets

CONSTANTS
  Chars,      \* characters that are not the delimiter
  Delim,      \* the delimiter
  MAX_LENGTH, \* bound on the length of a string
  Callers     \* which callers there are: a subset of {"read", "login", "kick"}

ASSUME DelimAssumption == Delim \notin Chars
ASSUME LengthAssumption == MAX_LENGTH \in Nat
ASSUME CallersAssumption == Callers \subseteq {"read", "login", "kick"}

Strings == UNION {[1 .. n -> Chars \cup {Delim}] : n \in 0 .. MAX_LENGTH}

VARIABLES
  caller,    \* who calls split_str
  str,       \* its argument
  pc,
  save_ptr,  \* where strtok_r goes on
  p,         \* the token strtok_r returned, <<>> for NULL
  offset,    \* of the loop that counts
  ntokens,
  i,         \* how many tokens are stored
  strs,      \* the stored tokens, strs[k + 1] for strs[k] in C
  length,    \* strarr.length
  blocks,    \* which of the blocks tmp_str and array are allocated
  copies     \* the indexes of the tokens whose copies are allocated

vars == <<caller, str, pc, save_ptr, p, offset, ntokens, i, strs, length, blocks, copies>>

-----------------------------------------------------------------------------
Least(S) == CHOOSE n \in S : \A m \in S : n <= m

\* Mutant of TokenBegin: delimiters are not skipped.
TokenBeginUnskipped(n) == n

\* strtok_r(_, delimiter, &save_ptr) from position n: skip delimiters, and take
\* what precedes the next one.
TokenBegin(n) == Least({m \in n .. Len(str) : str[m] # Delim} \cup {Len(str) + 1})
TokenEnd(n) == Least({m \in TokenBegin(n) .. Len(str) : str[m] = Delim} \cup {Len(str) + 1})
strtok_r(n) ==
  /\ p' = SubSeq(str, TokenBegin(n), TokenEnd(n) - 1)
  /\ save_ptr' = TokenEnd(n) + 1

Init ==
  /\ caller \in Callers
  /\ str \in Strings
  /\ caller = "kick" =>     \* the test of the prefix server|kick: (main.c:170)
       Len(str) > 2 /\ str[1] # Delim /\ str[2] = Delim
  /\ pc = "start"
  /\ save_ptr = 1 /\ p = <<>>
  /\ offset = 0 /\ ntokens = 1
  /\ i = 0 /\ strs = <<>>
  /\ length = -1
  /\ blocks = {} /\ copies = {}

-----------------------------------------------------------------------------
(* split_str *)

Empty ==              \* if (str[0] == NULL) return
  /\ pc = "start" /\ str = <<>>
  /\ pc' = "returned"
  /\ UNCHANGED <<caller, str, save_ptr, p, offset, ntokens, i, strs, length, blocks, copies>>

Begin ==              \* copy into tmp_str and take the first token
  /\ pc = "start" /\ str # <<>>
  /\ blocks' = {"tmp_str"}
  /\ strtok_r(1)
  /\ pc' = "count"
  /\ UNCHANGED <<caller, str, offset, ntokens, i, strs, length, copies>>

\* Mutant of CountDelimiter: offset is not incremented.
CountDelimiterStuck ==
  /\ pc = "count" /\ offset < Len(str)
  /\ ntokens' = IF str[offset + 1] = Delim THEN ntokens + 1 ELSE ntokens
  /\ UNCHANGED <<caller, str, pc, save_ptr, p, offset, i, strs, length, blocks, copies>>

\* Mutant of CountDelimiter: the loop starts too late.
CountDelimiterLate ==
  /\ pc = "count" /\ offset < Len(str)
  /\ ntokens' = IF str[offset + 1] = Delim /\ offset > 1 THEN ntokens + 1 ELSE ntokens
  /\ offset' = offset + 1
  /\ UNCHANGED <<caller, str, pc, save_ptr, p, i, strs, length, blocks, copies>>

CountDelimiter ==
  /\ pc = "count" /\ offset < Len(str)
  /\ ntokens' = IF str[offset + 1] = Delim THEN ntokens + 1 ELSE ntokens
  /\ offset' = offset + 1
  /\ UNCHANGED <<caller, str, pc, save_ptr, p, i, strs, length, blocks, copies>>

Allocate ==           \* malloc(sizeof(char*) * ntokens)
  /\ pc = "count" /\ offset = Len(str)
  /\ blocks' = blocks \cup {"array"}
  /\ pc' = "store"
  /\ UNCHANGED <<caller, str, save_ptr, p, offset, ntokens, i, strs, length, copies>>

Store ==              \* array[i] = a copy of p, i++, and the next token
  /\ pc = "store" /\ p # <<>>
  /\ strs' = Append(strs, p)
  /\ copies' = copies \cup {i}
  /\ i' = i + 1
  /\ strtok_r(save_ptr)
  /\ UNCHANGED <<caller, str, pc, offset, ntokens, length, blocks>>

Return ==
  /\ pc = "store" /\ p = <<>>
  /\ length' = ntokens
  /\ blocks' = blocks \ {"tmp_str"}
  /\ pc' = "returned"
  /\ UNCHANGED <<caller, str, save_ptr, p, offset, ntokens, i, strs, copies>>

split_str == Empty \/ Begin \/ CountDelimiter \/ Allocate \/ Store \/ Return

-----------------------------------------------------------------------------
(* The callers *)

is_str_array_empty == length <= 0

\* Mutant of Rejected: the reader takes any string too.
RejectedOnlyEmpty == is_str_array_empty

\* message_formatted.length < 2 is badly formatted; the others want any string.
Rejected == IF caller = "read" THEN length < 2 ELSE is_str_array_empty

\* The elements of strs that the caller then reads.
Reads == CASE caller = "read" -> {0, 1} [] caller = "login" -> {0} [] caller = "kick" -> {1, 2}

Reject ==
  /\ pc = "returned" /\ Rejected
  /\ pc' = "free"
  /\ UNCHANGED <<caller, str, save_ptr, p, offset, ntokens, i, strs, length, blocks, copies>>

Use ==
  /\ pc = "returned" /\ ~Rejected
  /\ pc' = "used"
  /\ UNCHANGED <<caller, str, save_ptr, p, offset, ntokens, i, strs, length, blocks, copies>>

Used ==
  /\ pc = "used"
  /\ pc' = "free"
  /\ UNCHANGED <<caller, str, save_ptr, p, offset, ntokens, i, strs, length, blocks, copies>>

\* length is -1 when the loop over 0 .. length - 1 begins, so that the elements
\* stay allocated.
free_str_array ==
  /\ pc = "free"
  /\ IF is_str_array_empty
       THEN UNCHANGED <<length, blocks, copies>>
       ELSE /\ length' = -1
            /\ copies' = copies \ (0 .. length' - 1)
            /\ blocks' = blocks \ {"array"}
  /\ pc' = "done"
  /\ UNCHANGED <<caller, str, save_ptr, p, offset, ntokens, i, strs>>

Next == split_str \/ Reject \/ Use \/ Used \/ free_str_array

Spec == Init /\ [][Next]_vars
FairSpec == Spec /\ WF_vars(Next)

-----------------------------------------------------------------------------
\* The array was allocated for as many tokens as there are delimiters, and one;
\* there is always room for the next (strformatting.c:39-45).
ArrayFits == pc = "store" /\ p # <<>> => i < ntokens

\* The tokens by definition: the longest runs without the delimiter, in order.
Begins(s) == {n \in 1 .. Len(s) : s[n] # Delim /\ (n = 1 \/ s[n - 1] = Delim)}
Before(s, m) == {b \in Begins(s) : b < m}
IsToken(s, t, k) == \E b \in Begins(s), e \in 1 .. Len(s) :
  /\ Cardinality(Before(s, b)) = k - 1
  /\ b <= e /\ (e = Len(s) \/ s[e + 1] = Delim)
  /\ \A n \in b .. e : s[n] # Delim
  /\ t = SubSeq(s, b, e)

\* What split_str stores is the tokens of the string, all of them and in order.
SplitsIntoTokens == pc = "returned" =>
  i = Cardinality(Begins(str)) /\ \A k \in 1 .. i : IsToken(str, strs[k], k)

\* split_str and its caller come to an end on every string.
SplitReturns == <>(pc = "done")

\* A string with a token before its first delimiter, after its last and between
\* any two of them.
Regular == str # <<>> /\ \A n \in 0 .. Len(str) :
  ~(n = 0 \/ str[n] = Delim) \/ ~(n = Len(str) \/ str[n + 1] = Delim)

\* What the callers read of strs was stored there, on every regular string and in
\* particular whichever number of tokens it has (main.c:119, 128 and 277); a kick
\* is not rejected for want of a reason, and then reads past the array (main.c:187).
ReadsStored == pc = "used" /\ Regular /\ (caller = "kick" => ntokens > 2)
  => \A k \in Reads : k < i
=============================================================================
