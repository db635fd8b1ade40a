--------------------------------- MODULE Uthash --------------------------------
(***************************************************************************)
(* The hash table behind clients_table, uthash.h, as the server uses it:   *)
(* HASH_ADD_STR and HASH_DEL by one thread, HASH_FIND_STR by another, with *)
(* no lock between them.  Every element carries its own links: prev and    *)
(* next in the order of insertion, hh_prev and hh_next within a bucket.    *)
(* A step of the updating thread ends where it writes what a lookup reads. *)
(* Two updates at a time are not modelled here (UserHandler: hash_torn).   *)
(* An element is a client_handle under one username.  The memory of one    *)
(* that was freed may be given to another, of any bucket, while a lookup   *)
(* still stands on it.                                                     *)
(***************************************************************************)
EXTENDS Integers, FiniteSets

CONSTANTS
  Elements,                   \* the client_handles that can be added
  Key,                        \* the username each is added under
  Block,                      \* the memory each occupies while it is allocated
  Hash,                       \* HASH_VALUE of each username
  HASH_INITIAL_NUM_BUCKETS,   \* 32 in uthash.h
  HASH_BKT_CAPACITY_THRESH,   \* 10 in uthash.h
  MAX_BUCKETS,                \* bound: nothing is added to a larger table
  NULL,
  Wild                        \* a lookup has followed a null, freed or unset pointer

VARIABLES
  head,        \* clients_table: the first element, or NULL
  tbl,         \* the UT_hash_table, or NoTable
  prev, next, hh_prev, hh_next,    \* the UT_hash_handle of each element
  entries,     \* the elements whose addition has ended and whose deletion has not
  upc, elem,   \* the step and the element of the updating thread
  grow,        \* the locals of HASH_EXPAND_BUCKETS
  fpc, sought, bkt, out,           \* the step and the locals of the lookup
  answers, present, rethreaded, stranded,    \* history of the lookup: see Observe
  result       \* what the last lookup has returned

list == <<head, prev, next>>
table == <<head, tbl, prev, next, hh_prev, hh_next>>
updater == <<entries, upc, elem, grow>>
lookup == <<fpc, sought, bkt, out>>
history == <<answers, present, rethreaded, stranded>>
vars == <<table, updater, lookup, history, result>>

ASSUME KeyAssumption ==
  /\ IsFiniteSet(Elements) /\ Elements \subseteq DOMAIN Key
  /\ \A e \in Elements : Key[e] # NULL /\ Hash[Key[e]] \in Nat

ASSUME AnswerAssumption == NULL \notin Elements /\ Wild \notin Elements /\ NULL # Wild

ASSUME BucketAssumption ==
  /\ HASH_INITIAL_NUM_BUCKETS \in {1, 2, 4, 8, 16, 32, 64}
  /\ HASH_BKT_CAPACITY_THRESH \in Nat \ {0}

hashv(e) == Hash[Key[e]]

HASH_TO_BKT(h, num_bkts) == h % num_bkts     \* num_bkts is a power of two

\* uthash_malloc and uthash_bzero of an array of buckets.
EmptyBuckets(n) == [b \in 0 .. n - 1 |-> [hh_head |-> NULL, count |-> 0, expand_mult |-> 0]]

\* The table before the first element is added and after the last is deleted.
NoTable ==
  [buckets |-> <<>>, num_buckets |-> 0, num_items |-> 0, tail |-> NULL,
   ideal_chain_maxlen |-> 0, nonideal_items |-> 0, ineff_expands |-> 0, noexpand |-> FALSE]

NoGrowth == [bkt |-> 0, thh |-> NULL, buckets |-> <<>>]

-----------------------------------------------------------------------------
(* History: what the lookup in progress may answer.                        *)

AtElement == fpc \in {"compare", "follow"}

Moving == IF upc \in {"idle", "close"} THEN NULL ELSE elem
Abstract == INSTANCE NameTable WITH moving <- Moving

\* Every update step: which answers have become possible, which entries with
\* the sought key have been there all along, whether chains are re-threaded,
\* whether the block that the lookup stands on is freed.
Observe ==
  /\ answers' = IF sought = NULL THEN {} ELSE answers \cup Abstract!Answers(sought, entries', Moving')
  /\ present' = (present \cap entries') \ {Moving'}
  /\ rethreaded' = (rethreaded \/ (sought # NULL /\ upc' \in {"rethread", "free", "swap"}))
  /\ stranded' = (stranded \/ (upc = "close" /\ AtElement /\ out = elem))
  /\ UNCHANGED <<lookup, result>>

-----------------------------------------------------------------------------
(* HASH_ADD_STR(clients_table, account.username, e)                        *)

HASH_MAKE_TABLE(e) ==
  tbl' = [buckets |-> EmptyBuckets(HASH_INITIAL_NUM_BUCKETS),
          num_buckets |-> HASH_INITIAL_NUM_BUCKETS, num_items |-> 0, tail |-> e,
          ideal_chain_maxlen |-> 0, nonideal_items |-> 0, ineff_expands |-> 0, noexpand |-> FALSE]

HASH_APPEND_LIST(e) ==
  /\ next' = [next EXCEPT ![e] = NULL, ![tbl.tail] = e]
  /\ prev' = [prev EXCEPT ![e] = tbl.tail]
  /\ tbl' = [tbl EXCEPT !.tail = e]

AddElement(e) ==
  /\ upc = "idle" /\ \A d \in entries : Block[d] # Block[e]
  /\ tbl.num_buckets < MAX_BUCKETS \/ tbl.noexpand
  /\ upc' = "add_to_bkt" /\ elem' = e
  /\ IF head = NULL
       THEN /\ HASH_MAKE_TABLE(e)
            /\ head' = e
            /\ next' = [next EXCEPT ![e] = NULL] /\ prev' = [prev EXCEPT ![e] = NULL]
       ELSE HASH_APPEND_LIST(e) /\ UNCHANGED head
  /\ UNCHANGED <<hh_prev, hh_next, entries, grow>>
  /\ Observe

ElemBkt == HASH_TO_BKT(hashv(elem), tbl.num_buckets)

\* HASH_ADD_TO_TABLE and HASH_ADD_TO_BKT up to the bucket's head.
AddToBkt ==
  /\ upc = "add_to_bkt"
  /\ upc' = "link"
  /\ LET first == tbl.buckets[ElemBkt].hh_head
     IN /\ tbl' = [tbl EXCEPT !.num_items = @ + 1, !.buckets[ElemBkt].count = @ + 1]
        /\ hh_next' = [hh_next EXCEPT ![elem] = first]
        /\ hh_prev' = [a \in Elements |->
             IF a = elem THEN NULL ELSE IF a = first THEN elem ELSE hh_prev[a]]
  /\ UNCHANGED <<list, entries, elem, grow>>
  /\ Observe

\* The update is over: e is, or is no more, an entry.
UpdateEnds(label, to) ==
  /\ upc' = label
  /\ entries' = to
  /\ elem' = IF label = "idle" THEN NULL ELSE elem
  /\ grow' = NoGrowth

MustExpand(b) == b.count >= (b.expand_mult + 1) * HASH_BKT_CAPACITY_THRESH /\ ~tbl.noexpand

\* _ha_head->hh_head = addhh and the test for an expansion.
Link ==
  /\ upc = "link"
  /\ tbl' = [tbl EXCEPT !.buckets[ElemBkt].hh_head = elem]
  /\ IF MustExpand(tbl.buckets[ElemBkt])
       THEN upc' = "expand" /\ UNCHANGED <<entries, elem, grow>>
       ELSE UpdateEnds("idle", entries \cup {elem})
  /\ UNCHANGED <<list, hh_prev, hh_next>>
  /\ Observe

-----------------------------------------------------------------------------
(* HASH_EXPAND_BUCKETS                                                     *)

\* The first bucket from b on that holds a handle, or the end of the array.
NextBkt(b) ==
  CHOOSE c \in b .. tbl.num_buckets :
    /\ c < tbl.num_buckets => tbl.buckets[c].hh_head # NULL
    /\ \A d \in b .. c - 1 : tbl.buckets[d].hh_head = NULL

\* The loops go on with handle thh of bucket b, or with the next bucket.
GoOn(b, thh, buckets) ==
  LET c == IF thh # NULL THEN b ELSE NextBkt(b)
  IN IF c = tbl.num_buckets
       THEN upc' = "free" /\ grow' = [bkt |-> 0, thh |-> NULL, buckets |-> buckets]
       ELSE /\ upc' = "rethread"
            /\ grow' = [bkt |-> c, thh |-> IF thh # NULL THEN thh ELSE tbl.buckets[c].hh_head,
                        buckets |-> buckets]

Expand ==
  /\ upc = "expand"
  /\ LET wider == tbl.num_buckets * 2
     IN /\ tbl' = [tbl EXCEPT !.ideal_chain_maxlen = (tbl.num_items + wider - 1) \div wider,
                              !.nonideal_items = 0]
        /\ GoOn(0, NULL, EmptyBuckets(wider))
  /\ UNCHANGED <<list, hh_prev, hh_next, entries, elem>>
  /\ Observe

\* Mutant of Grown: the multiplier of an overused bucket stays what it was.
GrownUnweighted(b) == [b EXCEPT !.count = @ + 1, !.hh_head = grow.thh]

\* A new bucket with one more handle.
Grown(b) ==
  LET n == b.count + 1
      over == n > tbl.ideal_chain_maxlen /\ n > b.expand_mult * tbl.ideal_chain_maxlen
  IN [hh_head |-> grow.thh, count |-> n, expand_mult |-> IF over THEN b.expand_mult + 1 ELSE b.expand_mult]

\* One handle is moved to the front of its new chain.
Rethread ==
  /\ upc = "rethread"
  /\ LET thh == grow.thh
         nb == HASH_TO_BKT(hashv(thh), tbl.num_buckets * 2)
         to == grow.buckets[nb]
     IN /\ hh_prev' = [a \in Elements |->
             IF a = thh THEN NULL ELSE IF a = to.hh_head THEN thh ELSE hh_prev[a]]
        /\ hh_next' = [hh_next EXCEPT ![thh] = to.hh_head]
        /\ tbl' = [tbl EXCEPT !.nonideal_items = IF to.count + 1 > tbl.ideal_chain_maxlen THEN @ + 1 ELSE @]
        /\ GoOn(IF hh_next[thh] = NULL THEN grow.bkt + 1 ELSE grow.bkt, hh_next[thh],
                [grow.buckets EXCEPT ![nb] = Grown(to)])
  /\ UNCHANGED <<list, entries, elem>>
  /\ Observe

\* uthash_free of the old buckets, num_buckets *= 2.
FreeBuckets ==
  /\ upc = "free"
  /\ upc' = "swap"
  /\ tbl' = [tbl EXCEPT !.buckets = <<>>, !.num_buckets = 2 * @]
  /\ UNCHANGED <<list, hh_prev, hh_next, entries, elem, grow>>
  /\ Observe

SwapBuckets ==
  /\ upc = "swap"
  /\ LET ineff == IF tbl.nonideal_items > tbl.num_items \div 2 THEN tbl.ineff_expands + 1 ELSE 0
     IN tbl' = [tbl EXCEPT !.buckets = grow.buckets, !.ineff_expands = ineff,
                           !.noexpand = @ \/ ineff > 1]
  /\ UpdateEnds("idle", entries \cup {elem})
  /\ UNCHANGED <<list, hh_prev, hh_next>>
  /\ Observe

-----------------------------------------------------------------------------
(* HASH_DEL(clients_table, e), and the caller's free of the block          *)

\* Mutant of TailAfter: the tail stays when the last element goes.
TailUnmoved(e) == tbl.tail
\* Mutant of TailAfter: the wrong neighbour becomes the tail.
TailAfterNext(e) == IF tbl.tail = e THEN next[e] ELSE tbl.tail

TailAfter(e) == IF tbl.tail = e THEN prev[e] ELSE tbl.tail

\* HASH_DELETE_HH of one element among others: the order of insertion.
UnlinkElement(e) ==
  /\ upc = "idle" /\ e \in entries
  /\ prev[e] # NULL \/ next[e] # NULL
  /\ upc' = "del_in_bkt" /\ elem' = e
  /\ tbl' = [tbl EXCEPT !.tail = TailAfter(e)]
  /\ head' = IF prev[e] = NULL THEN next[e] ELSE head
  /\ next' = [a \in Elements |-> IF a = prev[e] THEN next[e] ELSE next[a]]
  /\ prev' = [a \in Elements |-> IF a = next[e] THEN prev[e] ELSE prev[a]]
  /\ UNCHANGED <<hh_prev, hh_next, entries, grow>>
  /\ Observe

\* Mutant of Bypass: the deleted element forgets its own successor.
BypassAndClear(e) == [a \in Elements |->
  IF a = e THEN NULL ELSE IF a = hh_prev[e] THEN hh_next[e] ELSE hh_next[a]]

\* (delhh)->hh_prev->hh_next = (delhh)->hh_next; the deleted element keeps its links.
Bypass(e) == [a \in Elements |-> IF a = hh_prev[e] THEN hh_next[e] ELSE hh_next[a]]

\* HASH_DEL_IN_BKT and num_items--.
DelInBkt ==
  /\ upc = "del_in_bkt"
  /\ tbl' = [tbl EXCEPT !.num_items = @ - 1,
                        !.buckets[ElemBkt].count = @ - 1,
                        !.buckets[ElemBkt].hh_head = IF @ = elem THEN hh_next[elem] ELSE @]
  /\ hh_next' = Bypass(elem)
  /\ hh_prev' = [a \in Elements |-> IF a = hh_next[elem] THEN hh_prev[elem] ELSE hh_prev[a]]
  /\ UpdateEnds("close", entries \ {elem})
  /\ UNCHANGED list
  /\ Observe

\* HASH_DELETE_HH of the only element: the table is freed, then head = NULL.
FreeTable(e) ==
  /\ upc = "idle" /\ e \in entries
  /\ prev[e] = NULL /\ next[e] = NULL
  /\ upc' = "clear_head" /\ elem' = e
  /\ tbl' = NoTable
  /\ UNCHANGED <<list, hh_prev, hh_next, entries, grow>>
  /\ Observe

ClearHead ==
  /\ upc = "clear_head"
  /\ head' = NULL
  /\ UpdateEnds("close", entries \ {elem})
  /\ UNCHANGED <<tbl, prev, next, hh_prev, hh_next>>
  /\ Observe

\* close_client: the block is freed, and what its fields held is gone.
Close ==
  /\ upc = "close"
  /\ prev' = [prev EXCEPT ![elem] = NULL] /\ next' = [next EXCEPT ![elem] = NULL]
  /\ hh_prev' = [hh_prev EXCEPT ![elem] = NULL] /\ hh_next' = [hh_next EXCEPT ![elem] = NULL]
  /\ UpdateEnds("idle", entries)
  /\ UNCHANGED <<head, tbl>>
  /\ Observe

Update ==
  \/ \E e \in Elements : AddElement(e) \/ UnlinkElement(e) \/ FreeTable(e)
  \/ AddToBkt \/ Link \/ Expand \/ Rethread \/ FreeBuckets \/ SwapBuckets
  \/ DelInBkt \/ ClearHead \/ Close

-----------------------------------------------------------------------------
(* HASH_FIND_STR(clients_table, k, out)                                    *)

Move(label) == fpc' = label /\ UNCHANGED <<table, updater, sought, history, result>>

Return(r) ==
  /\ result' = r
  /\ fpc' = "idle" /\ sought' = NULL /\ bkt' = 0 /\ out' = NULL
  /\ answers' = {} /\ present' = {} /\ rethreaded' = FALSE /\ stranded' = FALSE
  /\ UNCHANGED <<table, updater>>

FindBegin(k) ==
  /\ fpc = "idle"
  /\ fpc' = "find" /\ sought' = k
  /\ answers' = Abstract!Answers(k, entries, Moving)
  /\ present' = {e \in entries \ {Moving} : Key[e] = k}
  /\ rethreaded' = (upc \in {"rethread", "free", "swap"})
  /\ UNCHANGED <<table, updater, bkt, out, stranded, result>>

\* if (head), in HASH_FIND and again in HASH_FIND_BYHASHVALUE.
FindTests ==
  \/ /\ fpc \in {"find", "byhash"} /\ head = NULL
     /\ Return(NULL)
  \/ /\ fpc \in {"find", "byhash"} /\ head # NULL
     /\ Move(IF fpc = "find" THEN "byhash" ELSE "to_bkt")
     /\ UNCHANGED <<bkt, out>>

\* (head)->hh.tbl can be followed; so can its bucket bkt.
TableThere == head # NULL /\ tbl # NoTable
BucketThere == TableThere /\ bkt \in DOMAIN tbl.buckets

FindBkt ==
  /\ fpc = "to_bkt"
  /\ \/ TableThere /\ Move("test_head") /\ bkt' = HASH_TO_BKT(Hash[sought], tbl.num_buckets) /\ UNCHANGED out
     \/ ~TableThere /\ Return(Wild)

\* The two evaluations of (head).hh_head in HASH_FIND_IN_BKT.
FindTestsHead ==
  /\ fpc = "test_head"
  /\ \/ ~BucketThere /\ Return(Wild)
     \/ BucketThere /\ tbl.buckets[bkt].hh_head = NULL /\ Return(NULL)
     \/ BucketThere /\ tbl.buckets[bkt].hh_head # NULL /\ Move("take_head") /\ UNCHANGED <<bkt, out>>

FindTakesHead ==
  /\ fpc = "take_head"
  /\ \/ /\ BucketThere /\ tbl.buckets[bkt].hh_head # NULL
        /\ Move("compare") /\ out' = tbl.buckets[bkt].hh_head /\ UNCHANGED bkt
     \/ ~(BucketThere /\ tbl.buckets[bkt].hh_head # NULL) /\ Return(Wild)

\* The block of e is allocated and its hash handle has been written.
Readable(e) == e \in entries \/ (e = elem /\ upc \notin {"idle", "add_to_bkt"})

\* What the memory that out points to holds now: out itself, or, when out has
\* been freed, whichever element has been linked there since.
There == {e \in Elements : Readable(e) /\ Block[e] = Block[out]}

\* Mutant of Matches: a key is taken for the one sought when the hashes agree.
MatchesByHash(e) == hashv(e) = Hash[sought]

Matches(e) == Key[e] = sought

\* Freed memory holds any link: a stale one, to wherever it led, or garbage.
LeftLink == \E e \in Elements : Move("compare") /\ out' = e /\ UNCHANGED bkt

FindCompares ==
  /\ fpc = "compare"
  /\ \/ There = {} /\ (Return(NULL) \/ Return(Wild) \/ LeftLink)
     \/ \E e \in There :
          \/ Matches(e) /\ Return(e)
          \/ ~Matches(e) /\ hh_next[e] = NULL /\ Return(NULL)
          \/ ~Matches(e) /\ hh_next[e] # NULL /\ Move("follow") /\ UNCHANGED <<bkt, out>>

\* The second evaluation of (out)->hh.hh_next.
FindFollows ==
  /\ fpc = "follow"
  /\ \/ There = {} /\ (Return(Wild) \/ LeftLink)
     \/ \E e \in There :
          \/ hh_next[e] # NULL /\ Move("compare") /\ out' = hh_next[e] /\ UNCHANGED bkt
          \/ hh_next[e] = NULL /\ Return(Wild)

Find ==
  \/ \E e \in Elements : FindBegin(Key[e])
  \/ FindTests \/ FindBkt \/ FindTestsHead \/ FindTakesHead \/ FindCompares \/ FindFollows

-----------------------------------------------------------------------------
Init ==
  /\ head = NULL /\ tbl = NoTable
  /\ prev = [e \in Elements |-> NULL] /\ next = [e \in Elements |-> NULL]
  /\ hh_prev = [e \in Elements |-> NULL] /\ hh_next = [e \in Elements |-> NULL]
  /\ entries = {} /\ upc = "idle" /\ elem = NULL /\ grow = NoGrowth
  /\ fpc = "idle" /\ sought = NULL /\ bkt = 0 /\ out = NULL
  /\ answers = {} /\ present = {} /\ rethreaded = FALSE /\ stranded = FALSE /\ result = NULL

Next == Update \/ Find

Spec == Init /\ [][Next]_vars

-----------------------------------------------------------------------------
(* Properties                                                              *)

Links == Elements \cup {NULL}
Upto == 0 .. Cardinality(Elements)
Buckets(n) == [0 .. n - 1 -> [hh_head : Links, count : Upto, expand_mult : Upto]]

\* The steps of an addition, those that build new chains, those of a lookup.
Building == {"rethread", "free", "swap"}
Adding == {"add_to_bkt", "link", "expand"} \cup Building
Finding == {"find", "byhash", "to_bkt", "test_head", "take_head", "compare", "follow"}

\* The number of buckets of the new array.
NewSize == IF upc = "swap" THEN tbl.num_buckets ELSE tbl.num_buckets * 2

\* Every link is null or an element and the table has the shape of UT_hash_table.
TypeOK ==
  /\ {head, elem, out, grow.thh} \subseteq Links
  /\ {prev, next, hh_prev, hh_next} \subseteq [Elements -> Links]
  /\ tbl \in [buckets : IF upc = "swap" THEN {<<>>} ELSE Buckets(tbl.num_buckets),
              num_buckets : Nat, num_items : Upto, tail : Links, ideal_chain_maxlen : Nat,
              nonideal_items : Upto, ineff_expands : 0 .. 2, noexpand : BOOLEAN]
  /\ upc \in {"idle", "del_in_bkt", "clear_head", "close"} \cup Adding
  /\ grow \in [bkt : Nat, thh : Links, buckets : IF upc \in Building THEN Buckets(NewSize) ELSE {<<>>}]
  /\ entries \subseteq Elements /\ present \subseteq entries /\ rethreaded \in BOOLEAN /\ stranded \in BOOLEAN
  /\ fpc \in {"idle"} \cup Finding /\ bkt \in Nat

\* The elements met from first along link: a cycle shows as too many of them.
Walk(first, link) ==
  LET at[n \in 0 .. Cardinality(Elements)] ==
        IF n = 0 THEN first ELSE IF at[n - 1] = NULL THEN NULL ELSE link[at[n - 1]]
  IN at
Met(first, link) == {n \in 0 .. Cardinality(Elements) : Walk(first, link)[n] # NULL}
BackLinked(first, link, back) ==
  \A n \in Met(first, link) :
    back[Walk(first, link)[n]] = IF n = 0 THEN NULL ELSE Walk(first, link)[n - 1]

\* HASH_FSCK, the check that uthash makes of itself when HASH_DEBUG is
\* defined: chains and list are linked both ways and as long as is recorded.
HASH_FSCK ==
  head # NULL =>
    LET chain(b) == Met(tbl.buckets[b].hh_head, hh_next)
        all == UNION {{b} \X chain(b) : b \in 0 .. tbl.num_buckets - 1}
    IN /\ \A b \in 0 .. tbl.num_buckets - 1 :
            /\ BackLinked(tbl.buckets[b].hh_head, hh_next, hh_prev)
            /\ tbl.buckets[b].count = Cardinality(chain(b))
       /\ Cardinality(all) = tbl.num_items
       /\ BackLinked(head, next, prev)
       /\ Cardinality(Met(head, next)) = tbl.num_items

\* After every HASH_ADD_STR and HASH_DEL the check of uthash finds nothing
\* wrong (uthash.h:417, 479), and the elements of the table are those that
\* have been added and not deleted.
Integrity ==
  upc \in {"idle", "close"} =>
    /\ HASH_FSCK
    /\ entries = {Walk(head, next)[n] : n \in Met(head, next)}

\* The comment before HASH_EXPAND_BUCKETS (uthash.h:813-816): chains are bounded.
\* Until expanding is given up, no chain is longer than the multiple of the
\* capacity, or of the ideal length at the last expansion, that its bucket is allowed.
ChainsBounded ==
  upc = "idle" /\ ~tbl.noexpand =>
    \A b \in DOMAIN tbl.buckets : \E limit \in {HASH_BKT_CAPACITY_THRESH, tbl.ideal_chain_maxlen} :
      tbl.buckets[b].count <= (tbl.buckets[b].expand_mult + 1) * limit

\* A lookup beside updates answers that nobody has a name, while an entry has
\* it all along, only if chains were re-threaded meanwhile, or if the block it
\* stood on was freed (main.c:131, 183, 308 beside user_handler.c:27, 91).
MissesExplained ==
  [][fpc # "idle" /\ fpc' = "idle" /\ result' = NULL /\ present # {} => rethreaded \/ stranded]_vars

\* Each lookup returns what the registry could have given at some instant of
\* it: this is the abstraction of uthash on which UserHandler is built.
NameTableSpec == Abstract!Spec

-----------------------------------------------------------------------------
(* What makes these inductive                                              *)

\* The elements of the list and those of the chains, by the step of the update.
Linked ==
  CASE upc \in Adding -> entries \cup {elem} [] upc = "del_in_bkt" -> entries \ {elem} [] OTHER -> entries
Chained == IF upc \in Adding \ {"add_to_bkt"} THEN entries \cup {elem} ELSE entries

\* From first along link every element of S is met, once, and nothing else.
Chain(S, first, link) ==
  /\ IF S = {} THEN first = NULL ELSE first \in S
  /\ \A e \in S : link[e] \in (S \ {first}) \cup {NULL}
  /\ \A d, e \in S : link[d] = link[e] /\ link[d] # NULL => d = e
  /\ \A T \in SUBSET S : first \in T /\ (\A e \in T : link[e] \in T \cup {NULL}) => T = S
Back(S, first, link, back) ==
  \A e \in S : IF e = first THEN back[e] = NULL ELSE back[e] \in S /\ link[back[e]] = e

\* Who is being added or deleted.
ControlInv ==
  /\ elem = NULL <=> upc = "idle"
  /\ upc \in Adding \cup {"close"} => elem \notin entries
  /\ upc = "del_in_bkt" => elem \in entries /\ entries # {elem}
  /\ upc = "clear_head" => entries = {elem} /\ hh_next[elem] = NULL

ListInv ==
  /\ Chain(Linked, head, next) /\ Back(Linked, head, next, prev)
  /\ tbl = NoTable <=> Linked = {} \/ upc = "clear_head"
  /\ tbl # NoTable => /\ tbl.num_buckets > 0 /\ tbl.num_items = Cardinality(Chained)
                      /\ tbl.tail \in Linked /\ next[tbl.tail] = NULL

\* The elements of S in bucket b of n, and the chain of these elements.
Part(S, n, b) == {e \in S : HASH_TO_BKT(hashv(e), n) = b}
BucketOK(S, first, count) ==
  /\ Chain(S, first, hh_next) /\ Back(S, first, hh_next, hh_prev)
  /\ count = Cardinality(S)

\* The first handle of bucket b, the one that is about to be stored included.
FirstIn(b) == IF upc = "link" /\ b = ElemBkt THEN elem ELSE tbl.buckets[b].hh_head

SameBkt(d, e) == HASH_TO_BKT(hashv(d), tbl.num_buckets) = HASH_TO_BKT(hashv(e), tbl.num_buckets)

ChainsInv ==
  /\ tbl # NoTable /\ upc \notin Building =>
       \A b \in 0 .. tbl.num_buckets - 1 :
         BucketOK(Part(Chained, tbl.num_buckets, b), FirstIn(b), tbl.buckets[b].count)
  /\ upc = "link" => hh_next[elem] = tbl.buckets[ElemBkt].hh_head
  /\ \A e \in Elements :
       \/ hh_next[e] = NULL
       \/ /\ hh_next[e] \in Chained
          /\ e \in Chained \/ (upc = "close" /\ e = elem /\ SameBkt(hh_next[e], e))

\* The handles of M are in their new chains, the others in what is left of the old.
Halfway(M) ==
  /\ \A b \in 0 .. NewSize - 1 :
       BucketOK(Part(M, NewSize, b), grow.buckets[b].hh_head, grow.buckets[b].count)
  /\ \A b \in 0 .. tbl.num_buckets - 1 :
       LET left == Part(Chained \ M, tbl.num_buckets, b)
       IN IF b < grow.bkt
            THEN left = {}
            ELSE Chain(left, IF b = grow.bkt THEN grow.thh ELSE tbl.buckets[b].hh_head, hh_next)
  /\ grow.bkt < tbl.num_buckets /\ grow.thh # NULL
  /\ tbl.nonideal_items <= Cardinality(M)

RebuildInv ==
  /\ upc = "rethread" => \E M \in SUBSET Chained : Halfway(M)
  /\ upc \in {"free", "swap"} =>
       \A b \in 0 .. NewSize - 1 :
         BucketOK(Part(Chained, NewSize, b), grow.buckets[b].hh_head, grow.buckets[b].count)

WithinLimit(b, limit) == b.count <= (b.expand_mult + 1) * limit

BoundInv ==
  /\ ~tbl.noexpand => tbl.ineff_expands <= 1
  /\ upc \in Building \cup {"expand"} => ~tbl.noexpand
  /\ ~tbl.noexpand /\ upc \notin Building \cup {"expand"} =>
       \A b \in 0 .. tbl.num_buckets - 1 :
         \/ upc = "link" /\ b = ElemBkt
         \/ \E limit \in {HASH_BKT_CAPACITY_THRESH, tbl.ideal_chain_maxlen} : WithinLimit(tbl.buckets[b], limit)
  /\ upc \in Building =>
       /\ tbl.ideal_chain_maxlen > 0
       /\ \A b \in 0 .. NewSize - 1 :
            /\ WithinLimit(grow.buckets[b], tbl.ideal_chain_maxlen)
            /\ grow.buckets[b].expand_mult <= grow.buckets[b].count

\* What the structure of the table rests on.
TableInv == TypeOK /\ ControlInv /\ ListInv /\ ChainsInv /\ RebuildInv /\ BoundInv

-----------------------------------------------------------------------------
(* Where a lookup is                                                       *)

\* Every set that goes with each of its elements to the next holds p if it holds e.
Reaches(e, p) ==
  \A T \in SUBSET Elements :
    e \in T /\ (\A d \in T : hh_next[d] \in T \cup {NULL}) => p \in T

InBucket == fpc \in {"test_head", "take_head", "compare", "follow"}
\* No two elements of the table have the same memory.
BlocksInv == \A d, e \in (entries \cup {elem}) \ {NULL} : Block[d] = Block[e] => d = e

LookupInv ==
  /\ fpc = "idle" <=> sought = NULL
  /\ sought # NULL => sought \in {Key[e] : e \in Elements}
  /\ present \subseteq {e \in entries : Key[e] = sought /\ e # Moving}
  /\ upc \in Building /\ sought # NULL => rethreaded
  /\ AtElement => out \in Elements
  /\ stranded => AtElement
  /\ ~rethreaded /\ ~stranded =>
       /\ AtElement => Readable(out)
       /\ fpc = "follow" => Key[out] # sought

\* Without a re-threading and on a block of the table, what has been there all along is still ahead.
AheadInv ==
  ~rethreaded /\ ~stranded =>
    \A p \in present :
      /\ InBucket => bkt = HASH_TO_BKT(Hash[sought], tbl.num_buckets)
      /\ AtElement => /\ HASH_TO_BKT(hashv(out), tbl.num_buckets) = bkt
                      /\ Readable(out) => Reaches(out, p)

\* What the table gives now has been recorded; without an update, nothing has
\* changed since the lookup began.
AnswersInv ==
  /\ sought # NULL => Abstract!Answers(sought, entries, Moving) \subseteq answers
  /\ sought = NULL => answers = {}
  /\ Wild \in answers => NULL \in answers
  /\ (upc = "close" /\ Key[elem] = sought /\ (rethreaded \/ stranded \/ (AtElement /\ out = elem)))
       => elem \in answers
  /\ sought # NULL /\ Wild \notin answers =>
       /\ upc \in {"idle", "close"} /\ ~rethreaded /\ ~stranded /\ present = {e \in entries : Key[e] = sought}
       /\ fpc \notin {"find", "byhash"} => head # NULL
       /\ InBucket => bkt = HASH_TO_BKT(Hash[sought], tbl.num_buckets)
       /\ fpc = "take_head" => tbl.buckets[bkt].hh_head # NULL
       /\ AtElement => out \in entries
       /\ fpc = "follow" => hh_next[out] # NULL

\* The inductive invariant.
IInv == TableInv /\ BlocksInv /\ LookupInv /\ AheadInv /\ AnswersInv
=============================================================================
