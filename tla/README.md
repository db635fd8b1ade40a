# RelyConn in TLA+

Specifications of the RelyConn chat program (`src/RelyConn_Server`,
`src/RelyConn_Client`, `src/externals/utils`): what its threads and its two
programs keep, whatever the interleaving, checked by TLC on small instances and
proved by TLAPS for all sizes where it says so; and, as runs that are expected to
fail, what the repository says of the program and the code does not keep.

## 1. Inventory

| Component | State | Operations | Interacts through |
|---|---|---|---|
| User registry, `user_handler.c` | `clients[MAX_HOSTS]`, `clients_table` (uthash), `clients_connected`, the mutex `lock_disconnect`, the `client_handle` blocks | `add_user`, `disconnect_client_index`, `disconnect_client`, `disconnect_clients`, `close_client` | shared memory: every thread of the server calls it, and only `disconnect_client_index` locks |
| Listener, `listen_connections` | the block it is filling | `malloc`, `accept`, `pthread_create` | hands a block to a new login thread |
| Login threads, `init_client_conn` | the block, the global `buffer` | key exchange, login loop, `add_user` | socket, `buffer`, registry |
| Reader, `read_clients` | `clients_fdset`, loop index, `buffer` | sleep, build the set, `select`, `recv`, decrypt, split, look up, forward, disconnect | sockets, `buffer`, registry without the mutex |
| Writer, `write_clients` | the command line | `server\|kick:user:reason`, `server\|end` | registry without the mutex, `is_terminated` |
| main of the server | `is_terminated` | wait, cancel the threads, disconnect everybody, return | `pthread_cancel`, registry |
| Client program, client `main.c` | AES context, `is_terminated`, the line being typed | connect, key exchange, login loop, one reading and one writing thread, `cmd\|exit`, end of input | socket; the AES context is shared by its threads |
| RSA and number helpers, `rly_cryptography.c`, `math_utils.c`, `gmp_utils.c`, `buffer_utils.c` | the seed flag of `math_utils.c`, the state of `rand()` | `rsa_init_keys`, `rsa_encrypt`, `rsa_decrypt`, import and export of numbers, length header | the login threads share the flag and `rand()` |
| AES, `aes_encryption.c` over `tiny-AES-c/aes.c` | `AES_ctx.RoundKey`, `AES_ctx.Iv` | `aes_init`, `aes_cbc_encrypt`, `aes_cbc_decrypt` | one context per connection, used by two threads |
| Hash table, `uthash.h` | buckets, chains, the list of insertion | `HASH_ADD_STR`, `HASH_DEL`, `HASH_FIND_STR`, expansion of the buckets | `clients_table`; it takes no lock |
| String formatting, `strformatting.c` | heap | `split_str`, `free_str_array`, `is_str_array_empty`, `format_linestr` | called by both programs |
| GMP, the C library, TCP | | external | |

What is hard here: five kinds of threads (listener, login, reader, writer, main) work on the registry and one mutex
covers one of its functions; a login is checked and then added; a slot is tested
and then used; the reader can be cancelled while it holds the mutex; one global
buffer carries the key exchange of every connection, every login and every
message; the login threads seed and draw from one `rand()`; a lookup follows chains
that another thread is re-threading; both programs take one `recv` for one frame;
strings are split by one rule and counted by another.

What makes each component correct:

* registry: a block is freed once, and not while the array or the table leads to
  it; a slot belongs to one user; a username to one user; the counter is the
  number of occupied slots; the mutex is given back;
* reader: what it dereferences is a live client; a client that has left is
  removed; it sleeps only when nobody is connected;
* kick: the user who is removed is the user who was named;
* shutdown: main comes to its return;
* key exchange and login: both ends keep the same key and the same name, nobody
  waits for a frame that never comes;
* AES context: the vector is restored between messages, and what overlapping calls
  cost is bounded;
* AES itself: the published vectors, each round undone by its inverse, the tables
  those of the field;
* keys: the primes of a key come from different random numbers, and a key whose primes are
  good decrypts what it encrypted;
* hash table: chains, back links and counts are in step after every update, and a
  lookup beside an update returns what the table could have answered at some instant of it;
* forwarding: what arrives was written by the user it is attributed to;
* connection: a `recv` gets one frame, and lines, prompts and frames stay in step;
* client: it ends when the server closes or the user says so;
* splitting: the tokens are those of the string, within the array, and what is
  counted can be read.

## 2. Modules

| Module | What it is |
|---|---|
| `Sessions` | abstract: the life of a `client_handle` block, from `malloc` to `free` |
| `NameTable` | abstract: what the registry may rely on in `clients_table` |
| `UserHandler` | the registry: each function cut into the steps between which another thread can run |
| `Server` | the threads of the server over `UserHandler` |
| `ServerProperties` | type invariant, safety, inductive invariant, liveness, the mapping to `Sessions`, and the claims of the repository about the server |
| `ServerProofs` | TLAPS proofs of the safety properties, and that `Server` implements `Sessions` |
| `MCServer` | the symmetry set for TLC |
| `Uthash` | `uthash.h` under one updating and one searching thread; implements `NameTable` |
| `MCUthash` | four names, three of which always share a bucket |
| `UthashProofs` | TLAPS proofs of all its properties, the refinement of `NameTable` included |
| `SharedBuffer` | the global buffer with the login threads, the reader and the clients that talk through it, its properties and inductive invariant |
| `SharedBufferProofs` | TLAPS proofs of its safety properties |
| `Client` | the client program, its input and its connection as byte streams, its properties and inductive invariant |
| `ClientProofs` | TLAPS proofs of its safety properties |
| `KeyGeneration` | login threads that draw RSA keys from one `rand()`, and its properties |
| `KeyGenerationProofs` | TLAPS proofs of all its properties, from the remainders up to RSA |
| `MCKeyGeneration` | a few outputs of `rand()` and what `mpz_urandomb` makes of them |
| `CipherContext` | several threads in `aes_cbc_encrypt` and `aes_cbc_decrypt` on one context, and its properties |
| `CipherProofs` | TLAPS proofs of the properties of `CipherContext` |
| `Aes` | the block cipher and CBC, byte by byte, and its properties |
| `AesField` | the field with 256 elements that its tables and columns compute in, for TLC to compare |
| `AesProofs` | TLAPS proofs that every round and every text comes back |
| `MCAes` | the messages: the published vector, and what the programs send |
| `StrFormatting` | `split_str`, `free_str_array` and their callers, step by step, and their properties |
| `StrFormattingProofs` | TLAPS proofs of its safety properties, for strings of any length |

How they compose: `Server` extends `UserHandler` and implements `Sessions`; its table
is `NameTable` written into `Find`, `AddBegin`, `AddEnd`, `DelBegin` and `DelEnd`, and
`Uthash` implements that. `SharedBuffer` has the threads of the server again, cut at
their accesses to the buffer instead of the registry, with keys and messages as what
they are and whose; `Client` has one connection as bytes; `KeyGeneration`,
`CipherContext` and `Aes` are what lies behind a key and a message.

### UserHandler and Server

`pc[t]` is the next step of thread `t`, `idx[t]` its loop variable, `hnd[t]` its
`client_handle*` local and `count[t]` the value it has loaded of
`clients_connected`; each is reset when it is dead, so that states which differ
only in garbage are one. A step ends where the C code touches shared memory, takes
or gives the mutex or blocks:

| Code | Actions |
|---|---|
| `add_user` | `AddBegin` `AddEnd` (HASH_ADD_STR), `FindSlot`, `TakeSlot`, `LoadInc` `StoreInc` (`clients_connected++`) |
| `disconnect_client_index` | `Lock`, `CheckSlot`, `ClearSlot`, `DelBegin` `DelEnd` (HASH_DEL), `Close`, `LoadDec` `StoreDec`, `Unlock` |
| `listen_connections` | `Malloc`, `Accept` or `AcceptFails`, `Spawn` |
| `handle_login` | `LoginAccepted` then `add_user`, `LoginRefused`, `LoginEof` |
| `read_clients` | `ReaderSleeps`, `ReaderPolls`, `ReaderBuilds`, `ReaderSets`, `ReaderSelects`, `ReaderScans`, `RecvBegin`, `RecvEof`, `RecvData` or `RecvOrphan`, `Dropped` or `Addressed`, `Forward` |
| `write_clients`, `disconnect_client` | `Kick`, `Notify`, `FindClient`, `disconnect_client_index`, `End` |
| `main`, `disconnect_clients` | `CancelThreads`, `Sweep`, `disconnect_client_index`, `Exit` |

Decisions a reader should know:

* `Handles` is the set of addresses `malloc` can return. A freed address can be
  returned again, which is what makes a stale pointer point to somebody else.
* uthash takes no lock. An update that begins beside another sets `hash_torn`, and
  from then on the table may lose entries and a lookup may miss; before that a
  lookup beside an update may or may not see the entry that is moving.
* `clients_connected++` and `--` are a load and a store.
* `select` that fails because a descriptor was closed leaves the set as it was
  built; the code goes on with it. Where it succeeds, what it leaves is `readable`: only there is a
  receipt due.
* A `recv` that is under way is not woken when another thread closes its descriptor: it goes on
  waiting for that peer, whose block may be freed and used again meanwhile (`recv_on` is
  `"orphan"`, or `"ended"` when the peer had closed it too). A `recv` that has not begun fails. Both can be met
  after a kick, and the first keeps the reader from everybody else (`Stuck`).
* A null pointer that is followed, and SIGPIPE, end the process (`crashed`). A
  freed block that is read is not a crash of the model: what is read is not used
  by any property.
* `pthread_cancel` is deferred: the reader stops at its next cancellation point,
  which may be inside `disconnect_client_index`. The listener stops in `accept`,
  the writer has left by then, the login threads are not cancelled.
* The two reads of `clients[i]` within the condition of `main.c:96` are one step, and the
  lookup and the `strcpy` of a login another: nothing shared lies between the latter.
* A socket is identified with the block that holds its descriptor.
* A login is reduced to the username it offers, a message to its destination, a
  socket to whether its peer has closed it. Usernames are those of a legal length.

### Sessions

A block is free, connecting (with the listener or a login thread), online (in the array),
leaving (`disconnect_client_index` has loaded it) or lost: allocated, and out of reach of
every thread that could free it. The mapping `Life` reads the stage of a block from
`heap`, the array and the threads that hold it; its name is `username`. What the races of
`add_user` may cost is in the abstract steps: `Enter` may displace another online block,
`Clear` may clear a slot that has been overwritten, `Abandon` is the reader cancelled
with the mutex. What they may not cost is everything else: a block freed while it is
online, freed twice, brought back after it was lost, two leaving at a time, a name that changes.

### Uthash and NameTable

One step of `Uthash` is one write of the updating thread that a lookup can read, or one
read of the lookup: `HASH_MAKE_TABLE`, `HASH_APPEND_LIST`, `HASH_ADD_TO_BKT` with its
expansion (each bucket, each handle that is re-threaded, the old buckets freed, the new
ones stored), `HASH_DELETE_HH`, `HASH_DEL_IN_BKT`, and `HASH_FIND` with both its tests
of the head and its two reads of a link. An evaluation of `(head)->hh.tbl->...` is one step. An element is the
block of a client, `Key` its username and `Hash` the value of the hash function, so that
collisions are chosen. More exactly, an element is a block under one username: `Block` says which memory it
has, and elements that share it are never in the table at once. A block that is freed under a
lookup (`stranded`) may be linked again as another element, of any bucket: the lookup then reads that
one and goes down its chain. As long as it is not, its contents are anything: the links it had, null, or a
pointer with no meaning (`Wild`). `NameTable` says that a lookup beside an update may miss any name,
and that otherwise its answer is exact at some instant. `UserHandler` takes it with one restriction:
its `Find` does not return `Wild`. While `clients_table` is the null pointer `tbl` is `NoTable`, a
record with no buckets: nothing reads it but behind a test of `head`. Two updates at once are not modelled in `Uthash`;
`UserHandler` lets them lose any entries (`hash_torn`).

### SharedBuffer

Every login thread runs `init_encryption_client` and `handle_login` on the one
global `buffer`, and the reader receives and decrypts every message in it. The
module has one step per write, send or read of the buffer, two queues of frames per
connection, and the client program at the other end. A content is a record: what it
is (`kind`), whose (`conn`), for whom (`to`), and whether a length header is in
place (`sized`). RSA and AES are by their effect: a number wrapped with both halves
of one key pair is unwrapped by its owner and by nobody else, and decrypting with
another key gives `Junk`. `disturbed[u]` is a history variable: somebody has written the buffer while
thread `u` relied on what it had put there. A client that imports the modulus zero, and
whoever imports a content whose header is not a length, can die of it.

A client may leave at any time (`Leave`). What it sent before is still received; a `recv` of the key
that returns nothing is not noticed (`main.c:376`), so that the thread takes a key from whatever the
buffer holds and goes on to the login, where the end is noticed. A `send` to a client that
left something unread is SIGPIPE (`Broken`); of the frames of a client that has ended it is kept
whether there are any (`Unread`).

Of the registry there is as much as logins and messages depend on: the lookup of a login and its
`add_user` are apart, and `add_user` and `disconnect_client_index` have a beginning and an end. A lookup
beside an update may miss or find (`Unsure`), or read freed memory (`RegistryBreaks`). When two updates overlap, or a
message is lost because the lookup missed its user, `raced` is set and nothing is promised after it; what overlapping
updates really do is the subject of `UserHandler`. There is a slot for every connection.

### StrFormatting

One action per statement of `split_str`. The delimiter is one character in every
call of the repository. `Reads` are the elements that each caller then uses.

### CipherContext

Both programs keep one `aes_encryption_data` per connection and let two threads use it:
in the client one thread decrypts what arrives (`main.c:103`) and another encrypts
what is typed (`main.c:139`); in the server the reader decrypts and encrypts and the
writer encrypts the notice of a kick. CBC chains the blocks of a message through
`ctx->Iv`. `memcpy` and `XorWithIv` go through the vector in `PARTS` pieces, one step each, so that a copy
can be overtaken in the middle. A piece of the vector is of the fixed one or of the ciphertext of a thread's block;
the data is reduced to how many blocks were combined with a wrong piece. `hits` counts the pieces that other
threads have written since the thread called, and one more if the call found the vector spoilt; what a
thread writes itself never counts. `hits` and `alone` are history variables.

### Aes

A message is encrypted and then decrypted in one context, one transformation of the state
at a time, with the S-box tables, the round constants and `Multiply` of `aes.c`. `storeNextIv` is the copy of a block's ciphertext that `AES_CBC_decrypt_buffer` takes before it decrypts
in place (`aes.c:522`). `trace`, a history variable that no action reads, keeps every state of the encryption, against which each round of `InvCipher` is
compared. `KeyExpansion` reads 16 bytes while the key of a connection has 8
(`AES_KEY_LENGTH`): the model reads on into the field behind it, `iv`, as the layout of
`aes_encryption_data` has it. `##` is the exclusive or of two bytes, bit by bit, so that it can be reasoned
about; `AesField` has the product of the field with the exclusive or of `Bitwise`, and `FieldArithmetic` compares the two
wherever a run substitutes a byte or mixes a column.

### KeyGeneration

One step per access to what the login threads share: the test of `rand_initiated`, setting
it with the reading of the clock, `srand`, `rand()`. A place of the generator is a seed and a count; what it returns is
any value of `RandValues`, but the same at the same place. `nextprime`, `invert` and
`powm` are the definitions of what GMP computes. `places`, `reseeded` and `unready` are
history variables: where a thread has drawn, whether another has seeded between its
draws, and whether it drew while the flag was set and `srand` still to come.

### Client

`main`, `read_conndata` and `write_conndata`, the lines of standard input, and the
connection as two streams of bytes, each byte reduced to its place in what one `send` was
given. `recv` returns what has arrived: up to the end of some `send`, up to its limit, or a
cut elsewhere, `MAX_CUTS` times. The connection holds `SOCKET_SPACE` bytes each way; a `send` waits for
space, and `handle_login`, one step, for the space of its answer. `fgets` leaves what does not fit of a line for the next call and,
at the end of input, leaves the array as it was, so that the loop of the writing thread
goes on sending; `send` waits for space and kills the process on a connection that was
reset. The other end does what the server's threads do with one socket, or nothing.

## 3. Runs

Passing runs:

| Run | Question | Instance | Distinct states |
|---|---|---|---|
| `server_kick` | Do array and table stay clear of freed blocks while users log in, leave and are kicked? Is a new name new? Does every block live the life of `Sessions`, and does the invariant of the proofs hold? | 2 slots, 2 handles, 2 login threads, 1 username, `kick` | 3.0 million |
| `server_live` | Is a block freed once when the reader, a kick and `server\|end` all disconnect it, and does it live the life of `Sessions` through the cancellations? Is a client that has left removed, the mutex given back, the shutdown completed? | 2 slots, 1 handle, 2 login threads, `kick` and `end`, fair | 136 thousand |
| `buffer` | Are keys, names and authors right for an undisturbed thread, and do logins and messages come to an end, when a client leaves at any point? | 2 connections, 1 of which may be left, 1 message each, fair | 410 thousand |
| `client` | Do frames, lines and prompts stay in step, does the invariant of the proofs hold, and does the client end, also when nobody reads what it sends? | 4 bytes a frame, 2 lines, 2 messages, 1 cut, fair | 440 thousand |
| `keygen` | When do the random numbers of a key repeat, when are they unseeded, and does a good key work? | 2 login threads, 3 outputs, 6 bits, 2 seconds | 1.0 million |
| `uthash` | Is the structure right after every update, does the invariant of the proofs hold, and what can a lookup beside one return? | 4 names, 3 of them colliding, 3 blocks, 1 initial bucket, capacity 1 | 748 thousand |
| `cipher` | What can overlapping calls on one AES context damage? | 2 threads, 3 blocks, 2 pieces, 2 calls each | 592 thousand |
| `aes` | Is it AES, and does decryption in place give the text back? | the published vector (4 blocks), and two keys of 8 bytes with 8 blocks | 1683 |
| `split` | Are the tokens right, within the array, and does `split_str` return? | strings up to 6 characters over 2 letters and the delimiter, fair | 34 thousand |

Runs that are expected to fail, each against a sentence of the repository:

| Run | What is said | What happens |
|---|---|---|
| `names_unique` | README 44, 52: a username is an id, one already taken is refused | two logins look it up before either adds it |
| `kick_target` | README 69, 76: the named user is kicked | the slot is overwritten between the comparison and the mutex |
| `sleeps_if_empty` | server `main.c:63`: sleep if no clients are connected | an increment is lost, the reader sleeps beside a client |

Three more disagreements have no run of their own: each is the exception, spelt out, in a property that holds.

* `user_handler.h:46` calls `disconnect_clients` thread safe; the reader can be cancelled with the mutex,
  and main then waits for ever. `ShutdownEnds` says that this (`Abandoned`) is the only way.
* README 42: the encryption system is initialized. A second connection can clear the buffer under
  the first; `KeyAgreement` holds for a thread nobody has `disturbed`.
* server `main.c:99` checks that the format is correct. `name|`, and a kick without a reason, pass and
  an element that was never stored is read; `ReadsStored` holds of `Regular` strings.

Other consequences of the missing locks can be read off the models: two logins can find
the same slot empty (`user_handler.c:87`; the displacement in `Enter` of `Sessions`), a login that finds the array full
stays in the table with no slot (`user_handler.c:84`), two threads can update the
uthash table at once, and a second `srand` within a second repeats the first random numbers
(`math_utils.c:16`).

How the properties relate: `NamesFresh` is what the code keeps of `UsernamesUnique` (a
name of the *array* is never given again while updates of the table do not
overlap). `SlotsLive`, `NoDoubleFree` and `TableLive` are about an instant, `SessionsSpec`
about the whole life of a block. `DepartedCleared` excepts a reader that is `Stuck`: in `recv` with nothing due, because the
administrator has closed a descriptor under `select`, which fails and leaves silent sockets in the set; because the
descriptor was closed, or the slot given to another login, between `select` and `recv`; or because it
was closed under the `recv` itself, which goes on waiting for a peer that may never write again.
`MissesExplained` narrows `NameTableSpec`: a name that is there all along is missed
only while chains are re-threaded, or from a block that was freed under the lookup.
`KeyAgreement` excepts a thread whose client has left before its key came, and says that its key is used for no
login. `ClientEnds` excepts a writing thread that is blocked for good in `send` (`Blocked`): nothing obliges
the server to read this socket. `FramesWhole` excepts a stream that TCP has cut, and
the notice of a kick, whose length is taken with `strlen` after it is encrypted.
`PromptsInStep` excepts a line longer than the username's array and the end of input.
`SeededBeforeUse` excepts the window between the flag and `srand`, and
`PrimesFresh` a second `srand` between two draws.

Why the bounds are enough:

* Server: two slots let a loop pass over an occupied slot, find an
  empty one and find none; two handles let a freed address come back as another
  client and one be displaced by another. One is enough for liveness: its slot has to be emptied once, and it comes back as
  the block of the second login, which the reader can meet while it still hangs in the `recv` of the first; two login
  threads are the fewest that race each other, and the reader with
  the writer or with main are the two pairs that disconnect at the same time. One
  username is enough for two users to collide on it; runs about who is who use two.
* `SharedBuffer`: a third connection adds no kind of step, only more disturbance,
  and a single write by another thread already puts an end to what is claimed; the proofs cover the rest.
  `Leavers` are the clients that may leave: one does, whatever it is at, and its frames are still under way; the
  other stays, since a login that completes and a message that arrives need a user who stays. With one message each
  (`MAX_MESSAGES`) the two can cross and both be forwarded.
* `Client`: a frame of 4 bytes can be cut at three places, a reply has one byte as in the code, a login is
  shorter than a frame, the lines of 2, 3 and 9 characters fit the array of 3, exceed it by their newline and exceed it
  several times. `SOCKET_SPACE` of two frames makes `send` wait. `MAX_LINES`, `MAX_FORWARDS` and
  `MAX_CUTS` bound what the user, other clients and the network do. A line of 9
  characters is a name and three messages, one more than the connection holds: with `cmd|exit` typed behind it, the writing
  thread can be blocked while that line is waiting.
* `KeyGeneration`: `key_bitlength` 6 gives primes of 3 bits (3, 7, 11) and a private number of
  5 (3, 17, 29): some primes are equal, and 3 divides 7 - 1; two seconds let a thread seed in the
  second of another or in the next. Two threads are the fewest that share the flag.
* `Uthash`: a capacity of 1 makes the first element expand the table already, `MAX_BUCKETS` 16
  lets it expand until `noexpand` is set, and the fourth element leaves the chain of the three that
  collide, so that expanding helps or does not; it has the memory of one of them, so that a block comes back in another bucket.
* `Aes`: every transformation is on one block, and the chain needs two; the vector and the text run through
  all rounds with every entry of the tables.
* `split_str`: its properties depend on where delimiters are, and six characters have
  every arrangement of up to three tokens with delimiters before, between and after.
* `CipherContext`: two pieces let a copy be half done; three blocks have a first, a middle and a last one, and two threads have the four
  combinations of encrypting and decrypting; the proofs cover more of both.

Deadlock is not checked: the server's process ends, a client may stop, a string
is split once, keys are drawn once and the calls of `cipher` are bounded.

Symmetry is declared over handles, usernames and login threads (`server_kick`, `names_unique`, `kick_target`,
`sleeps_if_empty`), the two colliding elements that have memory of their own (`uthash`) and the threads (`keygen`): safety runs only.

### Fairness

`Server`: the scheduler runs every thread that can take a step, one condition per
thread; `recv` reports the end of a connection whose descriptor is open, and returns what `select` has
found. Nothing else makes it return. No client has to connect, log in or
write, and the administrator has to type nothing: `RecvData`, `Kick`, `End` and the
login have no fairness, nor has `RecvOrphan`, a receipt from a peer whose connection was closed here.

`SharedBuffer`: every thread of the server runs as long as no updates of the registry have
overlapped (a lost increment can put the reader to sleep for good), every client reads what it is sent, and a user who
has the prompt types a username. Nobody has to connect, to write a message or to leave.

`Client`: both threads and main of the client run. The other end owes nothing: the reader of the
server may sleep, wait on another socket or have no slot for this client. The user owes no line.

`StrFormatting`: the thread that splits runs. The other modules have safety properties only.

## 4. Proofs

`ServerProofs` proves, for every number of slots, handles, usernames and login
threads and for every set of commands:

| Theorem | Property |
|---|---|
| `Invariance` | `IInv` |
| `TypeCorrectness` | `TypeOK` |
| `SlotsAreLive` | `SlotsLive`: no slot points to a freed block, no two to the same |
| `TableIsLive` | `TableLive`: until updates of the table overlap, it contains the array and no freed block |
| `NoBlockFreedTwice` | `NoDoubleFree` |
| `NewNamesAreFresh` | `NamesFresh`: a login accepted beside no update takes no name of the array |

from the named assumptions of `UserHandler` and `Server`: there is a slot, the null
pointer is no handle, username or thread, the threads are different.

None of the properties is inductive. `SlotsLive` says nothing of the block a thread
is about to free or to store, so `IInv` adds who owns a block that is not in the
array: a login thread until it stores it (`HolderInv`), a disconnecting thread
once it has cleared the slot (`DisconnectInv`); that two threads never load the
same block follows from the mutex (`LockInv`), and that the slot cleared is the one
the block was loaded from needs that the block is in no other slot. `add_user`
takes no mutex, and the proof shows what it can and cannot spoil: it may overwrite a
slot that is being disconnected, but only with a block of its own, so that the
array never leads to freed memory. `TableInv` is conditional on `~hash_torn`: a user
enters the table before its slot and leaves it after, which is the order of the
statements in `add_user` and `disconnect_client_index`. `NamesFresh` is an action
property and follows from `TableInv`: what a lookup can miss is at most what is not
in the array.

`CipherProofs` proves, for every number of threads, length of message, division of a block and number of
calls:

| Theorem | Property |
|---|---|
| `CipherTypes` | `TypeOK` (proved only; no run repeats it) |
| `VectorIsRestored` | `IdleIsClean` |
| `DamageIsBounded` | `DamageBounded` |
| `AloneMeansRight` | `AloneIsRight` |

`DamageBounded` compares what has been damaged with how often the vector was spoilt,
and is not inductive: a vector that is wrong *now* will cost a block at the next
read. `OwedInv` adds that block in advance (`Owed`: a piece that the thread has still to read, `Pending`, is
not the one its chain requires, and the block is not counted yet): a piece written by another thread
raises both sides, a read turns what is owed into damage, and a piece of one's own is the one required.
`CleanInv` says that a piece that is not the fixed one belongs to a call that has still to set it, from which `IdleIsClean` follows;
`AloneIsRight` does too, because a thread that began alone found the vector clean and was not hit. `ProgressInv` ties
the damage to the number of blocks read, which `TypeOK` needs.

`ServerProofs` proves further, under the same assumptions:

| Theorem | Property |
|---|---|
| `ServerImplementsSessions` | `SessionsSpec`: the server refines `Sessions` |
| `NamesComeWithLogin` | `NamedInv`, the strengthening it needs |

`StagesInv` reads the stage of a block off whoever holds it: by `IInv` a block is held by one
login thread, or by one disconnecting thread, or by the array, and the order of the cases
in `Life` does not matter except for a block that is leaving and still in its slot. A step of
thread `t` can only change the stage of the block `t` holds before or after (`Elsewhere`), or of
the one whose slot it writes; so each action is one lemma that names its block and its
abstract step, and the quiet ones follow from `SameParts`. `NamedInv` is what `Refuse` and `Enter` need:
no name before the login, one after it.

`SharedBufferProofs` proves, for every number of connections and messages:

| Theorem | Property |
|---|---|
| `BufferInvariance` | `IInv` |
| `KeysAgree` | `KeyAgreement` |
| `NamesAreKept` | `NamesKept` |
| `AuthorsAreRight` | `Attribution` |

Agreement is about the end of an exchange of five frames, so `IInv` has to say how far the two
programs can be apart at each step: `ExchangeInv` lists, for every place of the login thread, where its
client is and what is in the buffer and in both queues, as long as nobody has disturbed it. At each
place the client may also have left (`Left`), with some of its frames still under way; `Hangup`, left and all of them
received, lasts, and is what a thread with no key or another key has to show.
`LoginInv` and `ReaderInv` do the same for the login and the reader, and `DeliveryInv` says of every frame under way
who wrote it. The argument is a thread's own steps, from one place to the next, and `Bystander`: a
step of one thread leaves another as it was or, if it writes the buffer the other relies on, marks
it disturbed. `Attribution` holds of a disturbed reader too: a content that is
not what the key fits decrypts to `Junk`, never to another's message.

`KeyGenerationProofs` proves, for any number of threads, any generator and any time:

| Theorem | Property |
|---|---|
| `PrimesAreFresh` | `PrimesFresh` |
| `SeededOrInTheWindow` | `SeededBeforeUse` |
| `TypeCorrectness` | `TypeOK` (proved only; no run repeats it) |
| `KeysAreInverse` | `KeysWork`, for primes of any size and any such private number |

`KInv` adds that the draws of a thread go forward in one stream until another thread seeds
(`Forward`), and that between the flag and the first `srand` some thread is about to seed
(`Pending`). `TInv` counts the draws, which is why there are never more than three, and
takes from `GmpAssumption` that what is drawn is a prime; that `mpz_nextprime` finds one below `2x + 3` is
Bertrand's postulate, which is not proved here. `RInv` adds `Drawn`: after its first, second and third draw the
`q`, the `p` and the private number of a thread are primes, whatever the others draw meanwhile, and a
thread that is done has the product and the inverse of its own numbers.

The rest of `KeysWork` is a fact about numbers, proved from the definition of a prime and of `%`:

* `PrimeInverse`: the least number that is a multiple of `a` modulo the prime `d` is 1, or it would leave a
  smaller one; so `a` has an inverse, and `PrimeDivides` (Euclid's lemma) follows.
* `InverseExists`: a private prime that divides neither `p - 1` nor `q - 1` does not divide their product
  `v`, and an inverse of `v` modulo the prime gives one of the prime modulo `v`: `mpz_invert` does not fail.
* `Iteration`: a step and a first value give a function of the naturals (the library's theorem
  takes an operator). It gives the powers (`Power`) and the product of a set modulo `d` (`Gathered`), and `PowmIs` shows that
  repeated squaring, with one recursive function for each exponent, computes the former.
* `Fermat`: the multiples of `b` by 1 to `d - 1` are those numbers in another order (`MultiplesDiffer`,
  `MultiplesReachAll`), so both products are equal, and one is the other by the power `d - 1` of `b`.
* `ChineseRemainder` and `Rsa`: what is decrypted equals the message modulo `p` and modulo `q`, a
  message that one of them divides included, and both are below `n`.

`Rem` is `%` under a name of its own: with it the provers reason from these lemmas.

`ClientProofs` proves, for frames, lines and names of any length, a connection of any capacity that
holds a frame, any number of lines and messages, and any number of cuts:

| Theorem | Property |
|---|---|
| `ClientInvariance` | `IInv` |
| `FramesAreWhole` | `FramesWhole` |
| `PromptsKeepStep` | `PromptsInStep` |

from `LengthAssumption` (a login and a username fit a message, and a message fits the connection) and
`InputAssumption`. `FramesWhole` is about what a `recv` got, and so about what the stream held: `IInv`
says of each stream what it is a sequence of (`Blocks`: every byte lies in a whole frame; `Answer`:
one byte first), by the place of the client (`ToClientInv`) and of the server (`ToServerInv`). The
hard places are where two frames are on their way at once: the public key and the modulus, the key
and the name, and the answer with the first messages behind it; there a `recv` of one limit must not
take what belongs to the next. With a cut or a notice nothing is claimed of the streams any more, so this part is
a disjunct of `IInv`. `PromptsInStep` needs of the input only that a
remainder comes from a line longer than the array for a username (`LinesInv`).

`UthashProofs` proves, for any elements, any hash function, any power of two
up to 64 of buckets to begin with (32 in the code), any capacity and any bound on the buckets:

| Theorem | Property |
|---|---|
| `UthashInvariance` | `IInv` |
| `TableIsSound` | `Integrity` |
| `ChainsStayBounded` | `ChainsBounded` |
| `MissesAreExplained` | `MissesExplained` |
| `ImplementsNameTable` | `NameTableSpec`: uthash refines `NameTable` |

from `KeyAssumption` (finitely many elements, with keys that hash to numbers), `AnswerAssumption`
and `BucketAssumption`; `Block` is any function. The invariant has four parts.

* `TableInv`, the structure. A chain is defined without counting: `Chain(S, first, link)` says that
  every link leads to another element of `S`, no two to the same, and that only `S` itself is closed under
  links from `first` on; pushing, appending, removing and popping an element are lemmas about it. `ListInv` and
  `ChainsInv` say it of the list and of every bucket between any two writes of an update. Inside
  the expansion `RebuildInv` says that some set of handles is in its new chains and the rest in what is
  left of the old (`Halfway`); `BoundInv` carries `expand_mult` and the counts through it.
* `BlocksInv`: no two elements of the table share their memory.
* `LookupInv` and `AheadInv`, where a lookup is: unless chains have been re-threaded since it
  began or the block it stands on was freed, every entry that has been there all along is still reached from where it
  stands (`Reaches`). That an element is unlinked keeps this, although the lookup may stand on it: its
  own link is left as it was, until it is freed. `MissesExplained` follows.
* `AnswersInv`, what a lookup may return: whatever the table holds now, and whatever it held since
  the lookup began, has been recorded in `answers`. With this every step is a step of `NameTable` or a stutter.

`Integrity` is `HASH_FSCK`, which walks: `Walk` is a recursive function, and what it meets is
counted. The proof derives a least-number principle (`LeastNatural`) from the library's
well-founded order on finite sets, and induction on numbers for a *set* (`InductionOnNat`) from
that, since an induction theorem that takes an operator cannot be cited; it shows that the
function exists and that a walk along a `Chain` meets each of its elements once, ends, and
agrees with the back links.

`StrFormattingProofs` proves, for strings of any length over any characters:

| Theorem | Property |
|---|---|
| `TokensAreRight` | `SplitsIntoTokens` |
| `ArrayIsLargeEnough` | `ArrayFits` |
| `CallersReadStored` | `ReadsStored` |

from `DelimAssumption`, `LengthAssumption` and `CallersAssumption`. `NextToken` is what `strtok_r` does: from
the beginning, from behind a delimiter or from behind the end it takes the first token that begins
there or later. `IInv` says that the number of tokens which begin before `save_ptr` is the number stored,
and one for the token in `p`; so the loop needs no induction over the string. `ArrayFits` and
`ReadsStored` compare two counts, tokens and delimiters: every token but one at the beginning follows a
delimiter (an injection), and in a regular string every delimiter is followed by a token (a bijection).

`AesProofs` proves, for any key schedule whatever, any vector and any text of whole blocks:

| Theorem | Property |
|---|---|
| `Invariant` | `IInv` (proved only; no run repeats it) |
| `RoundsUndone` | `UndoesEachRound` |
| `TextRestored` | `RoundTrip` |
| `TransformationsInverse` | each transformation of `InvCipher` undoes its own, on every block (no state is involved) |

from `MessagesAssumption`: a text is not empty and consists of blocks of 16 bytes. Bytes are equal when
their bits are (`SameBits`), and `##` is known by its bits (`XorOn`), so that a key cancels out
whatever it is. The S-boxes are compared entry by entry (`BoxInverse`, 256 of them).
`InvMixColumns` multiplies by sums of powers of `xtime`, which is linear (`xtimeLinear`); with that alone the sum
for one byte of a column reduces to that byte (`ColumnInverse`), and nothing of the field is needed.
`IInv` says of every stage of every round what the current block is in terms of its trace (`OnItsWayOut`,
`OnItsWayBack`), and what the blocks before and behind it are (`Sending`, `Receiving`): decrypted in
place, a block still finds in `Iv` the ciphertext of the one before it.

Checked by TLC only:

* liveness (`DepartedCleared`, `LockReleased`, `ShutdownEnds`, `LoginCompletes`, `MessagesArrive`, `SplitReturns`,
  `ClientEnds`), which is beyond the prover with its fairness;
* that the cipher is AES and not another one (`KnownVectors`), which is a computation;
* `FieldArithmetic`, which has no parameters: TLC evaluates it on the bytes that occur in the three messages of the run, which are all 256, and `Bitwise` is beyond the prover.

## 5. Not modelled

* `init_server` and the exits on its errors, and failures of `pthread_create`, before the
  threads interact.
* GMP, the C library's `rand` and `strtok_r`, the kernel: by how they are used.
* uthash: the value of the hash function, two updates at once, and the macros no program
  uses (sorting, selecting, replacing, counting, Bloom filters). `utlist.h`, `utarray.h`,
  `utstring.h` and `utringbuffer.h` are vendored beside it and included by nothing.
* tiny-AES: the ECB and CTR functions, which no program calls.
* The lengths of arrays in `sprintf` (a name, a separator and a message into the size of a message),
  the byte a username of the greatest length lacks, and the copies of tokens that
  `free_str_array` leaves: they are within one statement, with no order to get wrong.
* What a read of freed memory yields, and how the commands are spelt beyond `split_str`.
* `formatter_message.c` (never called), the commented-out functions at the end of the
  server's `main.c`, `error_handling.c`, `errormess.c`, the build files: no state.

## 6. Plan

Done: registry and threads of the server, its invariant, its refinement of `Sessions` and their proofs; the
shared buffer, the AES context, the random numbers, the client and its connection, uthash with its refinement of
`NameTable`, string splitting, the cipher, each with its proofs.

Left, in order:

1. The safety half of what liveness rests on, as theorems: who can hold the mutex for ever
   (`ShutdownEnds`), which frames a waiting program still has coming (`LoginCompletes`).
2. `UserHandler` over `Uthash` instead of its set: two updates of the table at once, now any loss
   of entries.
3. `SharedBuffer` with the registry of `Server` behind its logins and its forwarding, so that what is
   said of a message holds after `raced` too, by what a lost slot or a lost increment really does.
