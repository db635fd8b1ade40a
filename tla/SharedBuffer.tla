----------------------------- MODULE SharedBuffer -----------------------------
(***************************************************************************)
(* The global char buffer[BUFFER_LENGTH] of the server (main.c:34), which   *)
(* every login thread uses in the key exchange and the login and the       *)
(* reader uses for the messages, with no lock; and the client program at   *)
(* the other end of each connection.  A content is reduced to what it is,  *)
(* whose it is and for whom; a frame sent is received whole.  Of the       *)
(* registry, the subject of UserHandler, there is what an update and a     *)
(* lookup may do to each other, and raced, after which it promises nothing;*)
(* there are slots for all of Conns.  A client may leave at any time.      *)
(***************************************************************************)
EXTENDS Naturals, Sequences, FiniteSets

CONSTANTS
  Conns,         \* the connections: a client, its name and its login thread
  Reader,        \* the reader thread of the server
  Leavers,       \* bound on the clients that leave: those whose user may
  MAX_MESSAGES,  \* bound on the messages a client writes
  Odd,           \* any username that nobody chose
  NULL

Users == Conns \cup {Reader}

ASSUME ConnsAssumption == Reader \notin Conns /\ NULL \notin Conns \cup {Odd} /\ Odd \notin Conns
ASSUME LeaversAssumption == Leavers \subseteq Conns
ASSUME MessagesAssumption == MAX_MESSAGES \in Nat

VARIABLES
  buffer,     \* the content of the server's buffer
  pc,         \* the next step of each login thread and of the reader
  secret,     \* decrypted_des_key_mpz: whose AES key a thread has decrypted
  key,        \* encryption_data.key: whose AES key the server keeps, NULL for none
  user,       \* the username of each connection once split_str has given it, else NULL
  at,         \* clients[i] of the reader, NULL outside its loop body
  toClient,   \* the frames under way on each connection, one queue each way
  toServer,
  client,     \* what each client does next
  key_public, \* key_public_rsa of each client
  sent,       \* how many messages each client has written
  shown,      \* what each client has printed: who wrote it and under which name
  disturbed,  \* history: a thread whose content in buffer was written over
  raced,      \* two updates of the registry overlapped, or one hid a user from the reader
  crashed     \* the server was killed: by a senseless length, SIGPIPE or a torn registry

clientside == <<client, key_public, sent, shown>>
serverside == <<buffer, pc, secret, key, user, at, disturbed, raced, crashed>>
vars == <<serverside, toClient, toServer, clientside>>

-----------------------------------------------------------------------------
(* Contents *)

\* sized tells whether a buffer_header with a length is in its place.
Content(kind, conn, to, sized) == [kind |-> kind, conn |-> conn, to |-> to, sized |-> sized]
Zero == Content("zero", NULL, NULL, FALSE)
Junk == Content("junk", NULL, NULL, TRUE)

Numbers == {"zero", "pub", "mod", "wrapped", "key"}

\* buffer_to_mpz with the length of the header: none imports the number zero,
\* and one that is not a length runs past the buffer, or gives a number.
AsNumber(c) == IF ~c.sized THEN Zero ELSE IF c.kind \in Numbers THEN c ELSE Junk
Senseless(c) == c.sized /\ c.kind \notin Numbers

\* rsa_encrypt: only the owner of both halves of the key can undo it.
rsa_encrypt(c, pub, mod) ==
  Content("wrapped", c,
    IF pub.kind = "pub" /\ mod.kind = "mod" /\ pub.conn = mod.conn THEN pub.conn ELSE NULL, TRUE)

\* Mutant of rsa_decrypt: the number is used as it came.
rsa_decryptSkipped(c, t) == c
rsa_decrypt(c, t) == IF c.kind = "wrapped" /\ c.to = t THEN c.conn ELSE NULL

\* aes_cbc_decrypt in place, with the key of client k.
aes_cbc_decrypt(c, k) ==
  IF c.kind = "login" /\ c.conn = k THEN Content("name", k, NULL, TRUE)
  ELSE IF c.kind = "message" /\ c.conn = k THEN Content("text", k, c.to, TRUE)
  ELSE Junk

-----------------------------------------------------------------------------
(* Steps *)

Step(u, from, to) == pc[u] = from /\ pc' = [pc EXCEPT ![u] = to]

\* The steps at which a thread relies on what it has put into the buffer.
Exposed(u) == pc[u] \in
  {"send_pub", "send_mod", "take_key", "aes_init", "decrypt_login", "split",
   "decrypt_message", "forward"}

Write(u, c) ==
  /\ buffer' = c
  /\ disturbed' = [w \in Users |-> disturbed[w] \/ (w # u /\ Exposed(w))]

\* What the client sent before it ended has been received: recv returns nothing.
Hangup(t) == client[t] = "ended" /\ toServer[t] = <<>>

\* Of what goes to a client that has ended it matters only whether there is any.
Unread == <<Junk>>

Send(t, c) ==
  toClient' = [toClient EXCEPT ![t] = IF client[t] = "ended" THEN Unread ELSE Append(@, c)]

\* The client has ended and not read all it was sent, which resets the
\* connection: to send again is SIGPIPE.
Broken(t) == client[t] = "ended" /\ toClient[t] # <<>>

Dies ==
  /\ crashed' = TRUE
  /\ UNCHANGED <<buffer, pc, secret, key, user, at, disturbed, raced, toClient, toServer, clientside>>

\* The threads in the middle of add_user and disconnect_client_index.
Updating == {t \in Conns : pc[t] = "add_end"} \cup {u \in {Reader} : pc[u] = "disconnect_end"}

InTable(t) == pc[t] \in {"add_end", "done"}
Registered(name) == {t \in Conns : InTable(t) /\ user[t] = name}

\* A lookup beside an update may miss what is there and give what is not.
Unsure == raced \/ Updating # {}

Init ==
  /\ buffer = Zero
  /\ pc = [u \in Users |-> IF u = Reader THEN "select" ELSE "none"]
  /\ secret = [t \in Conns |-> NULL]
  /\ key = [t \in Conns |-> NULL]
  /\ user = [t \in Conns |-> NULL]
  /\ at = NULL
  /\ toClient = [t \in Conns |-> <<>>]
  /\ toServer = [t \in Conns |-> <<>>]
  /\ client = [c \in Conns |-> "off"]
  /\ key_public = [c \in Conns |-> Zero]
  /\ sent = [c \in Conns |-> 0]
  /\ shown = [c \in Conns |-> {}]
  /\ disturbed = [u \in Users |-> FALSE]
  /\ raced = FALSE /\ crashed = FALSE

-----------------------------------------------------------------------------
(* init_encryption_client, by login thread t *)

Clear(t) ==           \* memset(buffer, 0, BUFFER_LENGTH)
  /\ \/ Step(t, "clear_pub", "export_pub")
     \/ Step(t, "clear_mod", "export_mod")
     \/ Step(t, "clear_key", "recv_key")
     \/ Step(t, "clear_aes", "export_aes")
     \/ Step(t, "clear_login", "recv_login")
  /\ Write(t, Zero)
  /\ UNCHANGED <<secret, key, user, at, raced, crashed, toClient, toServer, clientside>>

ExportRsa(t) ==       \* mpz_to_buffer of key_public or n, and set_buffer_header
  /\ \/ Step(t, "export_pub", "send_pub") /\ Write(t, Content("pub", t, NULL, TRUE))
     \/ Step(t, "export_mod", "send_mod") /\ Write(t, Content("mod", t, NULL, TRUE))
  /\ UNCHANGED <<secret, key, user, at, raced, crashed, toClient, toServer, clientside>>

\* Mutant of SendRsa: n is not sent.
SendRsaOnce(t) ==
  /\ \/ Step(t, "send_pub", "clear_mod") /\ Send(t, buffer)
     \/ Step(t, "send_mod", "clear_key") /\ UNCHANGED toClient
  /\ UNCHANGED <<buffer, secret, key, user, at, disturbed, raced, crashed, toServer, clientside>>

SendRsa(t) ==
  /\ Step(t, "send_pub", "clear_mod") \/ Step(t, "send_mod", "clear_key")
  /\ Send(t, buffer)
  /\ UNCHANGED <<buffer, secret, key, user, at, disturbed, raced, crashed, toServer, clientside>>

SendBreaks(t) == pc[t] \in {"send_mod", "find"} /\ Broken(t) /\ Dies

\* The frame fills the buffer; what recv returns is not looked at, so that the end
\* of the connection goes on with the buffer as it is.
RecvKey(t) ==
  /\ Step(t, "recv_key", "take_key")
  /\ \/ /\ toServer[t] # <<>>
        /\ Write(t, Head(toServer[t]))
        /\ toServer' = [toServer EXCEPT ![t] = Tail(@)]
     \/ Hangup(t) /\ UNCHANGED <<buffer, disturbed, toServer>>
  /\ UNCHANGED <<secret, key, user, at, raced, crashed, toClient, clientside>>

TakeKey(t) ==         \* extract_buffer_header wipes the header; import and decrypt
  /\ Step(t, "take_key", "clear_aes")
  /\ secret' = [secret EXCEPT ![t] = rsa_decrypt(AsNumber(buffer), t)]
  /\ Write(t, [buffer EXCEPT !.sized = FALSE])
  /\ UNCHANGED <<key, user, at, raced, crashed, toClient, toServer, clientside>>

\* buffer_to_mpz with a message_length that is not a length.
TakeKeyCrashes(t) == pc[t] = "take_key" /\ Senseless(buffer) /\ Dies

ExportAes(t) ==       \* mpz_to_buffer(buffer, decrypted_des_key_mpz)
  /\ Step(t, "export_aes", "aes_init")
  /\ Write(t, Content("key", secret[t], NULL, FALSE))
  /\ UNCHANGED <<secret, key, user, at, raced, crashed, toClient, toServer, clientside>>

\* Mutant of aes_init: the key is not copied.
aes_initForgotten(t) ==
  /\ Step(t, "aes_init", "clear_login")
  /\ secret' = [secret EXCEPT ![t] = NULL]
  /\ UNCHANGED <<buffer, key, user, at, disturbed, raced, crashed, toClient, toServer, clientside>>

aes_init(t) ==        \* the key of the connection is copied from the buffer
  /\ Step(t, "aes_init", "clear_login")
  /\ key' = [key EXCEPT ![t] = IF buffer.kind = "key" THEN buffer.conn ELSE NULL]
  /\ secret' = [secret EXCEPT ![t] = NULL]
  /\ UNCHANGED <<buffer, user, at, disturbed, raced, crashed, toClient, toServer, clientside>>

-----------------------------------------------------------------------------
(* handle_login, by login thread t *)

RecvLogin(t) ==       \* a login is 32 bytes: the header is left as it was
  /\ Step(t, "recv_login", "decrypt_login")
  /\ toServer[t] # <<>>
  /\ Write(t, [Head(toServer[t]) EXCEPT !.sized = buffer.sized])
  /\ toServer' = [toServer EXCEPT ![t] = Tail(@)]
  /\ UNCHANGED <<secret, key, user, at, raced, crashed, toClient, clientside>>

\* Mutant of LoginEof: the end of the connection is taken for a login.
LoginEofIgnored(t) ==
  /\ Step(t, "recv_login", "decrypt_login")
  /\ Hangup(t)
  /\ UNCHANGED <<buffer, secret, key, user, at, disturbed, raced, crashed, toClient, toServer, clientside>>

LoginEof(t) ==        \* decrypted all the same, then close_client and pthread_exit
  /\ Step(t, "recv_login", "closed")
  /\ Hangup(t)
  /\ Write(t, aes_cbc_decrypt(buffer, key[t]))
  /\ UNCHANGED <<secret, key, user, at, raced, crashed, toClient, toServer, clientside>>

DecryptLogin(t) ==
  /\ Step(t, "decrypt_login", "split")
  /\ Write(t, aes_cbc_decrypt(buffer, key[t]))
  /\ UNCHANGED <<secret, key, user, at, raced, crashed, toClient, toServer, clientside>>

\* split_str copies the username out of the buffer.  An empty buffer gives one
\* that is too short; what is not a login may have a length that passes.
SplitLogin(t) ==
  /\ Step(t, "split", "find")
  /\ \/ buffer.kind = "name" /\ user' = [user EXCEPT ![t] = buffer.conn]
     \/ buffer.kind \notin {"name", "zero"} /\ user' = [user EXCEPT ![t] = Odd]
     \/ buffer.kind # "name" /\ UNCHANGED user
  /\ UNCHANGED <<buffer, secret, key, at, disturbed, raced, crashed, toClient, toServer, clientside>>

\* HASH_FIND_STR and the answer of one byte.
LoginAccepted(t) ==
  /\ Step(t, "find", "add_user")
  /\ user[t] # NULL
  /\ Registered(user[t]) = {} \/ Unsure
  /\ Send(t, Content("success", NULL, NULL, FALSE))
  /\ UNCHANGED <<buffer, secret, key, user, at, disturbed, raced, crashed, toServer, clientside>>

LoginRefused(t) ==
  /\ Step(t, "find", "clear_login")
  /\ user[t] = NULL \/ Registered(user[t]) # {} \/ Unsure
  /\ user' = [user EXCEPT ![t] = NULL]
  /\ Send(t, Content("refused", NULL, NULL, FALSE))
  /\ UNCHANGED <<buffer, secret, key, at, disturbed, raced, crashed, toServer, clientside>>

add_user(t) ==        \* HASH_ADD_STR, the search for a slot, clients_connected++
  /\ \/ Step(t, "add_user", "add_end") /\ raced' = (raced \/ Updating # {})
     \/ Step(t, "add_end", "done") /\ UNCHANGED raced
  /\ UNCHANGED <<buffer, secret, key, user, at, disturbed, crashed, toClient, toServer, clientside>>

\* A thread reads what another has freed or is linking, or a table that two tore.
RegistryBreaks(u) ==
  /\ pc[u] \in {"find", "add_user", "add_end", "forward", "disconnect_end"}
  /\ raced \/ Updating \ {u} # {}
  /\ Dies

init_client_conn(t) ==
  \/ Clear(t) \/ ExportRsa(t) \/ SendRsa(t) \/ SendBreaks(t) \/ RecvKey(t) \/ TakeKey(t)
  \/ TakeKeyCrashes(t) \/ ExportAes(t) \/ aes_init(t)
  \/ RecvLogin(t) \/ LoginEof(t) \/ DecryptLogin(t) \/ SplitLogin(t)
  \/ LoginAccepted(t) \/ LoginRefused(t) \/ add_user(t) \/ RegistryBreaks(t)

-----------------------------------------------------------------------------
(* read_clients *)

Select(t) ==          \* a socket of the array is readable, its end included: memset
  /\ Step(Reader, "select", "recv_message")
  /\ pc[t] = "done" /\ (toServer[t] # <<>> \/ Hangup(t))
  /\ at' = t
  /\ Write(Reader, Zero)
  /\ UNCHANGED <<secret, key, user, raced, crashed, toClient, toServer, clientside>>

disconnect_client_index ==
  \/ /\ Step(Reader, "recv_message", "disconnect_end")
     /\ Hangup(at)
     /\ raced' = (raced \/ Updating # {})
     /\ UNCHANGED <<buffer, secret, key, user, at, disturbed, crashed, toClient, toServer, clientside>>
  \/ /\ pc[Reader] = "disconnect_end"
     /\ pc' = [pc EXCEPT ![Reader] = "select", ![at] = "closed"]
     /\ user' = [user EXCEPT ![at] = NULL]
     /\ at' = NULL
     /\ UNCHANGED <<buffer, secret, key, disturbed, raced, crashed, toClient, toServer, clientside>>

RecvMessage ==
  /\ Step(Reader, "recv_message", "decrypt_message")
  /\ toServer[at] # <<>>
  /\ Write(Reader, Head(toServer[at]))
  /\ toServer' = [toServer EXCEPT ![at] = Tail(@)]
  /\ UNCHANGED <<secret, key, user, at, raced, crashed, toClient, clientside>>

DecryptMessage ==
  /\ Step(Reader, "decrypt_message", "forward")
  /\ Write(Reader, aes_cbc_decrypt(buffer, key[at]))
  /\ UNCHANGED <<secret, key, user, at, raced, crashed, toClient, toServer, clientside>>

\* sprintf of the name of the sender and the payload, encrypted with the key
\* that the server has for the one it goes to.
Deliver(u, name) ==
  Send(u, IF key[u] = u THEN Content("delivery", buffer.conn, name, FALSE) ELSE Junk)

ForwardTo(dest, name) ==
  /\ Step(Reader, "forward", "select")
  /\ at' = NULL
  /\ \/ /\ buffer.kind = "text"
        /\ \E u \in Registered(dest) : Deliver(u, name)
        /\ UNCHANGED raced
     \/ /\ buffer.kind = "text" => Registered(dest) = {} \/ Unsure
        /\ raced' = (raced \/ (buffer.kind = "text" /\ Registered(dest) # {}))
        /\ UNCHANGED toClient
  /\ UNCHANGED <<buffer, secret, key, user, disturbed, crashed, toServer, clientside>>

\* Mutants of Forward: the message is announced as from its destination, and
\* the user looked up is the sender.
ForwardRenamed == ForwardTo(buffer.to, buffer.to)
ForwardToSender == ForwardTo(buffer.conn, user[at])

Forward == ForwardTo(buffer.to, user[at])

ForwardBreaks ==
  /\ pc[Reader] = "forward" /\ buffer.kind = "text"
  /\ \E u \in Registered(buffer.to) : Broken(u)
  /\ Dies

read_clients ==
  \/ \E t \in Conns : Select(t)
  \/ RecvMessage \/ disconnect_client_index \/ DecryptMessage \/ Forward \/ ForwardBreaks
  \/ RegistryBreaks(Reader)

-----------------------------------------------------------------------------
(* The client program *)

Goes(c, from, to) == client[c] = from /\ client' = [client EXCEPT ![c] = to]
Receives(c) == toClient[c] # <<>> /\ toClient' = [toClient EXCEPT ![c] = Tail(@)]
Sends(c, content) == toServer' = [toServer EXCEPT ![c] = Append(@, content)]

\* The program ends, with these frames not read; its memory goes with it.
Ends(c, frames) ==
  /\ client' = [client EXCEPT ![c] = "ended"]
  /\ toClient' = [toClient EXCEPT ![c] = IF frames = <<>> THEN <<>> ELSE Unread]
  /\ key_public' = [key_public EXCEPT ![c] = Zero]

Connect(c) ==         \* connect_to_server; the listener starts the login thread
  /\ Goes(c, "off", "recv_pub")
  /\ Step(c, "none", "clear_pub")
  /\ UNCHANGED <<buffer, secret, key, user, at, disturbed, raced, crashed, toClient, toServer,
                 key_public, sent, shown>>

RecvPub(c) ==
  /\ Goes(c, "recv_pub", "recv_mod")
  /\ Receives(c)
  /\ key_public' = [key_public EXCEPT ![c] = AsNumber(Head(toClient[c]))]
  /\ UNCHANGED <<serverside, toServer, sent, shown>>

RecvMod(c) ==         \* create the AES key and send it encrypted
  /\ Goes(c, "recv_mod", "login")
  /\ Receives(c)
  /\ AsNumber(Head(toClient[c])).kind # "zero"
  /\ Sends(c, rsa_encrypt(c, key_public[c], AsNumber(Head(toClient[c]))))
  /\ key_public' = [key_public EXCEPT ![c] = Zero]
  /\ UNCHANGED <<serverside, sent, shown>>

\* An import of a senseless length, or mpz_powm modulo zero, kills the client.
ClientCrashes(c) ==
  /\ client[c] \in {"recv_pub", "recv_mod"} /\ toClient[c] # <<>>
  /\ \/ Senseless(Head(toClient[c]))
     \/ client[c] = "recv_mod" /\ AsNumber(Head(toClient[c])).kind = "zero"
  /\ Ends(c, Tail(toClient[c]))
  /\ UNCHANGED <<serverside, toServer, sent, shown>>

SendLogin(c) ==       \* handle_login(account.username)
  /\ Goes(c, "login", "recv_reply")
  /\ Sends(c, Content("login", c, NULL, FALSE))
  /\ UNCHANGED <<serverside, toClient, key_public, sent, shown>>

RecvReply(c) ==       \* SUCCESSFUL_LOGIN starts the two threads, else log in again
  /\ Receives(c)
  /\ IF Head(toClient[c]).kind = "success"
       THEN Goes(c, "recv_reply", "online") ELSE Goes(c, "recv_reply", "login")
  /\ UNCHANGED <<serverside, toServer, key_public, sent, shown>>

write_conndata(c, name) ==     \* the user types name|message
  /\ client[c] = "online" /\ sent[c] < MAX_MESSAGES
  /\ sent' = [sent EXCEPT ![c] = @ + 1]
  /\ Sends(c, Content("message", c, name, TRUE))
  /\ UNCHANGED <<serverside, toClient, client, key_public, shown>>

read_conndata(c) ==
  /\ client[c] = "online"
  /\ Receives(c)
  /\ shown' = [shown EXCEPT ![c] =
       @ \cup {[author |-> m.conn, name |-> m.to] : m \in {Head(toClient[c])} \ {Junk}}]
  /\ UNCHANGED <<serverside, toServer, client, key_public, sent>>

\* The user closes the program, or the connection fails.
Leave(c) ==
  /\ c \in Leavers /\ client[c] \notin {"off", "ended"}
  /\ Ends(c, toClient[c])
  /\ UNCHANGED <<serverside, toServer, sent, shown>>

ClientRuns(c) ==
  RecvPub(c) \/ RecvMod(c) \/ ClientCrashes(c) \/ SendLogin(c) \/ RecvReply(c) \/ read_conndata(c)

-----------------------------------------------------------------------------
Next ==
  /\ ~crashed
  /\ \/ \E t \in Conns : init_client_conn(t)
     \/ read_clients
     \/ \E c \in Conns : Connect(c) \/ ClientRuns(c) \/ Leave(c) \/ \E name \in Conns : write_conndata(c, name)

Spec == Init /\ [][Next]_vars

\* Every thread of the server runs as long as the registry is whole, every
\* client reads what it is sent, and the user at the prompt types a username.
\* Nobody has to connect, to write or to leave.
Fairness ==
  /\ \A t \in Conns : WF_vars(~crashed /\ ~raced /\ init_client_conn(t))
  /\ WF_vars(~crashed /\ ~raced /\ read_clients)
  /\ \A c \in Conns : WF_vars(~crashed /\ ClientRuns(c))
FairSpec == Spec /\ Fairness

-----------------------------------------------------------------------------
Labels ==
  {"none", "clear_pub", "export_pub", "send_pub", "clear_mod", "export_mod", "send_mod",
   "clear_key", "recv_key", "take_key", "clear_aes", "export_aes", "aes_init",
   "clear_login", "recv_login", "decrypt_login", "split", "find", "add_user", "add_end", "done", "closed"}
ReaderLabels == {"select", "recv_message", "decrypt_message", "forward", "disconnect_end"}
ClientLabels == {"off", "recv_pub", "recv_mod", "login", "recv_reply", "online", "ended"}
Kinds == Numbers \cup
  {"junk", "login", "name", "message", "text", "delivery", "success", "refused"}
Contents == [kind : Kinds, conn : Conns \cup {NULL}, to : Conns \cup {NULL, Odd}, sized : BOOLEAN]

\* The type invariant.
TypeOK ==
  /\ buffer \in Contents
  /\ pc \in [Users -> Labels \cup ReaderLabels]
  /\ pc[Reader] \in ReaderLabels /\ \A t \in Conns : pc[t] \in Labels
  /\ secret \in [Conns -> Conns \cup {NULL}]
  /\ key \in [Conns -> Conns \cup {NULL}]
  /\ user \in [Conns -> Conns \cup {NULL, Odd}]
  /\ at \in Conns \cup {NULL}
  /\ toClient \in [Conns -> Seq(Contents)]
  /\ toServer \in [Conns -> Seq(Contents)]
  /\ client \in [Conns -> ClientLabels]
  /\ key_public \in [Conns -> Contents]
  /\ sent \in [Conns -> 0 .. MAX_MESSAGES]
  /\ shown \in [Conns -> SUBSET [author : Conns \cup {NULL}, name : Conns \cup {NULL, Odd}]]
  /\ disturbed \in [Users -> BOOLEAN]
  /\ raced \in BOOLEAN /\ crashed \in BOOLEAN

\* The steps before a login has been received, and those after its username was read.
Waiting == {"clear_login", "recv_login"}
Named == {"find", "add_user", "add_end", "done"}
Keyed(t) == pc[t] \in Waiting \cup {"decrypt_login", "split", "closed"} \cup Named

\* The server keeps the key that the client made, unless another thread has
\* written the buffer between a write and the read that relies on it
\* (main.c:363-364, 368-369, 376-387 and 393-397).  Where the client has left before
\* it sent its key, the server takes one from whatever the buffer holds
\* (main.c:376), and that key never serves for a login.
KeyAgreement == \A t \in Conns : Keyed(t) =>
  \/ key[t] = t \/ disturbed[t]
  \/ Hangup(t) /\ pc[t] \in Waiting \cup {"closed"}

\* Under the same condition, extended to main.c:267-277, the server knows a client
\* by the name it gave.
NamesKept == \A t \in Conns : InTable(t) => user[t] = t \/ disturbed[t]

\* What a client prints as from somebody was written by them, unless the login of
\* the author was disturbed: a reader that is disturbed itself loses messages but
\* never mistakes their author (main.c:103-140).
Attribution == \A c \in Conns : \A m \in shown[c] :
  m.author \in Conns /\ (m.name = m.author \/ disturbed[m.author])

-----------------------------------------------------------------------------
(* The inductive invariant                                                 *)

Pub(t) == Content("pub", t, NULL, TRUE)
Mod(t) == Content("mod", t, NULL, TRUE)
Wrapped(t) == Content("wrapped", t, t, TRUE)
Login(t) == Content("login", t, NULL, FALSE)
Success == Content("success", NULL, NULL, FALSE)
Refused == Content("refused", NULL, NULL, FALSE)

\* Where the client of t is, and the frames under way to it and from it; or what
\* it has left behind.
Wire(t, label, down, up) == client[t] = label /\ toClient[t] = down /\ toServer[t] = up
Left(t, ups) == client[t] = "ended" /\ toServer[t] \in ups

Exchanging == {"take_key", "clear_aes", "export_aes", "aes_init"}

\* How far the two programs can be apart, step by step of the login thread.
Handshake(t) ==
  /\ pc[t] = "none" => Wire(t, "off", <<>>, <<>>)
  /\ pc[t] \in {"clear_pub", "export_pub", "send_pub"} =>
       Wire(t, "recv_pub", <<>>, <<>>) \/ Left(t, {<<>>})
  /\ pc[t] \in {"clear_mod", "export_mod", "send_mod"} =>
       \/ Wire(t, "recv_pub", <<Pub(t)>>, <<>>)
       \/ Wire(t, "recv_mod", <<>>, <<>>) /\ key_public[t] = Pub(t)
       \/ Left(t, {<<>>})
  /\ pc[t] \in {"clear_key", "recv_key"} =>
       \/ Wire(t, "recv_pub", <<Pub(t), Mod(t)>>, <<>>)
       \/ Wire(t, "recv_mod", <<Mod(t)>>, <<>>) /\ key_public[t] = Pub(t)
       \/ Wire(t, "login", <<>>, <<Wrapped(t)>>)
       \/ Wire(t, "recv_reply", <<>>, <<Wrapped(t), Login(t)>>)
       \/ Left(t, {<<>>, <<Wrapped(t)>>, <<Wrapped(t), Login(t)>>})
  /\ pc[t] \in Exchanging \cup Waiting =>
       \/ Wire(t, "login", <<>>, <<>>)
       \/ Wire(t, "recv_reply", <<>>, <<Login(t)>>)
       \/ Wire(t, "recv_reply", <<Refused>>, <<>>)
       \/ Left(t, {<<>>, <<Login(t)>>})
  /\ pc[t] \in {"decrypt_login", "split", "find"} =>
       Wire(t, "recv_reply", <<>>, <<>>) \/ Left(t, {<<>>})

\* What the buffer holds where t relies on it.
Buffered(t) ==
  /\ pc[t] = "send_pub" => buffer = Pub(t)
  /\ pc[t] = "send_mod" => buffer = Mod(t)
  /\ pc[t] = "take_key" => buffer = Wrapped(t) \/ Hangup(t)
  /\ pc[t] = "aes_init" => (buffer.kind = "key" /\ buffer.conn = t) \/ Hangup(t)
  /\ pc[t] = "decrypt_login" => buffer.kind = "login" /\ buffer.conn = t
  /\ pc[t] = "split" => buffer.kind = "name" /\ buffer.conn = t

Kept(t) ==
  /\ pc[t] \in Exchanging \ {"take_key"} => secret[t] = t \/ Hangup(t)
  /\ Keyed(t) => key[t] = t \/ (Hangup(t) /\ pc[t] \in Waiting \cup {"closed"})
  /\ pc[t] \in Named => user[t] = t

\* Everything is as intended for a thread whose buffer nobody has written.
ExchangeInv == \A t \in Conns : ~disturbed[t] => Handshake(t) /\ Buffered(t) /\ Kept(t)

LoggedIn == {"add_user", "add_end", "done"}

\* Success and messages come after the login, a message under way is its
\* client's own, and a connection is closed only when its client has ended.
LoginInv ==
  /\ buffer.kind # "success"
  /\ \A t \in Conns :
       /\ client[t] = "online" => pc[t] \in LoggedIn
       /\ pc[t] = "closed" => Hangup(t)
       /\ \A i \in 1 .. Len(toClient[t]) :
            toClient[t][i].kind = "success" => pc[t] \in LoggedIn \cup {"closed"}
       /\ \A i \in 1 .. Len(toServer[t]) :
            LET m == toServer[t][i]
            IN /\ m.kind \notin {"text", "success"}
               /\ m.kind = "message" => m.conn = t /\ m.to \in Conns /\ pc[t] \in LoggedIn

\* The reader has a user with a frame or at its end, and whatever message or
\* text is in the buffer in its loop body is of that user.
ReaderInv == pc[Reader] # "select" =>
  /\ at \in Conns /\ pc[at] = "done"
  /\ pc[Reader] = "recv_message" => toServer[at] # <<>> \/ Hangup(at)
  /\ pc[Reader] = "disconnect_end" => Hangup(at)
  /\ buffer.kind \in {"message", "text"} => buffer.conn = at /\ buffer.to \in Conns

\* A frame that is printed as from the user who wrote it, or not at all.
Attributed(m) ==
  m = Junk \/ (m.conn \in Conns /\ (m.to = m.conn \/ disturbed[m.conn]))

\* Whatever follows success on the way to a client can be printed.
DeliveryInv == \A c \in Conns :
  /\ client[c] = "online" => \A i \in 1 .. Len(toClient[c]) : Attributed(toClient[c][i])
  /\ \A i, j \in 1 .. Len(toClient[c]) :
       i < j /\ toClient[c][i].kind = "success" => Attributed(toClient[c][j])

\* KeyAgreement and NamesKept need the place of both programs in the protocol and
\* the contents of the frames under way; Attribution needs NamesKept for the name
\* that the reader puts in front of a message.
IInv == TypeOK /\ ExchangeInv /\ LoginInv /\ ReaderInv /\ DeliveryInv /\ Attribution

-----------------------------------------------------------------------------
(* Liveness                                                                *)

\* A client that is connected and not logged in, unless its key exchange or its login
\* was disturbed, somebody else's was and took its name, or updates of the registry
\* overlapped.
Waits(c) ==
  /\ client[c] \notin {"off", "online", "ended"}
  /\ ~disturbed[c] /\ ~raced /\ ~crashed
  /\ \A t \in Conns \ {c} : user[t] # c

\* Every client that connects and stays gets its login answered with success, all of
\* them in the end: the two programs never wait for each other (main.c:344-406 and
\* 250-336, client main.c:191-289).
LoginCompletes == (\E c \in Conns : Waits(c)) ~> (\A c \in Conns : ~Waits(c))

\* A message for another user who is logged in, and stays, is printed there, its writer
\* having left or not, unless one of the two logins or the reader was disturbed,
\* somebody else has the name as well, or an update of the registry met another or
\* hid the user (main.c:96-140, client main.c:101-107).
MessagesArrive == \A c \in Conns : \A d \in Conns \ {c} :
  (d \in Registered(d) /\ \E i \in DOMAIN toServer[c] : toServer[c][i] = Content("message", c, d, TRUE))
    ~> ([author |-> c, name |-> c] \in shown[d] \/ client[d] = "ended"
          \/ disturbed[c] \/ disturbed[d] \/ disturbed[Reader]
          \/ Registered(d) \ {d} # {} \/ raced \/ crashed)
=============================================================================
