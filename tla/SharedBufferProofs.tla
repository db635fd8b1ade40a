--------------------------- MODULE SharedBufferProofs ---------------------------
(***************************************************************************)
(* KeyAgreement, NamesKept and Attribution hold for any number of          *)
(* connections and messages.  A step of one thread leaves another as it    *)
(* was or disturbs it (Bystander), so that the exchange of a thread has to *)
(* be followed only through its own steps and those of its client.         *)
(***************************************************************************)
EXTENDS SharedBuffer, SequenceTheorems, TLAPS

-----------------------------------------------------------------------------
(* Sequences and contents                                                  *)

LEMMA OneAndTwo ==
  ASSUME NEW S, NEW a \in S, NEW b \in S
  PROVE  /\ Append(<<>>, a) = <<a>>
         /\ Append(<<a>>, b) = <<a, b>>
         /\ Head(<<a>>) = a /\ Tail(<<a>>) = <<>>
         /\ Head(<<a, b>>) = a /\ Tail(<<a, b>>) = <<b>>
         /\ <<a>> # <<>> /\ <<a, b>> # <<>>
<1> DEFINE s == <<a>>
<1>1. s \in Seq(S) /\ Len(s) = 1 /\ s[1] = a
  OBVIOUS
<1>2. Append(s, b) = [i \in 1 .. 2 |-> IF i = 2 THEN b ELSE s[i]]
  BY <1>1
<1>3. [i \in 1 .. 2 |-> IF i = 2 THEN b ELSE s[i]] = <<a, b>>
  BY <1>1
<1>4. Append(<<a>>, b) = <<a, b>>
  BY <1>2, <1>3
<1> QED
  BY <1>4

LEMMA AppendedTo ==
  ASSUME NEW S, NEW s \in Seq(S), NEW a \in S
  PROVE  /\ Append(s, a) \in Seq(S)
         /\ Len(s) \in Nat /\ Len(Append(s, a)) = Len(s) + 1
         /\ \A i \in 1 .. Len(s) + 1 : Append(s, a)[i] = IF i = Len(s) + 1 THEN a ELSE s[i]
OBVIOUS

LEMMA TakenFrom ==
  ASSUME NEW S, NEW s \in Seq(S), s # <<>>
  PROVE  /\ Head(s) \in S /\ Head(s) = s[1]
         /\ Tail(s) \in Seq(S)
         /\ Len(s) \in Nat /\ Len(Tail(s)) = Len(s) - 1 /\ 1 \in 1 .. Len(s)
         /\ \A i \in 1 .. Len(s) - 1 : Tail(s)[i] = s[i + 1] /\ i + 1 \in 1 .. Len(s)
OBVIOUS

\* Every frame that is written is a content.
LEMMA FramesAreContents ==
  /\ Zero \in Contents /\ Junk \in Contents /\ Success \in Contents /\ Refused \in Contents
  /\ \A t \in Conns :
       /\ Pub(t) \in Contents /\ Mod(t) \in Contents /\ Wrapped(t) \in Contents /\ Login(t) \in Contents
       /\ \A d \in Conns : Content("message", t, d, TRUE) \in Contents
  /\ \A k \in Conns \cup {NULL} : Content("key", k, NULL, FALSE) \in Contents
  /\ \A k \in Conns \cup {NULL}, name \in Conns \cup {NULL, Odd} :
       Content("delivery", k, name, FALSE) \in Contents
BY DEF Zero, Junk, Success, Refused, Pub, Mod, Wrapped, Login, Content, Contents, Kinds, Numbers

LEMMA ConversionsAreTyped ==
  ASSUME NEW c \in Contents
  PROVE  /\ AsNumber(c) \in Contents
         /\ \A k \in Conns \cup {NULL} : aes_cbc_decrypt(c, k) \in Contents
         /\ \A t \in Conns : rsa_decrypt(c, t) \in Conns \cup {NULL}
         /\ \A t \in Conns, pub \in Contents : rsa_encrypt(t, pub, c) \in Contents
         /\ c.conn \in Conns \cup {NULL} /\ c.to \in Conns \cup {NULL, Odd}
         /\ \A b \in BOOLEAN : [c EXCEPT !.sized = b] \in Contents
<1>1. AsNumber(c) \in Contents
  BY FramesAreContents DEF AsNumber
<1>2. \A k \in Conns \cup {NULL} : aes_cbc_decrypt(c, k) \in Contents
  BY FramesAreContents DEF aes_cbc_decrypt, Content, Contents, Kinds, Numbers
<1>3. \A t \in Conns : rsa_decrypt(c, t) \in Conns \cup {NULL}
  BY DEF rsa_decrypt, Contents
<1>4. \A t \in Conns, pub \in Contents : rsa_encrypt(t, pub, c) \in Contents
  <2> SUFFICES ASSUME NEW t \in Conns, NEW pub \in Contents PROVE rsa_encrypt(t, pub, c) \in Contents
    OBVIOUS
  <2> DEFINE to == IF pub.kind = "pub" /\ c.kind = "mod" /\ pub.conn = c.conn THEN pub.conn ELSE NULL
  <2>1. to \in Conns \cup {NULL}
    BY DEF Contents
  <2> HIDE DEF to
  <2>2. Content("wrapped", t, to, TRUE) \in Contents
    BY <2>1 DEF Content, Contents, Kinds, Numbers
  <2> QED
    BY <2>2 DEF rsa_encrypt, to
<1>5. c.conn \in Conns \cup {NULL} /\ c.to \in Conns \cup {NULL, Odd}
  BY DEF Contents
<1>6. \A b \in BOOLEAN : [c EXCEPT !.sized = b] \in Contents
  BY DEF Contents
<1> QED
  BY <1>1, <1>2, <1>3, <1>4, <1>5, <1>6

\* A decrypted content is a text only where a message of the key's owner was, and
\* of the name of the owner only where its login was.
LEMMA Decrypted ==
  ASSUME NEW c \in Contents, NEW k \in Conns \cup {NULL}
  PROVE  LET d == aes_cbc_decrypt(c, k)
         IN /\ d.kind \notin {"message", "success"}
            /\ d.kind = "text" => c.kind = "message" /\ d.conn = c.conn /\ d.to = c.to
            /\ c.kind = "login" /\ c.conn = k => d.kind = "name" /\ d.conn = k
BY DEF aes_cbc_decrypt, Content, Junk

-----------------------------------------------------------------------------
(* Types                                                                   *)

LEMMA InitTypes == Init => TypeOK
<1> SUFFICES ASSUME Init PROVE TypeOK
  OBVIOUS
<1>1. pc \in [Users -> Labels \cup ReaderLabels] /\ pc[Reader] = "select" /\ \A t \in Conns : pc[t] = "none"
  BY ConnsAssumption DEF Init, Users, Labels, ReaderLabels
<1>2. toClient \in [Conns -> Seq(Contents)] /\ toServer \in [Conns -> Seq(Contents)]
  BY DEF Init
<1>3. buffer \in Contents /\ key_public \in [Conns -> Contents]
  BY FramesAreContents DEF Init
<1>4. sent \in [Conns -> 0 .. MAX_MESSAGES] /\ client \in [Conns -> ClientLabels]
  BY MessagesAssumption DEF Init, ClientLabels
<1>5. /\ secret \in [Conns -> Conns \cup {NULL}] /\ key \in [Conns -> Conns \cup {NULL}]
      /\ user \in [Conns -> Conns \cup {NULL, Odd}] /\ at \in Conns \cup {NULL}
      /\ shown \in [Conns -> SUBSET [author : Conns \cup {NULL}, name : Conns \cup {NULL, Odd}]]
      /\ disturbed \in [Users -> BOOLEAN] /\ raced \in BOOLEAN /\ crashed \in BOOLEAN
  BY DEF Init
<1> QED
  BY <1>1, <1>2, <1>3, <1>4, <1>5 DEF TypeOK, Labels, ReaderLabels

LEMMA Stepped ==
  ASSUME TypeOK, NEW u \in Users, NEW from, NEW to \in Labels \cup ReaderLabels, Step(u, from, to),
         u = Reader => to \in ReaderLabels, u \in Conns => to \in Labels
  PROVE  /\ pc' \in [Users -> Labels \cup ReaderLabels]
         /\ pc'[Reader] \in ReaderLabels /\ \A t \in Conns : pc'[t] \in Labels
         /\ pc[u] = from /\ pc'[u] = to /\ \A w \in Users \ {u} : pc'[w] = pc[w]
BY ConnsAssumption DEF Step, TypeOK, Users

LEMMA Written ==
  ASSUME TypeOK, NEW u \in Users, NEW c \in Contents, Write(u, c)
  PROVE  buffer' \in Contents /\ disturbed' \in [Users -> BOOLEAN]
BY DEF Write, TypeOK

LEMMA WireTypes ==
  ASSUME TypeOK, NEW t \in Conns
  PROVE  /\ \A c \in Contents :
              /\ [toClient EXCEPT ![t] = Append(@, c)] \in [Conns -> Seq(Contents)]
              /\ [toServer EXCEPT ![t] = Append(@, c)] \in [Conns -> Seq(Contents)]
         /\ toClient[t] # <<>> =>
              /\ Head(toClient[t]) \in Contents
              /\ [toClient EXCEPT ![t] = Tail(@)] \in [Conns -> Seq(Contents)]
         /\ toServer[t] # <<>> =>
              /\ Head(toServer[t]) \in Contents
              /\ [toServer EXCEPT ![t] = Tail(@)] \in [Conns -> Seq(Contents)]
<1>1. toClient[t] \in Seq(Contents) /\ toServer[t] \in Seq(Contents)
  BY DEF TypeOK
<1>2. \A c \in Contents : Append(toClient[t], c) \in Seq(Contents) /\ Append(toServer[t], c) \in Seq(Contents)
  BY <1>1, AppendedTo
<1>3. toClient[t] # <<>> => Head(toClient[t]) \in Contents /\ Tail(toClient[t]) \in Seq(Contents)
  BY <1>1, TakenFrom
<1>4. toServer[t] # <<>> => Head(toServer[t]) \in Contents /\ Tail(toServer[t]) \in Seq(Contents)
  BY <1>1, TakenFrom
<1> QED
  BY <1>2, <1>3, <1>4 DEF TypeOK

LEMMA UnreadIsJunk == Unread \in Seq(Contents) /\ Len(Unread) = 1 /\ Unread[1] = Junk
BY FramesAreContents DEF Unread

\* What is sent to a client is appended to its frames, or left unread.
LEMMA SentTo ==
  ASSUME TypeOK, NEW u \in Conns, NEW m \in Contents, Send(u, m)
  PROVE  /\ toClient' \in [Conns -> Seq(Contents)]
         /\ toClient'[u] = IF client[u] = "ended" THEN Unread ELSE Append(toClient[u], m)
         /\ \A t \in Conns : t # u => toClient'[t] = toClient[t]
<1>1. toClient[u] \in Seq(Contents) /\ toClient \in [Conns -> Seq(Contents)]
  BY DEF TypeOK
<1>2. Append(toClient[u], m) \in Seq(Contents) /\ Unread \in Seq(Contents)
  BY <1>1, AppendedTo, UnreadIsJunk
<1> QED
  BY <1>1, <1>2 DEF Send

LEMMA Ended ==
  ASSUME TypeOK, NEW c \in Conns, NEW frames, Ends(c, frames)
  PROVE  /\ client' \in [Conns -> ClientLabels] /\ toClient' \in [Conns -> Seq(Contents)]
         /\ key_public' \in [Conns -> Contents]
         /\ client'[c] = "ended" /\ toClient'[c] \in {<<>>, Unread}
         /\ \A t \in Conns : t # c =>
              client'[t] = client[t] /\ toClient'[t] = toClient[t] /\ key_public'[t] = key_public[t]
<1> DEFINE q == IF frames = <<>> THEN <<>> ELSE Unread
<1>1. q \in Seq(Contents) /\ q \in {<<>>, Unread}
  BY UnreadIsJunk
<1>2. toClient' = [toClient EXCEPT ![c] = q]
  BY DEF Ends
<1> HIDE DEF q
<1>3. toClient' \in [Conns -> Seq(Contents)] /\ toClient'[c] = q /\ \A t \in Conns : t # c => toClient'[t] = toClient[t]
  BY <1>1, <1>2 DEF TypeOK
<1> QED
  BY <1>1, <1>3, FramesAreContents DEF Ends, TypeOK, ClientLabels

LEMMA LoginThreadTypes ==
  ASSUME TypeOK, NEW t \in Conns, init_client_conn(t)
  PROVE  TypeOK'
<1> USE DEF TypeOK, clientside
<1>0. t \in Users /\ t # Reader
  BY ConnsAssumption DEF Users
<1>1. CASE Clear(t)
  BY <1>0, <1>1, Stepped, Written, FramesAreContents DEF Clear, Labels
<1>2. CASE ExportRsa(t)
  BY <1>0, <1>2, Stepped, Written, FramesAreContents DEF ExportRsa, Labels, Pub, Mod
<1>3. CASE SendRsa(t)
  BY <1>0, <1>3, Stepped, SentTo DEF SendRsa, Labels
<1>4. CASE Dies
  BY <1>4 DEF Dies
<1>5. CASE RecvKey(t)
  <2>1. /\ buffer' \in Contents /\ disturbed' \in [Users -> BOOLEAN]
        /\ toServer' \in [Conns -> Seq(Contents)]
    <3>1. CASE Hangup(t) /\ UNCHANGED <<buffer, disturbed, toServer>>
      BY <3>1
    <3>2. CASE /\ toServer[t] # <<>> /\ Write(t, Head(toServer[t]))
               /\ toServer' = [toServer EXCEPT ![t] = Tail(@)]
      BY <1>0, <3>2, Written, WireTypes
    <3> QED
      BY <1>5, <3>1, <3>2 DEF RecvKey
  <2> QED
    BY <1>0, <1>5, <2>1, Stepped DEF RecvKey, Labels
<1>6. CASE TakeKey(t)
  BY <1>0, <1>6, Stepped, Written, ConversionsAreTyped DEF TakeKey, Labels
<1>7. CASE ExportAes(t)
  BY <1>0, <1>7, Stepped, Written, FramesAreContents DEF ExportAes, Labels
<1>8. CASE aes_init(t)
  BY <1>0, <1>8, Stepped, ConversionsAreTyped DEF aes_init, Labels
<1>9. CASE RecvLogin(t)
  BY <1>0, <1>9, Stepped, Written, WireTypes, ConversionsAreTyped DEF RecvLogin, Labels, Contents
<1>10. CASE LoginEof(t) \/ DecryptLogin(t)
  BY <1>0, <1>10, Stepped, Written, ConversionsAreTyped DEF LoginEof, DecryptLogin, Labels
<1>11. CASE SplitLogin(t)
  <2>1. user' \in [Conns -> Conns \cup {NULL, Odd}]
    BY <1>11, ConversionsAreTyped DEF SplitLogin
  <2> QED
    BY <1>0, <1>11, <2>1, Stepped DEF SplitLogin, Labels
<1>12. CASE LoginAccepted(t)
  <2>1. toClient' \in [Conns -> Seq(Contents)]
    BY <1>12, SentTo, FramesAreContents DEF LoginAccepted, Success
  <2> QED
    BY <1>0, <1>12, <2>1, Stepped DEF LoginAccepted, Labels
<1>13. CASE LoginRefused(t)
  <2>1. toClient' \in [Conns -> Seq(Contents)]
    BY <1>13, SentTo, FramesAreContents DEF LoginRefused, Refused
  <2>2. user' \in [Conns -> Conns \cup {NULL, Odd}]
    BY <1>13 DEF LoginRefused
  <2> QED
    BY <1>0, <1>13, <2>1, <2>2, Stepped DEF LoginRefused, Labels
<1>14. CASE add_user(t)
  BY <1>0, <1>14, Stepped DEF add_user, Labels
<1> QED
  BY <1>1, <1>2, <1>3, <1>4, <1>5, <1>6, <1>7, <1>8, <1>9, <1>10, <1>11, <1>12, <1>13, <1>14
  DEF init_client_conn, SendBreaks, TakeKeyCrashes, RegistryBreaks

LEMMA ReaderTypes ==
  ASSUME TypeOK, ReaderInv, read_clients
  PROVE  TypeOK'
<1> USE DEF TypeOK, clientside
<1>0. Reader \in Users /\ Reader \notin Conns
  BY ConnsAssumption DEF Users
<1>1. ASSUME NEW t \in Conns, Select(t) PROVE TypeOK'
  BY <1>0, <1>1, Stepped, Written, FramesAreContents DEF Select, ReaderLabels
<1>2. CASE RecvMessage
  <2>1. at \in Conns /\ toServer[at] # <<>>
    BY <1>2 DEF ReaderInv, RecvMessage, Step
  <2>2. buffer' \in Contents /\ disturbed' \in [Users -> BOOLEAN] /\ toServer' \in [Conns -> Seq(Contents)]
    BY <1>0, <1>2, <2>1, Written, WireTypes DEF RecvMessage
  <2> QED
    BY <1>0, <1>2, <2>2, Stepped DEF RecvMessage, ReaderLabels
<1>3. CASE DecryptMessage
  <2>1. at \in Conns
    BY <1>3 DEF ReaderInv, DecryptMessage, Step
  <2>2. buffer' \in Contents /\ disturbed' \in [Users -> BOOLEAN]
    BY <1>0, <1>3, <2>1, Written, ConversionsAreTyped DEF DecryptMessage
  <2> QED
    BY <1>0, <1>3, <2>2, Stepped DEF DecryptMessage, ReaderLabels
<1>4. CASE Forward
  <2>1. at \in Conns
    BY <1>4 DEF ReaderInv, Forward, ForwardTo, Step
  <2>2. Content("delivery", buffer.conn, user[at], FALSE) \in Contents /\ Junk \in Contents
    BY <2>1, FramesAreContents, ConversionsAreTyped
  <2>3. toClient' \in [Conns -> Seq(Contents)]
    <3>1. CASE UNCHANGED toClient
      BY <3>1
    <3>2. ASSUME NEW u \in Conns, NEW m \in Contents, Send(u, m) PROVE toClient' \in [Conns -> Seq(Contents)]
      BY <3>2, SentTo
    <3>3. UNCHANGED toClient \/ \E u \in Conns, m \in Contents : Send(u, m)
      BY <1>4, <2>2 DEF Forward, ForwardTo, Deliver, Registered
    <3> QED
      BY <3>1, <3>2, <3>3
  <2>4. raced' \in BOOLEAN
    BY <1>4 DEF Forward, ForwardTo
  <2> QED
    BY <1>0, <1>4, <2>3, <2>4, Stepped DEF Forward, ForwardTo, ReaderLabels
<1>5. CASE disconnect_client_index
  <2>1. CASE Step(Reader, "recv_message", "disconnect_end")
    BY <1>0, <1>5, <2>1, Stepped DEF disconnect_client_index, Step, ReaderLabels
  <2>2. CASE pc[Reader] = "disconnect_end"
    <3>1. at \in Conns /\ at # Reader
      BY <1>0, <2>2 DEF ReaderInv
    <3>2. pc' = [pc EXCEPT ![Reader] = "select", ![at] = "closed"] /\ user' = [user EXCEPT ![at] = NULL]
      BY <1>5, <2>2 DEF disconnect_client_index, Step
    <3>3. /\ pc' \in [Users -> Labels \cup ReaderLabels] /\ pc'[Reader] \in ReaderLabels
          /\ \A t \in Conns : pc'[t] \in Labels
      <4>1. "select" \in ReaderLabels /\ "closed" \in Labels
        BY DEF Labels, ReaderLabels
      <4>2. pc'[Reader] = "select" /\ pc'[at] = "closed" /\ \A t \in Conns \ {at} : pc'[t] = pc[t]
        BY <1>0, <3>1, <3>2 DEF Users
      <4> QED
        BY <1>0, <3>1, <3>2, <4>1, <4>2 DEF Users
    <3> QED
      BY <1>5, <2>2, <3>2, <3>3 DEF disconnect_client_index, Step
  <2> QED
    BY <1>5, <2>1, <2>2 DEF disconnect_client_index
<1>6. CASE Dies
  BY <1>6 DEF Dies
<1> QED
  BY <1>1, <1>2, <1>3, <1>4, <1>5, <1>6 DEF read_clients, ForwardBreaks, RegistryBreaks

ClientActs(c) == Connect(c) \/ ClientRuns(c) \/ Leave(c) \/ \E name \in Conns : write_conndata(c, name)

LEMMA ClientTypes ==
  ASSUME TypeOK, NEW c \in Conns, ClientActs(c)
  PROVE  TypeOK'
<1> USE DEF TypeOK, serverside, Goes
<1>0. c \in Users /\ c # Reader
  BY ConnsAssumption DEF Users
<1>1. CASE Connect(c)
  BY <1>0, <1>1, Stepped DEF Connect, Labels, ClientLabels
<1>2. CASE RecvPub(c)
  BY <1>2, WireTypes, ConversionsAreTyped DEF RecvPub, Receives, ClientLabels
<1>3. CASE RecvMod(c)
  <2>1. toClient' \in [Conns -> Seq(Contents)] /\ AsNumber(Head(toClient[c])) \in Contents
    BY <1>3, WireTypes, ConversionsAreTyped DEF RecvMod, Receives
  <2>2. rsa_encrypt(c, key_public[c], AsNumber(Head(toClient[c]))) \in Contents
    BY <2>1, ConversionsAreTyped
  <2>3. toServer' \in [Conns -> Seq(Contents)]
    BY <1>3, <2>2, WireTypes DEF RecvMod, Sends
  <2> QED
    BY <1>3, <2>1, <2>3, FramesAreContents DEF RecvMod, ClientLabels
<1>4. CASE ClientCrashes(c)
  BY <1>4, Ended DEF ClientCrashes
<1>5. CASE SendLogin(c)
  BY <1>5, WireTypes, FramesAreContents DEF SendLogin, Sends, Login, ClientLabels
<1>6. CASE RecvReply(c)
  BY <1>6, WireTypes DEF RecvReply, Receives, ClientLabels
<1>7. CASE read_conndata(c)
  <2>1. Head(toClient[c]) \in Contents /\ toClient' \in [Conns -> Seq(Contents)]
    BY <1>7, WireTypes DEF read_conndata, Receives
  <2>2. {[author |-> m.conn, name |-> m.to] : m \in {Head(toClient[c])} \ {Junk}}
          \subseteq [author : Conns \cup {NULL}, name : Conns \cup {NULL, Odd}]
    BY <2>1, ConversionsAreTyped
  <2> QED
    BY <1>7, <2>1, <2>2 DEF read_conndata
<1>8. ASSUME NEW name \in Conns, write_conndata(c, name) PROVE TypeOK'
  <2>1. toServer' \in [Conns -> Seq(Contents)]
    BY <1>8, WireTypes, FramesAreContents DEF write_conndata, Sends
  <2>2. sent' \in [Conns -> 0 .. MAX_MESSAGES]
    BY <1>8, MessagesAssumption DEF write_conndata
  <2> QED
    BY <1>8, <2>1, <2>2 DEF write_conndata
<1>9. CASE Leave(c)
  BY <1>9, Ended DEF Leave
<1> QED
  BY <1>1, <1>2, <1>3, <1>4, <1>5, <1>6, <1>7, <1>8, <1>9 DEF ClientActs, ClientRuns

\* Every step belongs to a login thread, the reader or a client.
LEMMA StepCases ==
  ASSUME [Next]_vars
  PROVE  \/ UNCHANGED vars
         \/ \E t \in Conns : init_client_conn(t)
         \/ read_clients
         \/ \E c \in Conns : ClientActs(c)
BY DEF Next, ClientActs

LEMMA TypeStep ==
  ASSUME TypeOK, ReaderInv, [Next]_vars
  PROVE  TypeOK'
<1>1. CASE UNCHANGED vars
  BY <1>1 DEF TypeOK, vars, serverside, clientside
<1> QED
  BY <1>1, StepCases, LoginThreadTypes, ReaderTypes, ClientTypes

-----------------------------------------------------------------------------
(* The exchange and the login of a thread that is not disturbed            *)

\* Who has left and has nothing under way stays so.
LEMMA HangupLasts ==
  ASSUME TypeOK, [Next]_vars, NEW t \in Conns, Hangup(t)
  PROVE  Hangup(t)'
<1> USE DEF Hangup, TypeOK
<1>1. CASE UNCHANGED vars
  BY <1>1 DEF vars, clientside, serverside
<1>2. ASSUME NEW u \in Conns, init_client_conn(u) PROVE Hangup(t)'
  BY <1>2 DEF init_client_conn, Clear, ExportRsa, SendRsa, SendBreaks, RecvKey, TakeKey, TakeKeyCrashes,
    ExportAes, aes_init, RecvLogin, LoginEof, DecryptLogin, SplitLogin, LoginAccepted, LoginRefused,
    add_user, RegistryBreaks, Dies, clientside
<1>3. CASE read_clients
  BY <1>3 DEF read_clients, Select, RecvMessage, disconnect_client_index, DecryptMessage, Forward,
    ForwardTo, ForwardBreaks, RegistryBreaks, Dies, clientside
<1>4. ASSUME NEW c \in Conns, ClientActs(c) PROVE Hangup(t)'
  BY <1>4 DEF ClientActs, ClientRuns, Connect, RecvPub, RecvMod, ClientCrashes, SendLogin, RecvReply,
    read_conndata, write_conndata, Leave, Ends, Goes, Sends, serverside
<1> QED
  BY <1>1, <1>2, <1>3, <1>4, StepCases

Own(t) == ~disturbed[t] => Handshake(t) /\ Buffered(t) /\ Kept(t)

\* Nothing of t changes, but the buffer where t does not rely on it.
Bystander(t) ==
  /\ pc'[t] = pc[t] /\ secret'[t] = secret[t] /\ key'[t] = key[t] /\ user'[t] = user[t]
  /\ client'[t] = client[t] /\ key_public'[t] = key_public[t]
  /\ toClient'[t] = toClient[t] /\ toServer'[t] = toServer[t]
  /\ disturbed[t] => disturbed'[t]
  /\ UNCHANGED buffer \/ (Exposed(t) => disturbed'[t])

LEMMA BystanderKeeps ==
  ASSUME NEW t \in Conns, Own(t), Bystander(t)
  PROVE  Own(t)'
<1> SUFFICES ASSUME ~disturbed'[t] PROVE Handshake(t)' /\ Buffered(t)' /\ Kept(t)'
  BY DEF Own
<1> USE DEF Bystander
<1>1. Handshake(t) /\ Buffered(t) /\ Kept(t)
  BY DEF Own
<1>2. Handshake(t)'
  BY <1>1 DEF Handshake, Wire, Left, Pub, Mod, Wrapped, Login, Refused, Content
<1>3. Buffered(t)'
  <2>1. CASE UNCHANGED buffer
    BY <1>1, <2>1 DEF Buffered, Hangup, Pub, Mod, Wrapped, Content
  <2>2. CASE ~Exposed(t)
    BY <2>2 DEF Exposed, Buffered
  <2> QED
    BY <2>1, <2>2
<1>4. Kept(t)'
  BY <1>1 DEF Kept, Keyed, Hangup
<1> QED
  BY <1>2, <1>3, <1>4

\* What a write of u does to others.
LEMMA WriteDisturbs ==
  ASSUME TypeOK, NEW u \in Users, NEW c, Write(u, c), NEW w \in Users
  PROVE  /\ disturbed[w] => disturbed'[w]
         /\ w # u /\ Exposed(w) => disturbed'[w]
         /\ w = u => disturbed'[w] = disturbed[w]
         /\ buffer' = c
BY DEF Write, TypeOK

LEMMA OtherLoginThread ==
  ASSUME TypeOK, NEW t \in Conns, NEW u \in Conns, t # u, init_client_conn(u)
  PROVE  Bystander(t)
<1>0. t \in Users /\ u \in Users
  BY DEF Users
<1>1. \A c : Write(u, c) => (disturbed[t] => disturbed'[t]) /\ (Exposed(t) => disturbed'[t])
  BY <1>0, WriteDisturbs
<1> USE DEF TypeOK, clientside, Bystander, Step, Send
<1>2. CASE Clear(u)
  BY <1>0, <1>1, <1>2 DEF Clear
<1>3. CASE ExportRsa(u)
  BY <1>0, <1>1, <1>3 DEF ExportRsa
<1>4. CASE SendRsa(u)
  BY <1>0, <1>4 DEF SendRsa
<1>5. CASE Dies
  BY <1>5 DEF Dies
<1>6. CASE RecvKey(u)
  BY <1>0, <1>1, <1>6 DEF RecvKey
<1>7. CASE TakeKey(u)
  BY <1>0, <1>1, <1>7 DEF TakeKey
<1>8. CASE ExportAes(u)
  BY <1>0, <1>1, <1>8 DEF ExportAes
<1>9. CASE aes_init(u)
  BY <1>0, <1>9 DEF aes_init
<1>10. CASE RecvLogin(u)
  BY <1>0, <1>1, <1>10 DEF RecvLogin
<1>11. CASE LoginEof(u)
  BY <1>0, <1>1, <1>11 DEF LoginEof
<1>12. CASE DecryptLogin(u)
  BY <1>0, <1>1, <1>12 DEF DecryptLogin
<1>13. CASE SplitLogin(u)
  BY <1>0, <1>13 DEF SplitLogin
<1>14. CASE LoginAccepted(u)
  BY <1>0, <1>14 DEF LoginAccepted
<1>15. CASE LoginRefused(u)
  BY <1>0, <1>15 DEF LoginRefused
<1>16. CASE add_user(u)
  BY <1>0, <1>16 DEF add_user
<1> QED
  BY <1>2, <1>3, <1>4, <1>5, <1>6, <1>7, <1>8, <1>9, <1>10, <1>11, <1>12, <1>13, <1>14, <1>15, <1>16
  DEF init_client_conn, SendBreaks, TakeKeyCrashes, RegistryBreaks

LEMMA OtherClient ==
  ASSUME TypeOK, NEW t \in Conns, NEW c \in Conns, t # c, ClientActs(c)
  PROVE  Bystander(t)
<1>0. t \in Users /\ c \in Users
  BY DEF Users
<1> USE DEF TypeOK, serverside, Bystander, Goes, Receives, Sends
<1>1. CASE Connect(c)
  BY <1>0, <1>1 DEF Connect, Step
<1>2. CASE RecvPub(c)
  BY <1>2 DEF RecvPub
<1>3. CASE RecvMod(c)
  BY <1>3 DEF RecvMod
<1>4. CASE ClientCrashes(c)
  BY <1>4 DEF ClientCrashes, Ends
<1>5. CASE SendLogin(c)
  BY <1>5 DEF SendLogin
<1>6. CASE RecvReply(c)
  BY <1>6 DEF RecvReply
<1>7. CASE read_conndata(c)
  BY <1>7 DEF read_conndata
<1>8. ASSUME NEW name \in Conns, write_conndata(c, name) PROVE Bystander(t)
  BY <1>8 DEF write_conndata
<1>9. CASE Leave(c)
  BY <1>9 DEF Leave, Ends
<1> QED
  BY <1>1, <1>2, <1>3, <1>4, <1>5, <1>6, <1>7, <1>8, <1>9 DEF ClientActs, ClientRuns

LEMMA OwnLoginThread ==
  ASSUME TypeOK, [Next]_vars, NEW t \in Conns, Own(t), init_client_conn(t)
  PROVE  Own(t)'
<1>0. t \in Users
  BY DEF Users
<1>1. disturbed'[t] = disturbed[t]
  <2>1. \A c : Write(t, c) => disturbed'[t] = disturbed[t]
    BY <1>0, WriteDisturbs
  <2> QED
    BY <2>1 DEF init_client_conn, Clear, ExportRsa, SendRsa, SendBreaks, RecvKey, TakeKey,
      TakeKeyCrashes, ExportAes, aes_init, RecvLogin, LoginEof, DecryptLogin, SplitLogin,
      LoginAccepted, LoginRefused, add_user, RegistryBreaks, Dies
<1> SUFFICES ASSUME ~disturbed[t] PROVE Handshake(t)' /\ Buffered(t)' /\ Kept(t)'
  BY <1>1 DEF Own
<1>2. Handshake(t) /\ Buffered(t) /\ Kept(t)
  BY DEF Own
<1>3. \A from, to : Step(t, from, to) => pc[t] = from /\ pc'[t] = to
  BY <1>0 DEF Step, TypeOK
<1>4. \A c : Write(t, c) => buffer' = c
  BY DEF Write
<1>h. Hangup(t) => Hangup(t)'
  BY HangupLasts
<1> USE DEF clientside, Exchanging, Waiting, Named
<1>5. CASE Clear(t)
  <2>1. Handshake(t)'
    BY <1>2, <1>3, <1>5 DEF Clear, Handshake, Wire, Left, Pub, Mod, Wrapped, Login, Refused, Content
  <2>2. Buffered(t)' /\ Kept(t)'
    BY <1>h, <1>2, <1>3, <1>5 DEF Clear, Buffered, Kept, Keyed
  <2> QED
    BY <2>1, <2>2
<1>6. CASE ExportRsa(t)
  <2>1. Handshake(t)'
    BY <1>2, <1>3, <1>6 DEF ExportRsa, Handshake, Wire, Left, Pub, Mod, Wrapped, Login, Refused, Content
  <2>2. Buffered(t)' /\ Kept(t)'
    BY <1>h, <1>2, <1>3, <1>4, <1>6 DEF ExportRsa, Buffered, Kept, Keyed, Pub, Mod, Content
  <2> QED
    BY <2>1, <2>2
<1>7. CASE SendRsa(t)
  <2>1. client[t] # "ended" => toClient'[t] = Append(toClient[t], buffer)
    BY <1>7, SentTo DEF SendRsa, TypeOK
  <2>2. Append(<<>>, Pub(t)) = <<Pub(t)>> /\ Append(<<Pub(t)>>, Mod(t)) = <<Pub(t), Mod(t)>>
        /\ Append(<<>>, Mod(t)) = <<Mod(t)>>
    BY FramesAreContents, OneAndTwo
  <2>3. Handshake(t)'
    <3> HIDE DEF Exchanging
    <3>1. CASE Step(t, "send_pub", "clear_mod")
      <4>1. Wire(t, "recv_pub", <<>>, <<>>) \/ Left(t, {<<>>})
        BY <1>2, <1>3, <3>1 DEF Handshake
      <4>2. buffer = Pub(t)
        BY <1>2, <1>3, <3>1 DEF Buffered
      <4>3. Wire(t, "recv_pub", <<Pub(t)>>, <<>>)' \/ Left(t, {<<>>})'
        BY <1>7, <2>1, <2>2, <4>1, <4>2 DEF SendRsa, Wire, Left, Pub, Content
      <4> QED
        BY <1>3, <3>1, <4>3 DEF Handshake, Exchanging
    <3>2. CASE Step(t, "send_mod", "clear_key")
      <4>1. \/ Wire(t, "recv_pub", <<Pub(t)>>, <<>>)
            \/ Wire(t, "recv_mod", <<>>, <<>>) /\ key_public[t] = Pub(t)
            \/ Left(t, {<<>>})
        BY <1>2, <1>3, <3>2 DEF Handshake
      <4>2. buffer = Mod(t)
        BY <1>2, <1>3, <3>2 DEF Buffered
      <4>3. \/ Wire(t, "recv_pub", <<Pub(t), Mod(t)>>, <<>>)'
            \/ Wire(t, "recv_mod", <<Mod(t)>>, <<>>)' /\ key_public'[t] = Pub(t)
            \/ Left(t, {<<>>})'
        BY <1>7, <2>1, <2>2, <4>1, <4>2 DEF SendRsa, Wire, Left, Pub, Mod, Content
      <4>4. Left(t, {<<>>})' => Left(t, {<<>>, <<Wrapped(t)>>, <<Wrapped(t), Login(t)>>})'
        BY DEF Left
      <4> QED
        BY <1>3, <3>2, <4>3, <4>4 DEF Handshake, Exchanging, Pub, Mod, Wrapped, Login, Content
    <3> QED
      BY <1>7, <3>1, <3>2 DEF SendRsa
  <2>4. Buffered(t)' /\ Kept(t)'
    BY <1>h, <1>2, <1>3, <1>7 DEF SendRsa, Buffered, Kept, Keyed
  <2> QED
    BY <2>3, <2>4
<1>8. CASE Dies
  <2>1. Bystander(t)
    BY <1>8 DEF Dies, Bystander
  <2> QED
    BY <1>1, <2>1, BystanderKeeps DEF Own
<1>9. CASE RecvKey(t)
  <2>1. pc[t] = "recv_key" /\ pc'[t] = "take_key"
    BY <1>3, <1>9 DEF RecvKey
  <2>2. UNCHANGED <<client, toClient, secret, key, user>>
    BY <1>9 DEF RecvKey
  <2>3. \/ Wire(t, "recv_pub", <<Pub(t), Mod(t)>>, <<>>)
        \/ Wire(t, "recv_mod", <<Mod(t)>>, <<>>)
        \/ Wire(t, "login", <<>>, <<Wrapped(t)>>)
        \/ Wire(t, "recv_reply", <<>>, <<Wrapped(t), Login(t)>>)
        \/ Left(t, {<<>>, <<Wrapped(t)>>, <<Wrapped(t), Login(t)>>})
    BY <1>2, <2>1 DEF Handshake
  <2>4. CASE Hangup(t)
    <3>1. toServer'[t] = <<>> /\ client'[t] = "ended"
      BY <1>h, <2>4 DEF Hangup
    <3>2. Left(t, {<<>>, <<Login(t)>>})'
      BY <3>1 DEF Left
    <3> QED
      BY <1>h, <2>1, <2>4, <3>2 DEF Handshake, Buffered, Kept, Keyed, Login, Content
  <2>5. CASE ~Hangup(t)
    <3>1. toServer[t] # <<>> /\ buffer' = Head(toServer[t]) /\ toServer'[t] = Tail(toServer[t])
      BY <1>4, <1>9, <2>5 DEF RecvKey, TypeOK
    <3>2. /\ Head(<<Wrapped(t)>>) = Wrapped(t) /\ Tail(<<Wrapped(t)>>) = <<>>
          /\ Head(<<Wrapped(t), Login(t)>>) = Wrapped(t) /\ Tail(<<Wrapped(t), Login(t)>>) = <<Login(t)>>
      BY FramesAreContents, OneAndTwo
    <3>3. /\ buffer' = Wrapped(t)
          /\ \/ Wire(t, "login", <<>>, <<>>)' \/ Wire(t, "recv_reply", <<>>, <<Login(t)>>)'
             \/ Left(t, {<<>>, <<Login(t)>>})'
      BY <2>2, <2>3, <3>1, <3>2 DEF Wire, Left, Wrapped, Login, Content
    <3>4. Handshake(t)' /\ Buffered(t)'
      BY <2>1, <3>3 DEF Handshake, Buffered, Wrapped, Login, Content
    <3> QED
      BY <2>1, <3>4 DEF Kept, Keyed
  <2> QED
    BY <2>4, <2>5
<1>10. CASE TakeKey(t)
  <2>1. Handshake(t)'
    BY <1>2, <1>3, <1>10 DEF TakeKey, Handshake, Wire, Left, Login, Refused, Content
  <2>2. secret'[t] = rsa_decrypt(AsNumber(buffer), t)
    BY <1>10 DEF TakeKey, TypeOK
  <2>3. rsa_decrypt(AsNumber(Wrapped(t)), t) = t
    BY DEF rsa_decrypt, AsNumber, Wrapped, Content, Numbers
  <2>4. secret'[t] = t \/ Hangup(t)
    BY <1>2, <1>3, <1>10, <2>2, <2>3 DEF TakeKey, Buffered
  <2>5. Buffered(t)' /\ Kept(t)'
    BY <1>h, <1>3, <1>10, <2>4 DEF TakeKey, Buffered, Kept, Keyed
  <2> QED
    BY <2>1, <2>5
<1>11. CASE ExportAes(t)
  <2>1. Handshake(t)'
    BY <1>2, <1>3, <1>11 DEF ExportAes, Handshake, Wire, Left, Login, Refused, Content
  <2>2. secret[t] = t \/ Hangup(t)
    BY <1>2, <1>3, <1>11 DEF ExportAes, Kept
  <2>3. Buffered(t)' /\ Kept(t)'
    BY <1>h, <1>3, <1>4, <1>11, <2>2 DEF ExportAes, Buffered, Kept, Keyed, Content
  <2> QED
    BY <2>1, <2>3
<1>12. CASE aes_init(t)
  <2>1. Handshake(t)'
    BY <1>2, <1>3, <1>12 DEF aes_init, Handshake, Wire, Left, Login, Refused, Content
  <2>2. key'[t] = t \/ Hangup(t)
    BY <1>2, <1>3, <1>12 DEF aes_init, Buffered, TypeOK
  <2>3. Buffered(t)' /\ Kept(t)'
    BY <1>h, <1>3, <1>12, <2>2 DEF aes_init, Buffered, Kept, Keyed
  <2> QED
    BY <2>1, <2>3
<1>13. CASE RecvLogin(t)
  <2>1. pc[t] = "recv_login" /\ pc'[t] = "decrypt_login"
    BY <1>3, <1>13 DEF RecvLogin
  <2>2. Wire(t, "recv_reply", <<>>, <<Login(t)>>) \/ Left(t, {<<Login(t)>>})
    BY <1>2, <1>13, <2>1 DEF Handshake, RecvLogin, Wire, Left
  <2>3. toServer'[t] = <<>> /\ buffer' = [Login(t) EXCEPT !.sized = buffer.sized]
    <3>1. Head(<<Login(t)>>) = Login(t) /\ Tail(<<Login(t)>>) = <<>>
      BY FramesAreContents, OneAndTwo
    <3> QED
      BY <1>4, <1>13, <2>2, <3>1 DEF RecvLogin, Wire, Left, TypeOK
  <2>4. Handshake(t)' /\ Buffered(t)'
    BY <1>13, <2>1, <2>2, <2>3 DEF RecvLogin, Handshake, Wire, Left, Buffered, Login, Content
  <2>5. key[t] = t
    BY <1>2, <1>13, <2>1 DEF RecvLogin, Kept, Keyed, Hangup
  <2> QED
    BY <1>13, <2>1, <2>4, <2>5 DEF RecvLogin, Kept, Keyed
<1>14. CASE LoginEof(t)
  <2>1. Hangup(t) /\ pc'[t] = "closed"
    BY <1>3, <1>14 DEF LoginEof
  <2> QED
    BY <1>h, <2>1 DEF Handshake, Buffered, Kept, Keyed
<1>15. CASE DecryptLogin(t)
  <2>1. pc[t] = "decrypt_login" /\ pc'[t] = "split"
    BY <1>3, <1>15 DEF DecryptLogin
  <2>2. key[t] = t
    BY <1>2, <2>1 DEF Kept, Keyed
  <2>3. buffer'.kind = "name" /\ buffer'.conn = t
    <3>1. buffer \in Contents /\ buffer.kind = "login" /\ buffer.conn = t
      BY <1>2, <2>1 DEF Buffered, TypeOK
    <3> QED
      BY <1>4, <1>15, <2>2, <3>1, Decrypted DEF DecryptLogin
  <2>4. Handshake(t)' /\ Buffered(t)'
    BY <1>2, <1>15, <2>1, <2>3 DEF DecryptLogin, Handshake, Wire, Left, Buffered
  <2> QED
    BY <1>15, <2>1, <2>2, <2>4 DEF DecryptLogin, Kept, Keyed
<1>16. CASE SplitLogin(t)
  <2>1. pc[t] = "split" /\ pc'[t] = "find"
    BY <1>3, <1>16 DEF SplitLogin
  <2>2. key[t] = t /\ buffer.kind = "name" /\ buffer.conn = t
    BY <1>2, <2>1 DEF Kept, Keyed, Buffered
  <2>3. user'[t] = t /\ key'[t] = t
    BY <1>16, <2>2 DEF SplitLogin, TypeOK
  <2>4. Handshake(t)'
    BY <1>2, <1>16, <2>1 DEF SplitLogin, Handshake, Wire, Left
  <2> QED
    BY <2>1, <2>3, <2>4 DEF Buffered, Kept, Keyed
<1>17. CASE LoginAccepted(t)
  BY <1>2, <1>3, <1>17 DEF LoginAccepted, Handshake, Buffered, Kept, Keyed
<1>18. CASE LoginRefused(t)
  <2>1. pc[t] = "find" /\ pc'[t] = "clear_login"
    BY <1>3, <1>18 DEF LoginRefused
  <2>2. Wire(t, "recv_reply", <<>>, <<>>) \/ Left(t, {<<>>})
    BY <1>2, <2>1 DEF Handshake
  <2>3. Append(<<>>, Refused) = <<Refused>>
    BY FramesAreContents, OneAndTwo
  <2>4. /\ client[t] # "ended" => toClient'[t] = Append(toClient[t], Refused)
        /\ client'[t] = client[t] /\ toServer'[t] = toServer[t] /\ key'[t] = key[t]
    BY <1>18, SentTo, FramesAreContents DEF LoginRefused, Refused, TypeOK
  <2>5. Wire(t, "recv_reply", <<Refused>>, <<>>)' \/ Left(t, {<<>>})'
    BY <2>2, <2>3, <2>4 DEF Wire, Left, Refused, Content
  <2>6. Handshake(t)' /\ Buffered(t)'
    BY <2>1, <2>5 DEF Handshake, Buffered, Wire, Left, Refused, Content
  <2> QED
    BY <1>2, <2>1, <2>4, <2>6 DEF Kept, Keyed
<1>19. CASE add_user(t)
  BY <1>2, <1>3, <1>19 DEF add_user, Handshake, Buffered, Kept, Keyed
<1> QED
  BY <1>5, <1>6, <1>7, <1>8, <1>9, <1>10, <1>11, <1>12, <1>13, <1>14, <1>15, <1>16, <1>17, <1>18, <1>19
  DEF init_client_conn, SendBreaks, TakeKeyCrashes, RegistryBreaks

\* Past the login nothing but the key and the name is at stake.
LEMMA DoneKeeps ==
  ASSUME NEW t \in Conns, Own(t), pc[t] \in LoggedIn \cup {"closed"}, pc'[t] = pc[t] \/ pc'[t] = "closed",
         key'[t] = key[t], user'[t] = user[t] \/ pc'[t] = "closed",
         disturbed[t] => disturbed'[t], Hangup(t) => Hangup(t)'
  PROVE  Own(t)'
BY DEF Own, Handshake, Buffered, Kept, Keyed, Exchanging, Waiting, Named, LoggedIn

LEMMA OwnClient ==
  ASSUME TypeOK, LoginInv, [Next]_vars, NEW c \in Conns, Own(c), ClientActs(c)
  PROVE  Own(c)'
<1>0. c \in Users
  BY DEF Users
<1>1. UNCHANGED <<buffer, secret, key, user, disturbed>>
  BY DEF ClientActs, ClientRuns, Connect, RecvPub, RecvMod, ClientCrashes, SendLogin, RecvReply,
    read_conndata, write_conndata, Leave, serverside
<1>h. Hangup(c) => Hangup(c)'
  BY HangupLasts
<1>2. CASE Connect(c)
  <2>1. pc[c] = "none" /\ pc'[c] = "clear_pub" /\ client[c] = "off" /\ client'[c] = "recv_pub"
    BY <1>0, <1>2 DEF Connect, Step, Goes, TypeOK
  <2>2. UNCHANGED <<toClient, toServer>>
    BY <1>2 DEF Connect
  <2> QED
    BY <1>1, <2>1, <2>2 DEF Own, Handshake, Wire, Left, Buffered, Kept, Keyed, Waiting, Named, Exchanging
<1>3. UNCHANGED pc \/ Connect(c)
  BY DEF ClientActs, ClientRuns, RecvPub, RecvMod, ClientCrashes, SendLogin, RecvReply,
    read_conndata, write_conndata, Leave, serverside
<1> SUFFICES ASSUME pc[c] \notin LoggedIn \cup {"closed"}, ~disturbed[c], UNCHANGED pc PROVE Handshake(c)'
  <2>1. CASE pc[c] \in LoggedIn \cup {"closed"} /\ UNCHANGED pc
    BY <1>1, <1>h, <2>1, DoneKeeps
  <2>2. CASE disturbed[c]
    BY <1>1, <2>2 DEF Own
  <2>3. CASE ~disturbed[c] /\ UNCHANGED pc /\ Handshake(c)'
    <3>1. Buffered(c)' /\ Kept(c)'
      BY <1>1, <1>h, <2>3 DEF Own, Buffered, Kept, Keyed, Pub, Mod, Wrapped, Content
    <3> QED
      BY <2>3, <3>1 DEF Own
  <2> QED
    BY <1>2, <1>3, <2>1, <2>2, <2>3
<1>4. Handshake(c) /\ pc[c] \in Labels
  BY DEF Own, TypeOK
<1> DEFINE q == toClient[c]
           Early == pc[c] \in {"clear_mod", "export_mod", "send_mod"}
           Keying == pc[c] \in {"clear_key", "recv_key"}
           Late == pc[c] \in Exchanging \cup Waiting
<1>5. /\ client[c] = "recv_pub" /\ q # <<>> =>
           \/ Early /\ q = <<Pub(c)>> /\ toServer[c] = <<>>
           \/ Keying /\ q = <<Pub(c), Mod(c)>> /\ toServer[c] = <<>>
      /\ client[c] = "recv_mod" /\ q # <<>> =>
           Keying /\ q = <<Mod(c)>> /\ toServer[c] = <<>> /\ key_public[c] = Pub(c)
      /\ client[c] = "login" =>
           \/ Keying /\ q = <<>> /\ toServer[c] = <<Wrapped(c)>>
           \/ Late /\ q = <<>> /\ toServer[c] = <<>>
      /\ client[c] = "recv_reply" /\ q # <<>> =>
           Late /\ q = <<Refused>> /\ toServer[c] = <<>>
  BY <1>4 DEF Handshake, Wire, Left, Labels, Exchanging, Waiting, LoggedIn
<1>6. /\ Head(<<Pub(c)>>) = Pub(c) /\ Tail(<<Pub(c)>>) = <<>>
      /\ Head(<<Pub(c), Mod(c)>>) = Pub(c) /\ Tail(<<Pub(c), Mod(c)>>) = <<Mod(c)>>
      /\ Head(<<Mod(c)>>) = Mod(c) /\ Tail(<<Mod(c)>>) = <<>>
      /\ Head(<<Refused>>) = Refused /\ Tail(<<Refused>>) = <<>>
      /\ Append(<<>>, Wrapped(c)) = <<Wrapped(c)>> /\ Append(<<>>, Login(c)) = <<Login(c)>>
      /\ Append(<<Wrapped(c)>>, Login(c)) = <<Wrapped(c), Login(c)>>
  BY FramesAreContents, OneAndTwo
<1>7. AsNumber(Pub(c)) = Pub(c) /\ AsNumber(Mod(c)) = Mod(c)
  BY DEF AsNumber, Pub, Mod, Content, Numbers
<1>8. CASE RecvPub(c)
  <2>1. /\ client[c] = "recv_pub" /\ client'[c] = "recv_mod" /\ q # <<>>
        /\ toClient'[c] = Tail(q) /\ toServer' = toServer /\ key_public'[c] = AsNumber(Head(q))
    BY <1>8 DEF RecvPub, Goes, Receives, TypeOK
  <2>2. /\ key_public'[c] = Pub(c)
        /\ \/ Early /\ Wire(c, "recv_mod", <<>>, <<>>)'
           \/ Keying /\ Wire(c, "recv_mod", <<Mod(c)>>, <<>>)'
    BY <1>5, <1>6, <1>7, <2>1 DEF Wire, Mod, Content
  <2> QED
    BY <2>2 DEF Handshake, Wire, Exchanging, Waiting, Pub, Mod, Content
<1>9. CASE RecvMod(c)
  <2>1. /\ client[c] = "recv_mod" /\ client'[c] = "login" /\ q # <<>>
        /\ toClient'[c] = Tail(q)
        /\ toServer'[c] = Append(toServer[c], rsa_encrypt(c, key_public[c], AsNumber(Head(q))))
    BY <1>9 DEF RecvMod, Goes, Receives, Sends, TypeOK
  <2>2. rsa_encrypt(c, Pub(c), Mod(c)) = Wrapped(c)
    BY DEF rsa_encrypt, Pub, Mod, Wrapped, Content
  <2>3. Keying /\ toClient'[c] = <<>> /\ toServer'[c] = <<Wrapped(c)>>
    BY <1>5, <1>6, <1>7, <2>1, <2>2
  <2>4. Keying /\ Wire(c, "login", <<>>, <<Wrapped(c)>>)'
    BY <2>1, <2>3 DEF Wire, Wrapped, Content
  <2> QED
    BY <2>4 DEF Handshake, Wire, Exchanging, Waiting, Wrapped, Content
<1>10. CASE ClientCrashes(c)
  <2>1. /\ client[c] \in {"recv_pub", "recv_mod"} /\ q # <<>>
        /\ \/ Senseless(Head(q))
           \/ client[c] = "recv_mod" /\ AsNumber(Head(q)).kind = "zero"
    BY <1>10 DEF ClientCrashes
  <2>2. ~Senseless(Pub(c)) /\ ~Senseless(Mod(c)) /\ Mod(c).kind # "zero"
    BY DEF Senseless, Pub, Mod, Content, Numbers
  <2>3. Head(q) = Mod(c) \/ (client[c] = "recv_pub" /\ Head(q) = Pub(c))
    BY <1>5, <1>6, <2>1
  <2> QED
    BY <1>7, <2>1, <2>2, <2>3
<1>11. CASE SendLogin(c)
  <2>1. /\ client[c] = "login" /\ client'[c] = "recv_reply" /\ toClient'[c] = q
        /\ toServer'[c] = Append(toServer[c], Login(c))
    BY <1>11 DEF SendLogin, Goes, Sends, Login, TypeOK
  <2>2. \/ Keying /\ Wire(c, "recv_reply", <<>>, <<Wrapped(c), Login(c)>>)'
        \/ Late /\ Wire(c, "recv_reply", <<>>, <<Login(c)>>)'
    BY <1>5, <1>6, <2>1 DEF Wire, Wrapped, Login, Content
  <2> QED
    BY <2>2 DEF Handshake, Wire, Exchanging, Waiting, Wrapped, Login, Content
<1>12. CASE RecvReply(c)
  <2>1. client[c] = "recv_reply" /\ q # <<>> /\ toClient'[c] = Tail(q) /\ toServer' = toServer
    BY <1>12 DEF RecvReply, Goes, Receives, TypeOK
  <2>2. Late /\ q = <<Refused>> /\ toServer[c] = <<>>
    BY <1>5, <2>1
  <2>3. client'[c] = "login"
    BY <1>6, <1>12, <2>2 DEF RecvReply, Goes, Refused, Content, TypeOK
  <2>4. Wire(c, "login", <<>>, <<>>)'
    BY <1>6, <2>1, <2>2, <2>3 DEF Wire
  <2> QED
    BY <2>2, <2>4 DEF Handshake, Exchanging, Waiting
<1>13. CASE client[c] = "online"
  BY <1>13 DEF LoginInv
<1>14. CASE Leave(c)
  <2>1. client[c] # "off" /\ client'[c] = "ended" /\ UNCHANGED toServer
    BY <1>14, Ended DEF Leave
  <2>2. \A ups : toServer[c] \in ups => Left(c, ups)'
    BY <2>1 DEF Left
  <2> HIDE DEF Early, Keying, Late
  <2>3. pc[c] # "none"
    BY <1>4, <2>1 DEF Handshake, Wire
  <2>4. pc[c] \in {"clear_pub", "export_pub", "send_pub", "decrypt_login", "split", "find"} => Left(c, {<<>>})'
    BY <1>4, <2>1, <2>2 DEF Handshake, Wire, Left
  <2>5. Early => Left(c, {<<>>})'
    BY <1>4, <2>1, <2>2 DEF Handshake, Wire, Left, Early
  <2>6. Keying => Left(c, {<<>>, <<Wrapped(c)>>, <<Wrapped(c), Login(c)>>})'
    BY <1>4, <2>1, <2>2 DEF Handshake, Wire, Left, Keying
  <2>7. Late => Left(c, {<<>>, <<Login(c)>>})'
    BY <1>4, <2>1, <2>2 DEF Handshake, Wire, Left, Late
  <2> QED
    BY <2>3, <2>4, <2>5, <2>6, <2>7 DEF Handshake, Early, Keying, Late, Exchanging, Waiting, Wrapped, Login, Content
<1> QED
  BY <1>1, <1>2, <1>8, <1>9, <1>10, <1>11, <1>12, <1>13, <1>14
  DEF Own, ClientActs, ClientRuns, read_conndata, write_conndata

LEMMA OwnReader ==
  ASSUME TypeOK, LoginInv, ReaderInv, [Next]_vars, NEW t \in Conns, Own(t), read_clients
  PROVE  Own(t)'
<1>0. t \in Users /\ Reader \in Users /\ t # Reader
  BY ConnsAssumption DEF Users
<1>1. /\ UNCHANGED <<secret, key, client, key_public>>
      /\ disturbed[t] => disturbed'[t]
      /\ UNCHANGED buffer \/ (Exposed(t) => disturbed'[t])
  BY <1>0, WriteDisturbs DEF read_clients, Select, RecvMessage, disconnect_client_index, DecryptMessage,
    Forward, ForwardTo, ForwardBreaks, RegistryBreaks, Dies, clientside
<1>2. \/ pc'[t] = pc[t] /\ user'[t] = user[t]
      \/ t = at /\ pc[t] = "done" /\ pc'[t] = "closed"
  <2>1. CASE pc[Reader] = "disconnect_end" /\ pc' = [pc EXCEPT ![Reader] = "select", ![at] = "closed"]
             /\ user' = [user EXCEPT ![at] = NULL]
    BY <1>0, <2>1 DEF ReaderInv, TypeOK
  <2>2. CASE UNCHANGED user /\ \E from, to : Step(Reader, from, to)
    BY <1>0, <2>2 DEF Step, TypeOK
  <2>3. CASE UNCHANGED <<pc, user>>
    BY <2>3
  <2> QED
    BY <2>1, <2>2, <2>3 DEF read_clients, Select, RecvMessage, disconnect_client_index, DecryptMessage,
      Forward, ForwardTo, ForwardBreaks, RegistryBreaks, Dies
<1>3. CASE pc[t] \in LoggedIn
  <2>1. Hangup(t) => Hangup(t)'
    BY HangupLasts
  <2> QED
    BY <1>1, <1>2, <1>3, <2>1, DoneKeeps
<1>4. CASE pc[t] \notin LoggedIn
  <2>1. toServer'[t] = toServer[t]
    <3>1. RecvMessage => at # t
      BY <1>4 DEF RecvMessage, Step, ReaderInv, LoggedIn
    <3> QED
      BY <3>1 DEF read_clients, Select, RecvMessage, disconnect_client_index, DecryptMessage,
        Forward, ForwardTo, ForwardBreaks, RegistryBreaks, Dies, TypeOK
  <2>2. toClient'[t] = toClient[t]
    <3>1. \A name : t \notin Registered(name)
      BY <1>4 DEF Registered, InTable, LoggedIn
    <3>2. ASSUME NEW u \in Conns, NEW m, u # t, Send(u, m) PROVE toClient'[t] = toClient[t]
      BY <3>2 DEF Send, TypeOK
    <3>3. UNCHANGED toClient \/ \E u \in Conns : \E m : u # t /\ Send(u, m)
      BY <3>1 DEF read_clients, Select, RecvMessage, disconnect_client_index, DecryptMessage,
        Forward, ForwardTo, Deliver, Registered, ForwardBreaks, RegistryBreaks, Dies
    <3> QED
      BY <3>2, <3>3
  <2>3. Bystander(t)
    BY <1>1, <1>2, <1>4, <2>1, <2>2 DEF Bystander, LoggedIn
  <2> QED
    BY <2>3, BystanderKeeps
<1> QED
  BY <1>3, <1>4

LEMMA ExchangeStep ==
  ASSUME IInv, [Next]_vars
  PROVE  ExchangeInv'
<1> SUFFICES ASSUME NEW t \in Conns PROVE Own(t)'
  BY DEF ExchangeInv, Own
<1>1. Own(t)
  BY DEF IInv, ExchangeInv, Own
<1>2. CASE UNCHANGED vars
  <2>1. Bystander(t)
    BY <1>2 DEF vars, serverside, clientside, Bystander
  <2> QED
    BY <1>1, <2>1, BystanderKeeps
<1>3. ASSUME NEW u \in Conns, init_client_conn(u) PROVE Own(t)'
  BY <1>1, <1>3, OtherLoginThread, OwnLoginThread, BystanderKeeps DEF IInv
<1>4. ASSUME NEW c \in Conns, ClientActs(c) PROVE Own(t)'
  BY <1>1, <1>4, OtherClient, OwnClient, BystanderKeeps DEF IInv
<1>5. CASE read_clients
  BY <1>1, <1>5, OwnReader DEF IInv
<1> QED
  BY <1>2, <1>3, <1>4, <1>5, StepCases

-----------------------------------------------------------------------------
(* What a step does to the queues, the buffer and the logins               *)

After == LoggedIn \cup {"closed"}

Down(t) ==
  \/ toClient'[t] = toClient[t]
  \/ toClient[t] # <<>> /\ toClient'[t] = Tail(toClient[t])
  \/ toClient'[t] \in {<<>>, Unread}
  \/ \E m \in Contents :
       /\ toClient'[t] = Append(toClient[t], m)
       /\ pc[t] \in After => Attributed(m)
       /\ m.kind = "success" => pc'[t] \in LoggedIn

Up(t) ==
  \/ toServer'[t] = toServer[t]
  \/ toServer[t] # <<>> /\ toServer'[t] = Tail(toServer[t])
  \/ \E m \in Contents :
       /\ toServer'[t] = Append(toServer[t], m)
       /\ m.kind \notin {"text", "success"}
       /\ m.kind = "message" => m.conn = t /\ m.to \in Conns /\ pc[t] \in LoggedIn

Settled(t) ==
  /\ pc[t] \in After => pc'[t] \in After
  /\ pc'[t] = "closed" => Hangup(t)
  /\ disturbed[t] => disturbed'[t]

\* A message or a text in the buffer was there already.
NothingNew ==
  /\ buffer'.kind # "success"
  /\ buffer'.kind \in {"message", "text"} =>
       /\ buffer.kind \in {"message", "text"}
       /\ buffer'.conn = buffer.conn /\ buffer'.to = buffer.to

LEMMA ClientEffects ==
  ASSUME TypeOK, LoginInv, NEW c \in Conns, ClientActs(c), NEW t \in Conns
  PROVE  /\ Down(t) /\ Up(t) /\ Settled(t)
         /\ UNCHANGED <<buffer, user, at, disturbed>> /\ pc'[Reader] = pc[Reader]
         /\ pc[t] = "done" => pc'[t] = "done"
         /\ toServer[t] # <<>> => toServer'[t] # <<>>
<1>0. c \in Users /\ c # Reader /\ t \in Users
  BY ConnsAssumption DEF Users
<1>1. UNCHANGED <<buffer, user, at, disturbed>>
  BY DEF ClientActs, ClientRuns, Connect, RecvPub, RecvMod, ClientCrashes, SendLogin, RecvReply,
    read_conndata, write_conndata, Leave, serverside
<1>2. pc'[Reader] = pc[Reader] /\ (pc'[t] = pc[t] \/ (pc[t] = "none" /\ pc'[t] = "clear_pub"))
  <2>1. CASE Connect(c)
    BY <1>0, <2>1 DEF Connect, Step, TypeOK
  <2>2. UNCHANGED pc \/ Connect(c)
    BY DEF ClientActs, ClientRuns, RecvPub, RecvMod, ClientCrashes, SendLogin, RecvReply,
      read_conndata, write_conndata, Leave, serverside
  <2> QED
    BY <2>1, <2>2
<1>3. Down(t)
  <2>1. UNCHANGED toClient \/ Receives(c) \/ \E frames : Ends(c, frames)
    BY DEF ClientActs, ClientRuns, Connect, RecvPub, RecvMod, ClientCrashes, SendLogin, RecvReply,
      read_conndata, write_conndata, Leave
  <2>2. ASSUME NEW frames, Ends(c, frames) PROVE Down(t)
    BY <2>2, Ended DEF Down
  <2>3. Receives(c) => Down(t)
    BY DEF Receives, Down, TypeOK
  <2> QED
    BY <2>1, <2>2, <2>3 DEF Down
<1> DEFINE Proper(m) == /\ m.kind \notin {"text", "success"}
                        /\ m.kind = "message" => m.conn = c /\ m.to \in Conns /\ pc[c] \in LoggedIn
<1>4. UNCHANGED toServer \/ \E m \in Contents : Sends(c, m) /\ Proper(m)
  <2>1. CASE RecvMod(c)
    <3> DEFINE m == rsa_encrypt(c, key_public[c], AsNumber(Head(toClient[c])))
    <3>1. m \in Contents
      BY <2>1, WireTypes, ConversionsAreTyped DEF RecvMod, Receives, TypeOK
    <3>2. m.kind = "wrapped"
      BY DEF rsa_encrypt, Content
    <3> QED
      BY <2>1, <3>1, <3>2 DEF RecvMod
  <2>2. CASE SendLogin(c)
    BY <2>2, FramesAreContents DEF SendLogin, Login, Content
  <2>3. ASSUME NEW name \in Conns, write_conndata(c, name) PROVE \E m \in Contents : Sends(c, m) /\ Proper(m)
    <3>1. pc[c] \in LoggedIn
      BY <2>3 DEF write_conndata, LoginInv
    <3>2. Content("message", c, name, TRUE) \in Contents
      BY FramesAreContents
    <3> QED
      BY <2>3, <3>1, <3>2 DEF write_conndata, Content
  <2> QED
    BY <2>1, <2>2, <2>3 DEF ClientActs, ClientRuns, Connect, RecvPub, ClientCrashes, RecvReply, read_conndata, Leave
<1>5. Up(t) /\ (toServer[t] # <<>> => toServer'[t] # <<>>)
  <2>1. CASE toServer'[t] = toServer[t]
    BY <2>1 DEF Up
  <2>2. ASSUME NEW m \in Contents, toServer'[t] = Append(toServer[t], m), m.kind \notin {"text", "success"},
               m.kind = "message" => m.conn = t /\ m.to \in Conns /\ pc[t] \in LoggedIn
        PROVE  Up(t) /\ toServer'[t] # <<>>
    <3>1. toServer[t] \in Seq(Contents)
      BY DEF TypeOK
    <3>2. Append(toServer[t], m) # <<>>
      BY <3>1
    <3> QED
      BY <2>2, <3>2 DEF Up
  <2> QED
    BY <1>4, <2>1, <2>2 DEF Sends, TypeOK
<1> QED
  BY <1>1, <1>2, <1>3, <1>5 DEF Settled, After, LoggedIn, LoginInv

LEMMA LoginThreadEffects ==
  ASSUME TypeOK, LoginInv, NEW u \in Conns, init_client_conn(u), NEW t \in Conns
  PROVE  /\ Down(t) /\ Up(t) /\ Settled(t) /\ NothingNew
         /\ UNCHANGED <<client, at, shown>> /\ pc'[Reader] = pc[Reader]
         /\ pc[t] = "done" => pc'[t] = "done" /\ toServer'[t] = toServer[t]
<1>0. u \in Users /\ u # Reader /\ t \in Users
  BY ConnsAssumption DEF Users
<1>1. /\ UNCHANGED <<client, at, shown>> /\ pc'[Reader] = pc[Reader]
      /\ pc[t] \in After => pc'[t] \in After
      /\ pc[t] = "done" => pc'[t] = "done"
      /\ pc'[t] = "closed" => Hangup(t)
  <2>1. UNCHANGED <<client, at, shown>>
    BY DEF init_client_conn, Clear, ExportRsa, SendRsa, SendBreaks, RecvKey, TakeKey, TakeKeyCrashes,
      ExportAes, aes_init, RecvLogin, LoginEof, DecryptLogin, SplitLogin, LoginAccepted, LoginRefused,
      add_user, RegistryBreaks, Dies, clientside
  <2>2. \/ UNCHANGED pc
        \/ LoginEof(u) \/ add_user(u)
        \/ \E from, to : Step(u, from, to) /\ from \notin {"add_user", "add_end", "done", "closed"} /\ to # "closed"
    BY DEF init_client_conn, Clear, ExportRsa, SendRsa, SendBreaks, RecvKey, TakeKey, TakeKeyCrashes,
      ExportAes, aes_init, RecvLogin, DecryptLogin, SplitLogin, LoginAccepted, LoginRefused,
      RegistryBreaks, Dies
  <2> DEFINE Follows == /\ pc'[Reader] = pc[Reader]
                        /\ pc[t] \in After => pc'[t] \in After
                        /\ pc[t] = "done" => pc'[t] = "done"
                        /\ pc'[t] = "closed" => Hangup(t)
  <2>3. pc[t] = "closed" => Hangup(t)
    BY DEF LoginInv
  <2>4. \A from, to : Step(u, from, to) =>
          /\ pc[u] = from /\ pc'[u] = to /\ pc'[Reader] = pc[Reader] /\ (t # u => pc'[t] = pc[t])
    BY <1>0 DEF Step, TypeOK
  <2>5. CASE UNCHANGED pc
    BY <2>1, <2>3, <2>5
  <2>6. CASE LoginEof(u)
    BY <2>1, <2>3, <2>4, <2>6 DEF LoginEof, After, LoggedIn
  <2>7. CASE add_user(u)
    BY <2>1, <2>3, <2>4, <2>7 DEF add_user, After, LoggedIn
  <2>8. ASSUME NEW from, NEW to, Step(u, from, to),
               from \notin {"add_user", "add_end", "done", "closed"}, to # "closed"
        PROVE  Follows
    BY <2>3, <2>4, <2>8 DEF After, LoggedIn
  <2> QED
    BY <2>1, <2>2, <2>5, <2>6, <2>7, <2>8
<1>2. disturbed[t] => disturbed'[t]
  <2>1. \A c : Write(u, c) => (disturbed[t] => disturbed'[t])
    BY <1>0, WriteDisturbs
  <2> QED
    BY <2>1 DEF init_client_conn, Clear, ExportRsa, SendRsa, SendBreaks, RecvKey, TakeKey, TakeKeyCrashes,
      ExportAes, aes_init, RecvLogin, LoginEof, DecryptLogin, SplitLogin, LoginAccepted, LoginRefused,
      add_user, RegistryBreaks, Dies
<1>3. Settled(t)
  BY <1>1, <1>2 DEF Settled
<1>4. Down(t)
  <2>1. UNCHANGED toClient \/ SendRsa(u) \/ LoginAccepted(u) \/ LoginRefused(u)
    BY DEF init_client_conn, Clear, ExportRsa, SendBreaks, RecvKey, TakeKey, TakeKeyCrashes,
      ExportAes, aes_init, RecvLogin, LoginEof, DecryptLogin, SplitLogin, add_user, RegistryBreaks, Dies
  <2>2. UNCHANGED toClient \/ \E m \in Contents :
          Send(u, m) /\ pc[u] \notin After /\ (m.kind = "success" => pc'[u] \in LoggedIn)
    <3>1. CASE SendRsa(u)
      BY <3>1 DEF SendRsa, Step, LoginInv, TypeOK, After, LoggedIn
    <3>2. CASE LoginAccepted(u)
      BY <1>0, <3>2, FramesAreContents DEF LoginAccepted, Step, Success, TypeOK, After, LoggedIn
    <3>3. CASE LoginRefused(u)
      BY <3>3, FramesAreContents DEF LoginRefused, Step, Refused, Content, After, LoggedIn
    <3> QED
      BY <2>1, <3>1, <3>2, <3>3
  <2> QED
    BY <2>2, SentTo DEF Down
<1>5. Up(t) /\ (pc[t] = "done" => toServer'[t] = toServer[t])
  BY DEF init_client_conn, Clear, ExportRsa, SendRsa, SendBreaks, RecvKey, TakeKey, TakeKeyCrashes,
    ExportAes, aes_init, RecvLogin, LoginEof, DecryptLogin, SplitLogin, LoginAccepted, LoginRefused,
    add_user, RegistryBreaks, Dies, Step, Up, TypeOK
<1>6. toServer[u] # <<>> /\ pc[u] \notin LoggedIn => Head(toServer[u]).kind \notin {"success", "message", "text"}
  <2>1. toServer[u] \in Seq(Contents)
    BY DEF TypeOK
  <2>2. toServer[u] # <<>> => Head(toServer[u]) = toServer[u][1] /\ 1 \in 1 .. Len(toServer[u])
    BY <2>1, TakenFrom
  <2> QED
    BY <2>2 DEF LoginInv
<1>7. NothingNew
  <2> USE DEF NothingNew
  <2>1. \A c : Write(u, c) => buffer' = c
    BY DEF Write
  <2>2. buffer \in Contents /\ buffer.kind # "success"
    BY DEF TypeOK, LoginInv
  <2>3. CASE UNCHANGED buffer
    BY <2>2, <2>3
  <2>4. CASE Clear(u) \/ ExportRsa(u) \/ ExportAes(u)
    BY <2>1, <2>4 DEF Clear, ExportRsa, ExportAes, Zero, Content
  <2>5. CASE RecvKey(u)
    BY <1>6, <2>1, <2>3, <2>5 DEF RecvKey, Step, LoggedIn
  <2>6. CASE TakeKey(u)
    BY <2>1, <2>2, <2>6 DEF TakeKey, Contents
  <2>7. CASE RecvLogin(u)
    <3>1. Head(toServer[u]) \in Contents /\ pc[u] \notin LoggedIn /\ toServer[u] # <<>>
      BY <2>7, WireTypes DEF RecvLogin, Step, LoggedIn
    <3> QED
      BY <1>6, <2>1, <2>7, <3>1 DEF RecvLogin, Contents
  <2>8. CASE LoginEof(u) \/ DecryptLogin(u)
    <3>1. key[u] \in Conns \cup {NULL}
      BY DEF TypeOK
    <3> QED
      BY <2>1, <2>2, <2>8, <3>1, Decrypted DEF LoginEof, DecryptLogin
  <2> QED
    BY <2>3, <2>4, <2>5, <2>6, <2>7, <2>8
    DEF init_client_conn, SendRsa, SendBreaks, TakeKeyCrashes, aes_init, SplitLogin, LoginAccepted,
      LoginRefused, add_user, RegistryBreaks, Dies
<1> QED
  BY <1>1, <1>3, <1>4, <1>5, <1>7

LEMMA ReaderEffects ==
  ASSUME TypeOK, LoginInv, ReaderInv, NamesKept, read_clients, NEW t \in Conns
  PROVE  /\ Down(t) /\ Up(t) /\ Settled(t)
         /\ UNCHANGED <<client, shown>>
         /\ buffer'.kind # "success" /\ ReaderInv'
<1>0. t \in Users /\ Reader \in Users /\ t # Reader
  BY ConnsAssumption DEF Users
<1>1. UNCHANGED <<client, shown>>
  BY DEF read_clients, Select, RecvMessage, disconnect_client_index, DecryptMessage, Forward, ForwardTo,
    ForwardBreaks, RegistryBreaks, Dies, clientside
<1>2. disturbed[t] => disturbed'[t]
  BY <1>0, WriteDisturbs DEF read_clients, Select, RecvMessage, disconnect_client_index, DecryptMessage,
    Forward, ForwardTo, ForwardBreaks, RegistryBreaks, Dies
<1>3. \A from, to : Step(Reader, from, to) => /\ pc[Reader] = from /\ pc'[Reader] = to
                                              /\ \A u \in Conns : pc'[u] = pc[u]
  BY <1>0, ConnsAssumption DEF Step, TypeOK, Users
<1>4. \A c : Write(Reader, c) => buffer' = c
  BY DEF Write
<1>5. buffer.kind # "success" /\ \A u \in Conns : pc[u] = "closed" => Hangup(u)
  BY DEF LoginInv
<1> DEFINE Good == Down(t) /\ Up(t) /\ Settled(t) /\ buffer'.kind # "success" /\ ReaderInv'
<1> SUFFICES Good
  BY <1>1
<1>6. ASSUME NEW u \in Conns, Select(u) PROVE Good
  <2>1. buffer' = Zero /\ UNCHANGED <<toClient, toServer, client>> /\ pc'[t] = pc[t]
    BY <1>3, <1>4, <1>6 DEF Select, clientside
  <2>2. at' = u /\ pc'[u] = "done" /\ pc'[Reader] = "recv_message" /\ (toServer[u] # <<>> \/ Hangup(u))
    BY <1>3, <1>6 DEF Select
  <2>3. ReaderInv'
    BY <2>1, <2>2 DEF ReaderInv, Hangup, Zero, Content
  <2> QED
    BY <1>2, <1>5, <2>1, <2>3 DEF Down, Up, Settled, Zero, Content
<1>7. CASE RecvMessage
  <2>1. at \in Conns /\ pc[at] = "done" /\ toServer[at] # <<>>
    BY <1>3, <1>7 DEF RecvMessage, ReaderInv
  <2>2. toServer[at] \in Seq(Contents)
    BY <2>1 DEF TypeOK
  <2>3. Head(toServer[at]) = toServer[at][1] /\ 1 \in 1 .. Len(toServer[at])
    BY <2>1, <2>2, TakenFrom
  <2>4. LET m == Head(toServer[at])
        IN m.kind \notin {"text", "success"} /\ (m.kind = "message" => m.conn = at /\ m.to \in Conns)
    BY <2>1, <2>3 DEF LoginInv
  <2>5. /\ buffer' = Head(toServer[at]) /\ at' = at /\ pc'[Reader] = "decrypt_message"
        /\ UNCHANGED toClient /\ \A u \in Conns : pc'[u] = pc[u]
    BY <1>3, <1>4, <1>7 DEF RecvMessage
  <2>6. Up(t)
    BY <1>7, <2>1 DEF RecvMessage, Up, TypeOK
  <2> QED
    BY <1>2, <1>5, <2>1, <2>4, <2>5, <2>6 DEF Down, Settled, ReaderInv
<1>8. CASE disconnect_client_index
  <2>1. at \in Conns /\ pc[at] = "done"
    BY <1>3, <1>8 DEF disconnect_client_index, ReaderInv
  <2>2. UNCHANGED <<buffer, toClient, toServer, client>>
    BY <1>8 DEF disconnect_client_index, clientside
  <2>3. CASE Step(Reader, "recv_message", "disconnect_end") /\ Hangup(at) /\ at' = at
    BY <1>2, <1>3, <1>5, <2>1, <2>2, <2>3 DEF Down, Up, Settled, ReaderInv, Hangup
  <2>4. CASE pc[Reader] = "disconnect_end" /\ pc' = [pc EXCEPT ![Reader] = "select", ![at] = "closed"]
    <3>1. Hangup(at)
      BY <2>4 DEF ReaderInv
    <3>2. pc'[Reader] = "select" /\ pc'[t] = IF t = at THEN "closed" ELSE pc[t]
      BY <1>0, <2>1, <2>4, ConnsAssumption DEF TypeOK
    <3> QED
      BY <1>2, <1>5, <2>2, <3>1, <3>2 DEF Down, Up, Settled, ReaderInv, After
  <2> QED
    BY <1>8, <2>3, <2>4 DEF disconnect_client_index
<1>9. CASE DecryptMessage
  <2>1. /\ at \in Conns /\ pc[at] = "done"
        /\ buffer.kind \in {"message", "text"} => buffer.conn = at /\ buffer.to \in Conns
    BY <1>3, <1>9 DEF DecryptMessage, ReaderInv
  <2>2. key[at] \in Conns \cup {NULL} /\ buffer \in Contents
    BY <2>1 DEF TypeOK
  <2>3. /\ buffer'.kind \notin {"message", "success"}
        /\ buffer'.kind = "text" => buffer'.conn = at /\ buffer'.to \in Conns
    BY <1>4, <1>9, <2>1, <2>2, Decrypted DEF DecryptMessage
  <2>4. /\ at' = at /\ pc'[Reader] = "forward" /\ UNCHANGED <<toClient, toServer>>
        /\ \A u \in Conns : pc'[u] = pc[u]
    BY <1>3, <1>9 DEF DecryptMessage
  <2> QED
    BY <1>2, <1>5, <2>1, <2>3, <2>4 DEF Down, Up, Settled, ReaderInv
<1>10. CASE Forward
  <2>1. pc'[Reader] = "select" /\ pc'[t] = pc[t] /\ UNCHANGED <<buffer, toServer>>
    BY <1>3, <1>10 DEF Forward, ForwardTo
  <2>2. at \in Conns /\ pc[at] = "done"
    BY <1>3, <1>10 DEF Forward, ForwardTo, ReaderInv
  <2>3. UNCHANGED toClient => Down(t)
    BY DEF Down
  <2>4. ASSUME NEW u \in Conns, buffer.kind = "text", Deliver(u, user[at])
        PROVE  Down(t)
    <3> DEFINE m == IF key[u] = u THEN Content("delivery", buffer.conn, user[at], FALSE) ELSE Junk
    <3>1. buffer.conn = at
      BY <1>3, <1>10, <2>4 DEF Forward, ForwardTo, ReaderInv
    <3>2. user[at] = at \/ disturbed[at]
      BY <2>2 DEF NamesKept, InTable
    <3>3. Attributed(m) /\ m.kind # "success"
      BY <2>2, <3>1, <3>2 DEF Attributed, Content, Junk
    <3>4. m \in Contents
      BY <2>2, FramesAreContents, ConversionsAreTyped DEF TypeOK
    <3>5. Send(u, m)
      BY <2>4 DEF Deliver
    <3> HIDE DEF m
    <3> QED
      BY <3>3, <3>4, <3>5, SentTo DEF Down
  <2>5. Down(t)
    BY <1>10, <2>3, <2>4 DEF Forward, ForwardTo, Registered
  <2> QED
    BY <1>2, <1>5, <2>1, <2>5 DEF Up, Settled, ReaderInv
<1>11. CASE Dies
  BY <1>5, <1>11 DEF Dies, Down, Up, Settled, ReaderInv, Hangup, clientside
<1> QED
  BY <1>1, <1>6, <1>7, <1>8, <1>9, <1>10, <1>11 DEF read_clients, ForwardBreaks, RegistryBreaks

\* The effects of whatever step it is.
LEMMA Effects ==
  ASSUME IInv, NamesKept, [Next]_vars, NEW t \in Conns
  PROVE  Down(t) /\ Up(t) /\ Settled(t) /\ buffer'.kind # "success"
<1>1. TypeOK /\ LoginInv /\ ReaderInv
  BY DEF IInv
<1>2. CASE UNCHANGED vars
  BY <1>1, <1>2 DEF vars, serverside, Down, Up, Settled, LoginInv
<1>3. ASSUME NEW u \in Conns, init_client_conn(u)
      PROVE  Down(t) /\ Up(t) /\ Settled(t) /\ buffer'.kind # "success"
  BY <1>1, <1>3, LoginThreadEffects DEF NothingNew
<1>4. ASSUME NEW c \in Conns, ClientActs(c)
      PROVE  Down(t) /\ Up(t) /\ Settled(t) /\ buffer'.kind # "success"
  BY <1>1, <1>4, ClientEffects DEF LoginInv
<1>5. CASE read_clients
  BY <1>1, <1>5, ReaderEffects
<1> QED
  BY <1>2, <1>3, <1>4, <1>5, StepCases

LEMMA NamesFollow == ExchangeInv => KeyAgreement /\ NamesKept
BY DEF ExchangeInv, KeyAgreement, NamesKept, Kept, InTable, Named

-----------------------------------------------------------------------------
(* The logins, the reader and the deliveries                               *)

\* A client comes online by receiving success.
LEMMA ComesOnline ==
  ASSUME TypeOK, LoginInv, ReaderInv, NamesKept, [Next]_vars, NEW t \in Conns,
         client'[t] = "online", client[t] # "online"
  PROVE  toClient[t] # <<>> /\ Head(toClient[t]).kind = "success" /\ toClient'[t] = Tail(toClient[t])
<1>1. \E c \in Conns : ClientActs(c)
  BY StepCases, LoginThreadEffects, ReaderEffects DEF vars, clientside
<1>2. PICK c \in Conns : ClientActs(c)
  BY <1>1
<1>3. RecvReply(c) /\ c = t
  BY <1>2 DEF ClientActs, ClientRuns, Connect, RecvPub, RecvMod, ClientCrashes, SendLogin,
    RecvReply, read_conndata, write_conndata, Leave, Ends, Goes, TypeOK
<1> QED
  BY <1>3 DEF RecvReply, Goes, Receives, TypeOK

LEMMA LoginStep ==
  ASSUME IInv, [Next]_vars
  PROVE  LoginInv'
<1>0. TypeOK /\ LoginInv /\ ReaderInv /\ NamesKept
  BY NamesFollow DEF IInv
<1>1. ASSUME NEW t \in Conns
      PROVE  Down(t) /\ Up(t) /\ Settled(t) /\ buffer'.kind # "success"
  BY <1>0, Effects
<1>2. buffer'.kind # "success"
  <2>1. CASE Conns = {}
    <3>1. ~read_clients
      BY <1>0, <2>1 DEF read_clients, RecvMessage, disconnect_client_index, DecryptMessage, Forward,
        ForwardTo, ForwardBreaks, RegistryBreaks, Step, ReaderInv
    <3> QED
      BY <1>0, <2>1, <3>1 DEF LoginInv, Next, vars, serverside
  <2> QED
    BY <1>1, <2>1
<1> SUFFICES ASSUME NEW t \in Conns
    PROVE /\ client'[t] = "online" => pc'[t] \in LoggedIn
          /\ pc'[t] = "closed" => Hangup(t)'
          /\ \A i \in 1 .. Len(toClient'[t]) : toClient'[t][i].kind = "success" => pc'[t] \in After
          /\ \A i \in 1 .. Len(toServer'[t]) :
               LET m == toServer'[t][i]
               IN /\ m.kind \notin {"text", "success"}
                  /\ m.kind = "message" => m.conn = t /\ m.to \in Conns /\ pc'[t] \in LoggedIn
  BY <1>2 DEF LoginInv, After
<1>3. toClient[t] \in Seq(Contents) /\ toServer[t] \in Seq(Contents)
  BY <1>0 DEF TypeOK
<1>4. pc'[t] = "closed" => Hangup(t) /\ Hangup(t)'
  BY <1>0, <1>1, HangupLasts DEF Settled
<1>5. \A i \in 1 .. Len(toClient'[t]) : toClient'[t][i].kind = "success" => pc'[t] \in After
  <2>0. \A i \in 1 .. Len(toClient[t]) : toClient[t][i].kind = "success" => pc'[t] \in After
    BY <1>0, <1>1 DEF LoginInv, Settled, After
  <2>1. CASE toClient'[t] = toClient[t]
    BY <2>0, <2>1
  <2>2. CASE toClient[t] # <<>> /\ toClient'[t] = Tail(toClient[t])
    BY <1>3, <2>0, <2>2, TakenFrom
  <2>3. ASSUME NEW m \in Contents, toClient'[t] = Append(toClient[t], m), m.kind = "success" => pc'[t] \in After
        PROVE  \A i \in 1 .. Len(toClient'[t]) : toClient'[t][i].kind = "success" => pc'[t] \in After
    BY <1>3, <2>0, <2>3, AppendedTo
  <2>4. CASE toClient'[t] \in {<<>>, Unread}
    BY <2>4, UnreadIsJunk DEF Junk, Content
  <2> QED
    BY <1>1, <2>1, <2>2, <2>3, <2>4 DEF Down, After
<1> DEFINE Proper(m) == /\ m.kind \notin {"text", "success"}
                        /\ m.kind = "message" => m.conn = t /\ m.to \in Conns /\ pc[t] \in LoggedIn
<1>6. \A i \in 1 .. Len(toServer'[t]) : Proper(toServer'[t][i])
  <2>1. \A i \in 1 .. Len(toServer[t]) : Proper(toServer[t][i])
    BY <1>0 DEF LoginInv
  <2> HIDE DEF Proper
  <2>2. CASE toServer'[t] = toServer[t]
    BY <2>1, <2>2
  <2>3. CASE toServer[t] # <<>> /\ toServer'[t] = Tail(toServer[t])
    BY <1>3, <2>1, <2>3, TakenFrom
  <2>4. ASSUME NEW m \in Contents, toServer'[t] = Append(toServer[t], m), Proper(m)
        PROVE  \A i \in 1 .. Len(toServer'[t]) : Proper(toServer'[t][i])
    BY <1>3, <2>1, <2>4, AppendedTo
  <2> QED
    BY <1>1, <2>2, <2>3, <2>4 DEF Up, Proper
<1>7. toServer'[t] # <<>> /\ pc[t] \in LoggedIn => pc'[t] \in LoggedIn
  BY <1>1, <1>4 DEF Settled, After, Hangup
<1>8. \A i \in 1 .. Len(toServer'[t]) : toServer'[t] # <<>>
  OBVIOUS
<1>9. client'[t] = "online" => pc'[t] \in LoggedIn
  <2>1. CASE client[t] = "online"
    BY <1>0, <1>1, <1>4, <2>1 DEF LoginInv, Settled, After, Hangup
  <2>2. CASE client[t] # "online" /\ client'[t] = "online"
    <3>1. toClient[t] # <<>> /\ Head(toClient[t]).kind = "success"
      BY <1>0, <2>2, ComesOnline
    <3>2. toClient[t][1].kind = "success" /\ 1 \in 1 .. Len(toClient[t])
      BY <1>3, <3>1, TakenFrom
    <3>3. pc'[t] \in After
      BY <1>0, <1>1, <3>2 DEF LoginInv, Settled, After
    <3> QED
      BY <1>4, <2>2, <3>3 DEF After, Hangup
  <2> QED
    BY <2>1, <2>2
<1> QED
  BY <1>4, <1>5, <1>6, <1>7, <1>8, <1>9

LEMMA ReaderStep ==
  ASSUME IInv, [Next]_vars
  PROVE  ReaderInv'
<1>0. TypeOK /\ LoginInv /\ ReaderInv /\ NamesKept
  BY NamesFollow DEF IInv
<1>1. CASE UNCHANGED vars
  BY <1>0, <1>1 DEF ReaderInv, Hangup, vars, serverside, clientside
<1>2. CASE read_clients
  <2>1. CASE Conns = {}
    BY <1>0, <1>2, <2>1 DEF read_clients, RecvMessage, disconnect_client_index, DecryptMessage, Forward,
      ForwardTo, ForwardBreaks, RegistryBreaks, Step, ReaderInv
  <2> QED
    BY <1>0, <1>2, <2>1, ReaderEffects
\* A login thread or a client leaves the reader where it is.
<1>3. ASSUME at' = at, pc'[Reader] = pc[Reader], NothingNew,
             \A t \in Conns : pc[t] = "done" => pc'[t] = "done" /\ (toServer[t] # <<>> => toServer'[t] # <<>>)
      PROVE  ReaderInv'
  <2> SUFFICES ASSUME pc[Reader] # "select"
      PROVE /\ pc'[at] = "done"
            /\ pc[Reader] = "recv_message" => toServer'[at] # <<>> \/ Hangup(at)'
            /\ pc[Reader] = "disconnect_end" => Hangup(at)'
            /\ buffer'.kind \in {"message", "text"} => buffer'.conn = at /\ buffer'.to \in Conns
    BY <1>0, <1>3 DEF ReaderInv, Hangup
  <2>1. at \in Conns /\ pc[at] = "done"
    BY <1>0 DEF ReaderInv
  <2>2. \A t \in Conns : Hangup(t) => Hangup(t)'
    BY <1>0, HangupLasts
  <2>3. Hangup(at) => Hangup(at)'
    BY <1>3, <2>1, <2>2 DEF Hangup
  <2> QED
    BY <1>0, <1>3, <2>1, <2>3 DEF ReaderInv, NothingNew
<1>4. ASSUME NEW u \in Conns, init_client_conn(u) PROVE ReaderInv'
  BY <1>0, <1>3, <1>4, LoginThreadEffects
<1>5. ASSUME NEW c \in Conns, ClientActs(c) PROVE ReaderInv'
  <2>1. NothingNew
    BY <1>0, <1>5, ClientEffects DEF NothingNew, LoginInv
  <2> QED
    BY <1>0, <1>3, <1>5, <2>1, ClientEffects
<1> QED
  BY <1>1, <1>2, <1>4, <1>5, StepCases

LEMMA DeliveryStep ==
  ASSUME IInv, [Next]_vars
  PROVE  DeliveryInv'
<1>0. TypeOK /\ LoginInv /\ DeliveryInv /\ ReaderInv /\ NamesKept
  BY NamesFollow DEF IInv
<1> DEFINE Fine(m) == m = Junk \/ (m.conn \in Conns /\ (m.to = m.conn \/ disturbed'[m.conn]))
<1> SUFFICES ASSUME NEW c \in Conns
    PROVE /\ client'[c] = "online" => \A i \in 1 .. Len(toClient'[c]) : Fine(toClient'[c][i])
          /\ \A i, j \in 1 .. Len(toClient'[c]) :
               i < j /\ toClient'[c][i].kind = "success" => Fine(toClient'[c][j])
  BY DEF DeliveryInv, Attributed, Junk, Content
<1> DEFINE q == toClient[c]
<1>1. q \in Seq(Contents) /\ Len(q) \in Nat
  BY <1>0 DEF TypeOK
<1>2. \A m : Attributed(m) => Fine(m)
  <2>1. \A t \in Conns : disturbed[t] => disturbed'[t]
    BY <1>0, Effects DEF Settled
  <2> QED
    BY <2>1 DEF Attributed
<1>3. /\ client[c] = "online" => \A i \in 1 .. Len(q) : Fine(q[i])
      /\ \A i, j \in 1 .. Len(q) : i < j /\ q[i].kind = "success" => Fine(q[j])
      /\ \A i \in 1 .. Len(q) : q[i].kind = "success" => pc[c] \in After
      /\ client[c] = "online" => pc[c] \in After
  BY <1>0, <1>2 DEF DeliveryInv, LoginInv, After
<1> HIDE DEF Fine
<1>4. /\ client[c] = "online" => \A i \in 1 .. Len(toClient'[c]) : Fine(toClient'[c][i])
      /\ \A i, j \in 1 .. Len(toClient'[c]) :
           i < j /\ toClient'[c][i].kind = "success" => Fine(toClient'[c][j])
  <2>1. CASE toClient'[c] = q
    BY <1>3, <2>1
  <2>2. CASE q # <<>> /\ toClient'[c] = Tail(q)
    <3>1. /\ Len(Tail(q)) = Len(q) - 1
          /\ \A i \in 1 .. Len(q) - 1 : Tail(q)[i] = q[i + 1] /\ i + 1 \in 1 .. Len(q)
      BY <1>1, <2>2, TakenFrom
    <3> QED
      BY <1>1, <1>3, <2>2, <3>1
  <2>3. ASSUME NEW m \in Contents, toClient'[c] = Append(q, m), pc[c] \in After => Attributed(m)
        PROVE  /\ client[c] = "online" => \A i \in 1 .. Len(toClient'[c]) : Fine(toClient'[c][i])
               /\ \A i, j \in 1 .. Len(toClient'[c]) :
                    i < j /\ toClient'[c][i].kind = "success" => Fine(toClient'[c][j])
    <3>1. pc[c] \in After => Fine(m)
      BY <1>2, <2>3
    <3>2. /\ Len(Append(q, m)) = Len(q) + 1
          /\ \A i \in 1 .. Len(q) + 1 : Append(q, m)[i] = IF i = Len(q) + 1 THEN m ELSE q[i]
      BY <1>1, AppendedTo
    <3> QED
      BY <1>1, <1>3, <2>3, <3>1, <3>2
  <2>4. CASE toClient'[c] \in {<<>>, Unread}
    BY <2>4, UnreadIsJunk DEF Fine
  <2>5. Down(c)
    BY <1>0, Effects
  <2> QED
    BY <2>1, <2>2, <2>3, <2>4, <2>5 DEF Down
<1>5. CASE client'[c] = "online" /\ client[c] # "online"
  <2>1. q # <<>> /\ Head(q).kind = "success" /\ toClient'[c] = Tail(q)
    BY <1>0, <1>5, ComesOnline
  <2>2. /\ q[1].kind = "success" /\ 1 \in 1 .. Len(q) /\ Len(Tail(q)) = Len(q) - 1
        /\ \A i \in 1 .. Len(q) - 1 : Tail(q)[i] = q[i + 1] /\ i + 1 \in 1 .. Len(q)
    BY <1>1, <2>1, TakenFrom
  <2> QED
    BY <1>1, <1>3, <1>4, <2>1, <2>2
<1> QED
  BY <1>4, <1>5

LEMMA AttributionStep ==
  ASSUME IInv, [Next]_vars
  PROVE  Attribution'
<1>0. TypeOK /\ LoginInv /\ DeliveryInv /\ ReaderInv /\ NamesKept /\ Attribution
  BY NamesFollow DEF IInv
<1> SUFFICES ASSUME NEW c \in Conns, NEW m \in shown'[c]
    PROVE m.author \in Conns /\ (m.name = m.author \/ disturbed'[m.author])
  BY DEF Attribution
<1>1. \A t \in Conns : disturbed[t] => disturbed'[t]
  BY <1>0, Effects DEF Settled
<1>2. CASE m \in shown[c]
  BY <1>0, <1>1, <1>2 DEF Attribution
<1>3. CASE read_conndata(c) /\ m \notin shown[c]
  <2>1. /\ client[c] = "online" /\ toClient[c] # <<>> /\ Head(toClient[c]) # Junk
        /\ m = [author |-> Head(toClient[c]).conn, name |-> Head(toClient[c]).to]
    BY <1>0, <1>3 DEF read_conndata, Receives, TypeOK
  <2>2. Head(toClient[c]) = toClient[c][1] /\ 1 \in 1 .. Len(toClient[c])
    BY <1>0, <2>1, TakenFrom DEF TypeOK
  <2>3. Attributed(Head(toClient[c]))
    BY <1>0, <2>1, <2>2 DEF DeliveryInv
  <2> QED
    BY <1>1, <2>1, <2>3 DEF Attributed
<1>4. shown'[c] = shown[c] \/ read_conndata(c)
  <2>1. UNCHANGED shown \/ \E d \in Conns : ClientActs(d)
    BY <1>0, StepCases, LoginThreadEffects, ReaderEffects DEF vars, clientside
  <2>2. ASSUME NEW d \in Conns, ClientActs(d) PROVE shown'[c] = shown[c] \/ read_conndata(c)
    BY <1>0, <2>2 DEF ClientActs, ClientRuns, Connect, RecvPub, RecvMod, ClientCrashes, SendLogin,
      RecvReply, read_conndata, write_conndata, Leave, TypeOK
  <2> QED
    BY <2>1, <2>2
<1> QED
  BY <1>2, <1>3, <1>4

-----------------------------------------------------------------------------
(* Theorems                                                                *)

LEMMA InitInv == Init => IInv
<1> SUFFICES ASSUME Init PROVE IInv
  OBVIOUS
<1>1. TypeOK
  BY InitTypes
<1>2. ExchangeInv
  BY ConnsAssumption DEF Init, ExchangeInv, Handshake, Wire, Buffered, Kept, Keyed, Waiting, Named, Exchanging, Users
<1>3. LoginInv /\ DeliveryInv
  BY ConnsAssumption DEF Init, LoginInv, DeliveryInv, Zero, Content, Users
<1>4. ReaderInv /\ Attribution
  BY ConnsAssumption DEF Init, ReaderInv, Attribution, Users
<1> QED
  BY <1>1, <1>2, <1>3, <1>4 DEF IInv

\* IInv, the inductive invariant, holds in every reachable state.
THEOREM BufferInvariance == Spec => []IInv
<1>1. IInv /\ [Next]_vars => IInv'
  BY TypeStep, ExchangeStep, LoginStep, ReaderStep, DeliveryStep, AttributionStep DEF IInv
<1> QED
  BY InitInv, <1>1, PTL DEF Spec

\* The server keeps the key that the client made, for every thread that was not
\* disturbed, or a key it never uses for a login: that of a client which left before
\* its own came (main.c:363-397).
THEOREM KeysAgree == Spec => []KeyAgreement
<1>1. IInv => KeyAgreement
  BY NamesFollow DEF IInv
<1> QED
  BY BufferInvariance, <1>1, PTL

\* Under the same condition a client is known by the name it gave (main.c:267-277).
THEOREM NamesAreKept == Spec => []NamesKept
<1>1. IInv => NamesKept
  BY NamesFollow DEF IInv
<1> QED
  BY BufferInvariance, <1>1, PTL

\* What is printed as from somebody was written by them, unless the login of the
\* author was disturbed (main.c:103-140).
THEOREM AuthorsAreRight == Spec => []Attribution
<1>1. IInv => Attribution
  BY DEF IInv
<1> QED
  BY BufferInvariance, <1>1, PTL
=============================================================================
