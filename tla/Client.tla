--------------------------------- MODULE Client ---------------------------------
(***************************************************************************)
(* The client program, RelyConn_Client/src/main.c: main, its reading and   *)
(* its writing thread, the lines of standard input and the two byte        *)
(* streams of the connection; the other end does what a login thread, the  *)
(* reader and the writer of the server do with this one socket.  A byte is *)
(* reduced to its place in what one send was given.                        *)
(***************************************************************************)
EXTENDS Integers, Sequences

CONSTANTS
  BUFFER_LENGTH,        \* 1024 in stdrely_message.h
  LOGIN_LENGTH,         \* 32, the size of username_encrypted
  USERNAME_MAXLENGTH,   \* 16 in stdrely_accounting.h
  NOTICES,              \* what strlen may give for an encrypted notice (server main.c:193)
  LINES,                \* the lengths of the lines that a user types, newline included
  EXIT,                 \* the length of the line cmd|exit
  SOCKET_SPACE,         \* the bytes a connection holds before send waits
  MAX_LINES, MAX_FORWARDS, MAX_CUTS   \* bounds: lines typed, messages for this user, cuts

ASSUME LengthAssumption ==
  /\ {BUFFER_LENGTH, LOGIN_LENGTH, USERNAME_MAXLENGTH, EXIT} \subseteq Nat \ {0}
  /\ LOGIN_LENGTH <= BUFFER_LENGTH /\ USERNAME_MAXLENGTH <= BUFFER_LENGTH
  /\ EXIT < BUFFER_LENGTH /\ BUFFER_LENGTH <= SOCKET_SPACE /\ SOCKET_SPACE \in Nat
ASSUME InputAssumption ==
  /\ LINES \subseteq Nat \ {0} /\ NOTICES \subseteq Nat
  /\ {MAX_LINES, MAX_FORWARDS, MAX_CUTS} \subseteq Nat

VARIABLES
  main, reader, writer,   \* the next step of main, read_conndata and write_conndata
  is_terminated,          \* bool is_terminated
  stdin, typed, eof,      \* the lines not yet read, how many were typed, the end of input
  line,                   \* what is in account.username, then in message
  toServer, toClient,     \* the bytes under way
  reset,                  \* the next send of the client raises SIGPIPE
  server, forwards,       \* the other end: its step, and the messages it has forwarded
  cuts,                   \* how often TCP has cut what one send was given
  whole, noticed,         \* history: every receipt was one frame; a notice was sent
  astray, underrun, longest   \* history: see PromptsInStep

threads == <<reader, writer, is_terminated>>
input == <<stdin, typed, eof, line, astray, underrun, longest>>
wire == <<toServer, toClient, reset, cuts, whole>>
peer == <<server, forwards, noticed>>
vars == <<main, threads, input, wire, peer>>

-----------------------------------------------------------------------------
(* The connection                                                          *)

\* What one send is given; what is a byte's meaning, i its place.
Frame(what, len) == [i \in 1 .. len |-> [what |-> what, i |-> i, len |-> len]]
IsFrame(bytes) == bytes = Frame(bytes[1].what, bytes[1].len)

Most(stream, size) == IF Len(stream) < size THEN Len(stream) ELSE size
AtEnd(stream, k) == stream[k].i = stream[k].len

\* recv of at most size bytes: all there are, those of the sends that have
\* arrived, or fewer where TCP cuts.
recv(stream, size) ==
  {SubSeq(stream, 1, k) : k \in
     {k \in 1 .. Most(stream, size) : k = Most(stream, size) \/ AtEnd(stream, k) \/ cuts < MAX_CUTS}}

Received(stream, size, bytes) ==
  /\ cuts' = IF Len(bytes) = Most(stream, size) \/ AtEnd(bytes, Len(bytes)) THEN cuts ELSE cuts + 1
  /\ whole' = (whole /\ IsFrame(bytes))

After(stream, bytes) == SubSeq(stream, Len(bytes) + 1, Len(stream))

FromServer(size, bytes) ==
  /\ bytes \in recv(toClient, size)
  /\ toClient' = After(toClient, bytes)
  /\ Received(toClient, size, bytes)
  /\ UNCHANGED <<toServer, reset>>

HungUp == server = "closed" /\ toClient = <<>>      \* recv returns 0, or -1

\* A send waits for space; one to a closed connection is answered with a reset.
ToServer(frame) ==
  /\ ~reset
  /\ IF server = "closed" THEN reset' = TRUE /\ UNCHANGED toServer
     ELSE /\ Len(toServer) + Len(frame) <= SOCKET_SPACE
          /\ toServer' = toServer \o frame
          /\ UNCHANGED reset
  /\ UNCHANGED <<toClient, cuts, whole>>

-----------------------------------------------------------------------------
(* The user                                                                *)

Type ==
  /\ typed < MAX_LINES /\ ~eof /\ main # "ended"
  /\ \E l \in [left : LINES, exit : {FALSE}, begun : {FALSE}]
            \cup {[left |-> EXIT, exit |-> TRUE, begun |-> FALSE]} :
       /\ stdin' = Append(stdin, l)
       /\ longest' = IF l.left > longest THEN l.left ELSE longest
  /\ typed' = typed + 1
  /\ UNCHANGED <<main, threads, eof, line, astray, underrun, wire, peer>>

EndInput ==
  /\ ~eof /\ main # "ended"
  /\ eof' = TRUE
  /\ UNCHANGED <<main, threads, stdin, typed, line, astray, underrun, longest, wire, peer>>

\* Mutant of format_linestr: the newline stays.
format_linestrNot(l) == l

format_linestr(l) == [l EXCEPT !.newline = FALSE]

\* fgets(line, size, stdin) and format_linestr(line): a line that does not fit
\* goes on at the next call, and at the end of input the line stays what it was.
ReadLine(size) ==
  /\ \/ /\ stdin # <<>>
        /\ LET l == Head(stdin)
               n == IF l.left < size THEN l.left ELSE size - 1
               got == [chars |-> n - 1, newline |-> TRUE, exit |-> l.exit /\ ~l.begun]
           IN IF n = l.left
                THEN stdin' = Tail(stdin) /\ line' = format_linestr(got)
                ELSE /\ stdin' = <<[l EXCEPT !.left = @ - n, !.begun = TRUE]>> \o Tail(stdin)
                     /\ line' = format_linestr([chars |-> n, newline |-> FALSE, exit |-> FALSE])
        /\ astray' = (astray \/ Head(stdin).begun)
        /\ UNCHANGED underrun
     \/ /\ stdin = <<>> /\ eof
        /\ line' = format_linestr(line)
        /\ underrun' = (underrun \/ line.chars = 0)
        /\ UNCHANGED <<stdin, astray>>
  /\ UNCHANGED <<typed, eof, longest>>

-----------------------------------------------------------------------------
(* main: connect_to_server, encryption_system_inizialization, handle_login *)

Goto(label) == main' = label

Connect ==
  /\ main = "connect"
  /\ \/ Goto("recv_pub") /\ server' = "send_pub" /\ UNCHANGED <<forwards, noticed>>
     \/ Goto("ended") /\ UNCHANGED peer
  /\ UNCHANGED <<threads, input, wire>>

\* The receipts of the exchange are not looked at; at the end of the connection
\* n is zero, and mpz_powm divides by it.
RecvPub ==
  /\ main = "recv_pub"
  /\ Goto("recv_mod")
  /\ \/ \E bytes \in recv(toClient, BUFFER_LENGTH) : FromServer(BUFFER_LENGTH, bytes)
     \/ HungUp /\ UNCHANGED wire
  /\ UNCHANGED <<threads, input, peer>>

RecvMod ==
  /\ main = "recv_mod"
  /\ \/ Goto("send_key") /\ \E bytes \in recv(toClient, BUFFER_LENGTH) : FromServer(BUFFER_LENGTH, bytes)
     \/ Goto("ended") /\ HungUp /\ UNCHANGED wire
  /\ UNCHANGED <<threads, input, peer>>

SendKey ==
  /\ main = "send_key"
  /\ Goto("username")
  /\ ToServer(Frame("key", BUFFER_LENGTH))
  /\ UNCHANGED <<threads, input, peer>>

\* Mutant of NameSize: one more character than the array holds.
NameSizeOneMore == USERNAME_MAXLENGTH + 1
\* Mutant of NameSize: room is left for a zero that fgets has counted already.
NameSizeOneLess == USERNAME_MAXLENGTH - 1
NameSize == USERNAME_MAXLENGTH

ReadUsername ==
  /\ main = "username"
  /\ Goto("send_name")
  /\ ReadLine(NameSize)
  /\ UNCHANGED <<threads, wire, peer>>

SendName ==
  /\ main = "send_name"
  /\ Goto("reply")
  /\ ToServer(Frame("name", LOGIN_LENGTH))
  /\ UNCHANGED <<threads, input, peer>>

\* Mutant of ReplySize: the reply is received like any other frame.
ReplySizeOfBuffer == BUFFER_LENGTH
ReplySize == 1

\* What error[0] holds when nothing is received is not determined.
RecvReply ==
  /\ main = "reply"
  /\ \/ \E bytes \in recv(toClient, ReplySize) :
          /\ FromServer(ReplySize, bytes)
          /\ Goto(IF bytes[1].what = "success" THEN "start_reader" ELSE "username")
     \/ /\ HungUp /\ UNCHANGED wire
        /\ Goto("start_reader") \/ Goto("username")
  /\ UNCHANGED <<threads, input, peer>>

StartReader ==
  /\ main = "start_reader"
  /\ Goto("start_writer") /\ reader' = "recv"
  /\ UNCHANGED <<writer, is_terminated, input, wire, peer>>

\* char message[BUFFER_LENGTH] of the writing thread is not initialised.
StartWriter ==
  /\ main = "start_writer"
  /\ Goto("wait") /\ writer' = "fgets"
  /\ line' \in [chars : {0, 1}, newline : BOOLEAN, exit : {FALSE}]
  /\ UNCHANGED <<reader, is_terminated, stdin, typed, eof, astray, underrun, longest, wire, peer>>

\* is_terminated is seen: disconnect_from_server, and main returns.
Terminate ==
  /\ main = "wait" /\ is_terminated
  /\ Goto("ended")
  /\ UNCHANGED <<threads, input, wire, peer>>

\* SIGPIPE ends the process.
Killed ==
  /\ reset /\ main # "ended"
  /\ main \in {"send_key", "send_name"} \/ writer = "send"
  /\ Goto("ended")
  /\ UNCHANGED <<threads, input, wire, peer>>

Main ==
  \/ RecvPub \/ RecvMod \/ SendKey \/ SendName \/ RecvReply
  \/ StartReader \/ StartWriter \/ Terminate \/ Killed

-----------------------------------------------------------------------------
(* The two threads                                                         *)

read_conndata ==
  /\ reader = "recv" /\ main # "ended"
  /\ \/ (\E bytes \in recv(toClient, BUFFER_LENGTH) : FromServer(BUFFER_LENGTH, bytes)) /\ UNCHANGED threads
     \/ HungUp /\ reader' = "exited" /\ is_terminated' = TRUE /\ UNCHANGED <<writer, wire>>
  /\ UNCHANGED <<main, input, peer>>

ReadMessage ==
  /\ writer = "fgets" /\ main # "ended"
  /\ ReadLine(BUFFER_LENGTH)
  /\ IF line'.exit /\ ~line'.newline
       THEN writer' = "exited" /\ is_terminated' = TRUE
       ELSE writer' = "send" /\ UNCHANGED is_terminated
  /\ UNCHANGED <<main, reader, wire, peer>>

SendMessage ==        \* and memset(message, 0, BUFFER_LENGTH)
  /\ writer = "send" /\ main # "ended"
  /\ writer' = "fgets"
  /\ ToServer(Frame("message", BUFFER_LENGTH))
  /\ line' = [chars |-> 0, newline |-> FALSE, exit |-> FALSE]
  /\ UNCHANGED <<main, reader, is_terminated, stdin, typed, eof, astray, underrun, longest, peer>>

write_conndata == ReadMessage \/ SendMessage

-----------------------------------------------------------------------------
(* The other end                                                           *)

Serves(from, to) == server = from /\ server' = to /\ UNCHANGED <<forwards, noticed>>

Delivers(frame) ==
  /\ Len(toClient) + Len(frame) <= SOCKET_SPACE
  /\ toClient' = toClient \o frame
  /\ UNCHANGED <<toServer, reset, cuts, whole>>

FromClient(bytes) ==
  /\ toServer' = After(toServer, bytes)
  /\ Received(toServer, BUFFER_LENGTH, bytes)
  /\ UNCHANGED reset

init_encryption_client ==
  /\ \/ Serves("send_pub", "send_mod") /\ Delivers(Frame("pub", BUFFER_LENGTH))
     \/ Serves("send_mod", "recv_key") /\ Delivers(Frame("mod", BUFFER_LENGTH))
     \/ /\ Serves("recv_key", "login")
        /\ \E bytes \in recv(toServer, BUFFER_LENGTH) : FromClient(bytes)
        /\ UNCHANGED toClient
  /\ UNCHANGED <<main, threads, input>>

handle_login ==       \* receives when there is space for its answer
  /\ \E bytes \in recv(toServer, BUFFER_LENGTH) : FromClient(bytes)
  /\ Len(toClient) < SOCKET_SPACE
  /\ \/ Serves("login", "online") /\ toClient' = toClient \o Frame("success", 1)
     \/ Serves("login", "login") /\ toClient' = toClient \o Frame("refused", 1)
  /\ UNCHANGED <<main, threads, input>>

Online == server \in {"online", "kicking"}

read_clients ==       \* a message of this client
  /\ Online
  /\ \E bytes \in recv(toServer, BUFFER_LENGTH) : FromClient(bytes)
  /\ UNCHANGED <<main, threads, input, toClient, peer>>

Forward ==            \* a message for this client
  /\ Online /\ forwards < MAX_FORWARDS
  /\ forwards' = forwards + 1
  /\ Delivers(Frame("message", BUFFER_LENGTH))
  /\ UNCHANGED <<main, threads, input, server, noticed>>

Notice ==             \* write_clients sends strlen(message_kick) bytes of the notice
  /\ server = "online"
  /\ server' = "kicking" /\ noticed' = TRUE
  /\ \E len \in NOTICES : Delivers(Frame("notice", len))
  /\ UNCHANGED <<main, threads, input, forwards>>

\* disconnect_client, or the end of the server: what it has not received is
\* answered with a reset.
Close ==
  /\ server \notin {"none", "closed"}
  /\ Serves(server, "closed")
  /\ reset' = (toServer # <<>>) /\ toServer' = <<>>
  /\ UNCHANGED <<main, threads, input, toClient, cuts, whole>>

Server == init_encryption_client \/ handle_login \/ read_clients

-----------------------------------------------------------------------------
Init ==
  /\ main = "connect" /\ reader = "none" /\ writer = "none" /\ is_terminated = FALSE
  /\ stdin = <<>> /\ typed = 0 /\ eof = FALSE
  /\ line = [chars |-> 0, newline |-> FALSE, exit |-> FALSE]
  /\ toServer = <<>> /\ toClient = <<>> /\ reset = FALSE /\ cuts = 0
  /\ server = "none" /\ forwards = 0
  /\ whole = TRUE /\ noticed = FALSE /\ astray = FALSE /\ underrun = FALSE /\ longest = 0

Next ==
  \/ Type \/ EndInput
  \/ Connect \/ ReadUsername \/ Main \/ read_conndata \/ write_conndata
  \/ Server \/ Forward \/ Notice \/ Close

Spec == Init /\ [][Next]_vars

\* The threads of the client run.  The other end owes nothing: the reader of the server
\* may sleep, wait on another socket or have no slot for this one (server main.c:64, 79,
\* 103), and nobody has to type, to write to this user or to stop the server.
Fairness == WF_vars(Main) /\ WF_vars(read_conndata) /\ WF_vars(write_conndata)
FairSpec == Spec /\ Fairness

-----------------------------------------------------------------------------
(* Properties                                                              *)

Byte == [what : {"pub", "mod", "key", "name", "success", "refused", "message", "notice"},
         i : Nat \ {0}, len : Nat \ {0}]
Lines == [left : Nat \ {0}, exit : BOOLEAN, begun : BOOLEAN]

\* The lines are what their buffers hold and the streams what a connection does.
TypeOK ==
  /\ main \in {"connect", "recv_pub", "recv_mod", "send_key", "username", "send_name", "reply",
               "start_reader", "start_writer", "wait", "ended"}
  /\ reader \in {"none", "recv", "exited"} /\ writer \in {"none", "fgets", "send", "exited"}
  /\ server \in {"none", "send_pub", "send_mod", "recv_key", "login", "online", "kicking", "closed"}
  /\ {is_terminated, eof, reset, whole, noticed, astray, underrun} \subseteq BOOLEAN
  /\ line \in [chars : Nat, newline : BOOLEAN, exit : BOOLEAN]
  /\ line.chars < IF writer = "none" THEN USERNAME_MAXLENGTH ELSE BUFFER_LENGTH
  /\ stdin \in Seq(Lines) /\ typed \in 0 .. MAX_LINES /\ longest \in Nat
  /\ {toServer, toClient} \subseteq Seq(Byte)
  /\ Len(toServer) <= SOCKET_SPACE /\ Len(toClient) <= SOCKET_SPACE
  /\ cuts \in 0 .. MAX_CUTS /\ forwards \in 0 .. MAX_FORWARDS

\* Every recv of either program returns what one send of the other was given, as
\* both take for granted (server main.c:103, 267, 376; client main.c:102, 200,
\* 209, 264), unless TCP has cut a frame, which it seldom does on the loopback
\* interface the client connects to, or a notice of another length was sent.
FramesWhole == whole \/ cuts > 0 \/ noticed

\* Each name and each message is a line from its beginning, and format_linestr
\* gets no empty string (strformatting.c:5), unless a line with more characters
\* than the array for a username holds was typed, or the input has ended.
PromptsInStep ==
  /\ astray => longest >= USERNAME_MAXLENGTH
  /\ underrun => eof

\* The writing thread waits in send for a server that does not read.
Blocked ==
  writer = "send" /\ ~reset /\ server # "closed" /\ Len(toServer) + BUFFER_LENGTH > SOCKET_SPACE

\* The client, once logged in, ends when the server closes the connection, and when
\* the user types cmd|exit, whatever the two threads are at (client main.c:348),
\* unless the writing thread is blocked for good before it comes to that line.
ClientEnds == []<>~Blocked =>
  ((/\ main \in {"start_reader", "start_writer", "wait"}
    /\ server = "closed" \/ \E k \in 1 .. Len(stdin) : stdin[k].exit /\ ~stdin[k].begun)
     ~> main = "ended")

-----------------------------------------------------------------------------
(* What makes FramesWhole and PromptsInStep inductive                      *)

\* Frames of BUFFER_LENGTH bytes end to end: every byte lies in a whole frame.
Blocks(stream) ==
  \A k \in 1 .. Len(stream) :
    LET start == k - stream[k].i
    IN /\ stream[k].i <= BUFFER_LENGTH /\ 0 <= start /\ start + BUFFER_LENGTH <= Len(stream)
       /\ stream[k].len = BUFFER_LENGTH
       /\ \A j \in 1 .. BUFFER_LENGTH :
            stream[start + j].what = stream[k].what /\ stream[start + j].i = j

\* The answer to a name, and after success the messages for the user.
Answer(stream) ==
  /\ stream # <<>> /\ stream[1] \in [what : {"success", "refused"}, i : {1}, len : {1}]
  /\ stream[1].what = "refused" => Len(stream) = 1
  /\ Blocks(Tail(stream))

LoggedIn == {"start_reader", "start_writer", "wait"}

\* What is on its way to the client, by what the client is at.
ToClientInv ==
  /\ main \in {"recv_pub", "recv_mod"} \cup LoggedIn => Blocks(toClient)
  /\ main = "recv_pub" => Len(toClient) <= 2 * BUFFER_LENGTH
  /\ main = "recv_mod" => Len(toClient) <= BUFFER_LENGTH
  /\ main \in {"connect", "send_key", "username", "send_name"} => toClient = <<>>
  /\ main = "reply" => toClient = <<>> \/ Answer(toClient)

\* What is on its way to the server, and where the client can be meanwhile.
ToServerInv ==
  /\ server \in {"none", "send_pub", "send_mod", "closed"} => toServer = <<>>
  /\ server = "none" => main \in {"connect", "ended"}
  /\ server = "send_pub" => main = "recv_pub" /\ toClient = <<>>
  /\ server = "send_mod" => \/ main = "recv_pub" /\ Len(toClient) <= BUFFER_LENGTH
                            \/ main = "recv_mod" /\ toClient = <<>>
  /\ server = "recv_key" =>
       \/ main \in {"recv_pub", "recv_mod", "send_key"} /\ toServer = <<>>
       \/ main \in {"username", "send_name"} /\ toServer = Frame("key", BUFFER_LENGTH)
       \/ /\ main = "reply" /\ toClient = <<>>
          /\ toServer = Frame("key", BUFFER_LENGTH) \o Frame("name", LOGIN_LENGTH)
  /\ server = "login" =>
       \/ main \in {"username", "send_name"} /\ toServer = <<>>
       \/ main = "reply" /\ toServer = Frame("name", LOGIN_LENGTH) /\ toClient = <<>>
       \/ main = "reply" /\ toServer = <<>> /\ toClient # <<>> /\ toClient[1].what = "refused"
  /\ Online =>
       \/ main = "reply" /\ toServer = <<>> /\ toClient # <<>> /\ toClient[1].what = "success"
       \/ main \in LoggedIn \cup {"ended"} /\ Blocks(toServer)

\* A line is a remainder only after one longer than the array for a username.
LinesInv ==
  \A k \in 1 .. Len(stdin) :
    stdin[k].left <= longest /\ (stdin[k].begun => longest >= USERNAME_MAXLENGTH)

\* The other end waits for the client, the two threads for the login, and only a
\* closed connection resets.
ThreadsInv ==
  /\ main = "connect" => server = "none"
  /\ reader # "none" => main \in {"start_writer", "wait", "ended"}
  /\ writer # "none" => main \in {"wait", "ended"}
  /\ reset => server = "closed"

\* The inductive invariant.
IInv ==
  /\ TypeOK /\ ThreadsInv /\ LinesInv
  /\ cuts > 0 \/ noticed \/ (whole /\ ToClientInv /\ ToServerInv)
  /\ PromptsInStep
=============================================================================
