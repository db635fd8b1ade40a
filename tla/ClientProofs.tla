------------------------------ MODULE ClientProofs ------------------------------
(***************************************************************************)
(* What the client and the other end of its connection keep for any size   *)
(* of the buffers, any lines a user types and any number of messages.      *)
(***************************************************************************)
EXTENDS Client, TLAPS

LEMMA Lengths ==
  /\ BUFFER_LENGTH \in Nat /\ BUFFER_LENGTH > 1
  /\ SOCKET_SPACE \in Nat /\ BUFFER_LENGTH <= SOCKET_SPACE
  /\ LOGIN_LENGTH \in Nat /\ LOGIN_LENGTH > 0 /\ LOGIN_LENGTH <= BUFFER_LENGTH
  /\ USERNAME_MAXLENGTH \in Nat /\ USERNAME_MAXLENGTH > 0 /\ USERNAME_MAXLENGTH <= BUFFER_LENGTH
  /\ MAX_LINES \in Nat /\ MAX_FORWARDS \in Nat /\ MAX_CUTS \in Nat
  /\ EXIT \in Nat \ {0} /\ LINES \subseteq Nat \ {0} /\ NOTICES \subseteq Nat
BY LengthAssumption, InputAssumption

USE Lengths

-----------------------------------------------------------------------------
(* Streams                                                                 *)

What == {"pub", "mod", "key", "name", "success", "refused", "message", "notice"}

LEMMA BytesOf ==
  ASSUME NEW stream \in Seq(Byte)
  PROVE  /\ Len(stream) \in Nat /\ (stream # <<>> => Len(stream) >= 1)
         /\ \A k \in 1 .. Len(stream) :
              /\ stream[k] \in Byte /\ stream[k].i \in Nat /\ stream[k].i > 0 /\ stream[k].len \in Nat
              /\ stream[k].what \in What
<1>1. Len(stream) \in Nat /\ \A k \in 1 .. Len(stream) : stream[k] \in Byte
  OBVIOUS
<1>2. stream # <<>> => Len(stream) # 0
  OBVIOUS
<1>3. \A b \in Byte : b.i \in Nat /\ b.i > 0 /\ b.len \in Nat /\ b.what \in What
  BY DEF Byte, What
<1> QED
  BY <1>1, <1>2, <1>3

\* The bytes of a stream from n + 1 on are those of a frame.
HasFrame(stream, n, what, len) ==
  \A k \in 1 .. len :
    stream[n + k].what = what /\ stream[n + k].i = k /\ stream[n + k].len = len

LEMMA FrameBytes ==
  ASSUME NEW what \in What, NEW len \in Nat
  PROVE  /\ Frame(what, len) \in Seq(Byte) /\ Len(Frame(what, len)) = len
         /\ HasFrame(Frame(what, len), 0, what, len)
<1>1. \A k \in 1 .. len : [what |-> what, i |-> k, len |-> len] \in Byte
  BY DEF What, Byte
<1>2. Frame(what, len) \in [1 .. len -> Byte]
  BY <1>1 DEF Frame
<1>3. Frame(what, len) \in Seq(Byte) /\ Len(Frame(what, len)) = len
  BY <1>2
<1>4. ASSUME NEW k \in 1 .. len
      PROVE  LET b == Frame(what, len)[0 + k] IN b.what = what /\ b.i = k /\ b.len = len
  <2>1. 0 + k = k
    OBVIOUS
  <2>2. Frame(what, len)[k] = [what |-> what, i |-> k, len |-> len]
    BY DEF Frame
  <2> QED
    BY <2>1, <2>2
<1> QED
  BY <1>3, <1>4 DEF HasFrame

\* A stream with the bytes of a frame is this frame.
LEMMA FrameEqual ==
  ASSUME NEW what \in What, NEW len \in Nat, NEW stream \in Seq(Byte), Len(stream) = len,
         HasFrame(stream, 0, what, len)
  PROVE  stream = Frame(what, len)
<1>1. ASSUME NEW k \in 1 .. len PROVE stream[k] = Frame(what, len)[k]
  <2>1. stream[k] \in Byte /\ stream[0 + k] = stream[k]
    OBVIOUS
  <2>2. stream[k].what = what /\ stream[k].i = k /\ stream[k].len = len
    BY <2>1 DEF HasFrame
  <2>3. stream[k] = [what |-> what, i |-> k, len |-> len]
    BY <2>1, <2>2 DEF Byte
  <2> QED
    BY <2>3 DEF Frame
<1>2. Frame(what, len) \in Seq(Byte) /\ Len(Frame(what, len)) = len
  BY FrameBytes
<1> QED
  BY <1>1, <1>2

LEMMA Rest ==
  ASSUME NEW stream \in Seq(Byte), NEW bytes \in Seq(Byte), Len(bytes) <= Len(stream)
  PROVE  /\ After(stream, bytes) \in Seq(Byte)
         /\ Len(After(stream, bytes)) = Len(stream) - Len(bytes)
         /\ \A n \in 1 .. Len(stream) - Len(bytes) : After(stream, bytes)[n] = stream[Len(bytes) + n]
<1> DEFINE k == Len(bytes)
           l == Len(stream)
<1>1. k \in Nat /\ l \in Nat /\ k <= l
  OBVIOUS
<1>2. After(stream, bytes) = SubSeq(stream, k + 1, l)
  BY DEF After
<1> HIDE DEF k
<1>3. Len(SubSeq(stream, k + 1, l)) = l - k
  BY <1>1
<1>4. SubSeq(stream, k + 1, l) \in Seq(Byte)
  BY <1>1
<1>5. \A n \in 1 .. l - k : SubSeq(stream, k + 1, l)[n] = stream[k + n]
  BY <1>1
<1> QED
  BY <1>2, <1>3, <1>4, <1>5 DEF k

\* What recv returns is the beginning of the stream, and After is the rest.
LEMMA RecvBytes ==
  ASSUME NEW stream \in Seq(Byte), NEW size \in Nat, NEW bytes \in recv(stream, size)
  PROVE  /\ bytes \in Seq(Byte) /\ Len(bytes) \in 1 .. Len(stream) /\ Len(bytes) <= size
         /\ \A k \in 1 .. Len(bytes) : bytes[k] = stream[k]
         /\ After(stream, bytes) \in Seq(Byte)
         /\ Len(After(stream, bytes)) = Len(stream) - Len(bytes)
         /\ \A k \in 1 .. Len(stream) - Len(bytes) : After(stream, bytes)[k] = stream[Len(bytes) + k]
         /\ stream # <<>> /\ (Len(bytes) = Len(stream) => After(stream, bytes) = <<>>)
         /\ Len(bytes) = Most(stream, size) \/ AtEnd(bytes, Len(bytes)) \/ cuts < MAX_CUTS
<1>1. PICK k \in 1 .. Most(stream, size) :
        /\ bytes = SubSeq(stream, 1, k)
        /\ k = Most(stream, size) \/ AtEnd(stream, k) \/ cuts < MAX_CUTS
  BY DEF recv
<1>2. k \in 1 .. Len(stream) /\ k <= size
  BY DEF Most
<1>3. bytes \in Seq(Byte) /\ Len(bytes) = k /\ \A n \in 1 .. k : bytes[n] = stream[n]
  BY <1>1, <1>2
<1>4. /\ After(stream, bytes) \in Seq(Byte) /\ Len(After(stream, bytes)) = Len(stream) - k
      /\ \A n \in 1 .. Len(stream) - k : After(stream, bytes)[n] = stream[k + n]
  <2>1. Len(bytes) <= Len(stream) /\ Len(bytes) = k /\ bytes \in Seq(Byte)
    BY <1>2, <1>3
  <2>2. /\ After(stream, bytes) \in Seq(Byte) /\ Len(After(stream, bytes)) = Len(stream) - Len(bytes)
        /\ \A n \in 1 .. Len(stream) - Len(bytes) : After(stream, bytes)[n] = stream[Len(bytes) + n]
    BY <2>1, Rest
  <2> QED
    BY <2>1, <2>2
<1>5. AtEnd(stream, k) => AtEnd(bytes, Len(bytes))
  BY <1>2, <1>3 DEF AtEnd
<1>6. stream # <<>> /\ (k = Len(stream) => After(stream, bytes) = <<>>)
  BY <1>2, <1>4
<1> QED
  BY <1>1, <1>2, <1>3, <1>4, <1>5, <1>6

\* A stream that a frame is put into.
LEMMA Appended ==
  ASSUME NEW stream \in Seq(Byte), NEW what \in What, NEW len \in Nat
  PROVE  /\ stream \o Frame(what, len) \in Seq(Byte)
         /\ Len(stream \o Frame(what, len)) = Len(stream) + len
         /\ \A k \in 1 .. Len(stream) : (stream \o Frame(what, len))[k] = stream[k]
         /\ HasFrame(stream \o Frame(what, len), Len(stream), what, len)
         /\ stream = <<>> => stream \o Frame(what, len) = Frame(what, len)
<1> DEFINE f == Frame(what, len)
<1>1. f \in Seq(Byte) /\ Len(f) = len
  BY FrameBytes
<1>2. \A k \in 1 .. len : f[0 + k].what = what /\ f[0 + k].i = k /\ f[0 + k].len = len
  BY FrameBytes DEF HasFrame
<1> HIDE DEF f
<1>3. stream \o f \in Seq(Byte) /\ Len(stream \o f) = Len(stream) + len
  BY <1>1
<1>4. \A k \in 1 .. Len(stream) : (stream \o f)[k] = stream[k]
  BY <1>1
<1>5. \A k \in 1 .. len : (stream \o f)[Len(stream) + k] = f[k]
  BY <1>1
<1>6. stream = <<>> => stream \o f = f
  BY <1>1
<1>7. HasFrame(stream \o f, Len(stream), what, len)
  <2>1. ASSUME NEW k \in 1 .. len
        PROVE  f[k].what = what /\ f[k].i = k /\ f[k].len = len
    <3>1. 0 + k = k
      OBVIOUS
    <3>2. f[0 + k].what = what /\ f[0 + k].i = k /\ f[0 + k].len = len
      BY <1>2
    <3> QED
      BY <3>1, <3>2
  <2> DEFINE g == stream \o f
  <2>2. \A k \in 1 .. len : g[Len(stream) + k] = f[k]
    BY <1>5
  <2> HIDE DEF g
  <2>3. ASSUME NEW k \in 1 .. len
        PROVE  g[Len(stream) + k].what = what /\ g[Len(stream) + k].i = k /\ g[Len(stream) + k].len = len
    <3>1. g[Len(stream) + k] = f[k]
      BY <2>2
    <3> QED
      BY <2>1, <3>1
  <2>4. HasFrame(g, Len(stream), what, len)
    BY <2>3 DEF HasFrame
  <2> QED
    BY <2>4 DEF g
<1> QED
  BY <1>3, <1>4, <1>6, <1>7 DEF f

\* What Blocks says of byte k.
InBlock(stream, k, start) ==
  /\ stream[k].i <= BUFFER_LENGTH /\ 0 <= start /\ start + BUFFER_LENGTH <= Len(stream)
  /\ stream[k].len = BUFFER_LENGTH
  /\ \A j \in 1 .. BUFFER_LENGTH :
       stream[start + j].what = stream[k].what /\ stream[start + j].i = j

LEMMA BlockAt ==
  ASSUME NEW stream, Blocks(stream), NEW k \in 1 .. Len(stream)
  PROVE  InBlock(stream, k, k - stream[k].i)
BY Zenon DEF Blocks, InBlock

LEMMA BlocksAppended ==
  ASSUME NEW stream \in Seq(Byte), Blocks(stream), NEW what \in What
  PROVE  Blocks(stream \o Frame(what, BUFFER_LENGTH))
<1> DEFINE s == stream \o Frame(what, BUFFER_LENGTH)
<1>1. /\ Len(s) = Len(stream) + BUFFER_LENGTH /\ Len(stream) \in Nat
      /\ \A k \in 1 .. Len(stream) : s[k] = stream[k]
      /\ HasFrame(s, Len(stream), what, BUFFER_LENGTH)
  BY Appended, BytesOf
<1> HIDE DEF s
<1>2. SUFFICES ASSUME NEW k \in 1 .. Len(s) PROVE InBlock(s, k, k - s[k].i)
  BY DEF Blocks, InBlock, s
<1>3. CASE k <= Len(stream)
  <2>1. s[k] = stream[k] /\ stream[k].i \in Nat
    BY <1>1, <1>3, BytesOf
  <2> DEFINE start == k - stream[k].i
  <2>2. InBlock(stream, k, start) /\ start \in Int
    <3>1. k \in 1 .. Len(stream)
      BY <1>1, <1>3
    <3>2. InBlock(stream, k, start)
      BY <3>1, BlockAt
    <3> QED
      BY <2>1, <3>2
  <2>3. k - s[k].i = start
    BY <2>1
  <2> HIDE DEF start
  <2>4. \A j \in 1 .. BUFFER_LENGTH : start + j \in 1 .. Len(stream)
    BY <1>1, <2>2 DEF InBlock
  <2>5. \A j \in 1 .. BUFFER_LENGTH : s[start + j] = stream[start + j]
    BY <1>1, <2>4
  <2>6. s[k].i <= BUFFER_LENGTH /\ s[k].len = BUFFER_LENGTH
    BY <2>1, <2>2 DEF InBlock
  <2>7. 0 <= start /\ start + BUFFER_LENGTH <= Len(s)
    BY <1>1, <2>2 DEF InBlock
  <2>8. \A j \in 1 .. BUFFER_LENGTH : s[start + j].what = s[k].what /\ s[start + j].i = j
    BY <2>1, <2>2, <2>5 DEF InBlock
  <2> QED
    BY <2>3, <2>6, <2>7, <2>8 DEF InBlock
<1>4. CASE k > Len(stream)
  <2>1. PICK j \in 1 .. BUFFER_LENGTH : k = Len(stream) + j
    <3>1. k - Len(stream) \in 1 .. BUFFER_LENGTH /\ k = Len(stream) + (k - Len(stream))
      BY <1>1, <1>4
    <3> QED
      BY <3>1
  <2>2. s[k].what = what /\ s[k].i = j /\ s[k].len = BUFFER_LENGTH
    BY <1>1, <2>1 DEF HasFrame
  <2>3. k - s[k].i = Len(stream)
    BY <1>1, <2>1, <2>2
  <2>4. \A m \in 1 .. BUFFER_LENGTH : s[Len(stream) + m].what = what /\ s[Len(stream) + m].i = m
    BY <1>1 DEF HasFrame
  <2> QED
    BY <1>1, <2>2, <2>3, <2>4 DEF InBlock
<1> QED
  BY <1>1, <1>3, <1>4

\* The first frame of a stream of frames.
LEMMA FirstBlock ==
  ASSUME NEW stream \in Seq(Byte), Blocks(stream), stream # <<>>
  PROVE  /\ BUFFER_LENGTH <= Len(stream)
         /\ HasFrame(stream, 0, stream[1].what, BUFFER_LENGTH)
<1>1. 1 \in 1 .. Len(stream) /\ stream[1].i \in Nat /\ stream[1].i > 0
  BY BytesOf
<1>2. InBlock(stream, 1, 1 - stream[1].i)
  BY <1>1, BlockAt
<1>3. 1 - stream[1].i = 0
  BY <1>1, <1>2 DEF InBlock
<1>4. ASSUME NEW j \in 1 .. BUFFER_LENGTH
      PROVE  stream[0 + j].what = stream[1].what /\ stream[0 + j].i = j /\ stream[0 + j].len = BUFFER_LENGTH
  <2>1. j \in 1 .. Len(stream) /\ 0 + j = j
    <3>1. Len(stream) \in Nat /\ BUFFER_LENGTH <= Len(stream)
      BY <1>2, <1>3 DEF InBlock
    <3> QED
      BY <3>1
  <2>2. stream[j].len = BUFFER_LENGTH
    <3>1. InBlock(stream, j, j - stream[j].i)
      BY <2>1, BlockAt
    <3> QED
      BY <3>1 DEF InBlock
  <2> QED
    BY <1>2, <1>3, <2>1, <2>2 DEF InBlock
<1> QED
  BY <1>2, <1>3, <1>4 DEF InBlock, HasFrame

LEMMA BlocksAfter ==
  ASSUME NEW stream \in Seq(Byte), Blocks(stream), stream # <<>>,
         NEW bytes \in recv(stream, BUFFER_LENGTH), Len(bytes) = BUFFER_LENGTH
  PROVE  Blocks(After(stream, bytes))
<1> DEFINE s == After(stream, bytes)
<1>1. /\ Len(s) = Len(stream) - BUFFER_LENGTH /\ s \in Seq(Byte)
      /\ \A k \in 1 .. Len(s) : s[k] = stream[BUFFER_LENGTH + k]
  <2>1. BUFFER_LENGTH \in Nat
    OBVIOUS
  <2>2. bytes \in Seq(Byte) /\ Len(bytes) <= Len(stream)
    BY <2>1, RecvBytes
  <2>3. /\ s \in Seq(Byte) /\ Len(s) = Len(stream) - Len(bytes)
        /\ \A k \in 1 .. Len(stream) - Len(bytes) : s[k] = stream[Len(bytes) + k]
    BY <2>2, Rest
  <2> QED
    BY <2>3
<1> HIDE DEF s
<1>2. SUFFICES ASSUME NEW k \in 1 .. Len(s) PROVE InBlock(s, k, k - s[k].i)
  BY DEF Blocks, InBlock, s
<1> DEFINE n == BUFFER_LENGTH + k
           start == n - stream[n].i
<1>3. n \in 1 .. Len(stream) /\ s[k] = stream[n] /\ stream[n].i \in Nat /\ start \in Int
  <2>1. Len(stream) \in Nat
    OBVIOUS
  <2>2. n \in 1 .. Len(stream) /\ s[k] = stream[n]
    BY <1>1, <2>1
  <2>3. stream[n].i \in Nat
    BY <2>2, BytesOf
  <2> QED
    BY <2>1, <2>2, <2>3
<1>4. InBlock(stream, n, start)
  BY <1>3, BlockAt
<1>5. k - s[k].i = start - BUFFER_LENGTH /\ start + stream[n].i = n /\ n > BUFFER_LENGTH
  <2>1. k \in Nat /\ k > 0 /\ s[k].i = stream[n].i /\ stream[n].i \in Nat
    BY <1>1, <1>3, BytesOf
  <2> QED
    BY <2>1
<1> HIDE DEF start, n
<1>6. ASSUME start < BUFFER_LENGTH PROVE FALSE
  <2>1. stream[0 + BUFFER_LENGTH].i = BUFFER_LENGTH
    BY FirstBlock DEF HasFrame
  <2>2. BUFFER_LENGTH - start \in 1 .. BUFFER_LENGTH /\ start + (BUFFER_LENGTH - start) = BUFFER_LENGTH
    BY <1>3, <1>4, <1>6 DEF InBlock
  <2>3. stream[start + (BUFFER_LENGTH - start)].i = BUFFER_LENGTH - start
    BY <1>4, <2>2 DEF InBlock
  <2>4. start = 0
    BY <1>3, <2>1, <2>2, <2>3
  <2> QED
    BY <1>3, <1>4, <1>5, <2>4 DEF InBlock
<1>7. \A j \in 1 .. BUFFER_LENGTH : s[start - BUFFER_LENGTH + j] = stream[start + j]
  <2> TAKE j \in 1 .. BUFFER_LENGTH
  <2>1. start - BUFFER_LENGTH + j \in 1 .. Len(s)
    BY <1>1, <1>3, <1>4, <1>6 DEF InBlock
  <2>2. BUFFER_LENGTH + (start - BUFFER_LENGTH + j) = start + j
    BY <1>3
  <2> QED
    BY <1>1, <2>1, <2>2
<1>8. s[k].i <= BUFFER_LENGTH /\ s[k].len = BUFFER_LENGTH /\ k - s[k].i = start - BUFFER_LENGTH
  <2>1. stream[n].i <= BUFFER_LENGTH /\ stream[n].len = BUFFER_LENGTH
    BY <1>4 DEF InBlock
  <2> QED
    BY <1>3, <1>5, <2>1
<1>9. 0 <= start - BUFFER_LENGTH /\ start - BUFFER_LENGTH + BUFFER_LENGTH <= Len(s)
  BY <1>1, <1>3, <1>4, <1>6 DEF InBlock
<1>10. \A j \in 1 .. BUFFER_LENGTH :
         s[start - BUFFER_LENGTH + j].what = s[k].what /\ s[start - BUFFER_LENGTH + j].i = j
  BY <1>3, <1>4, <1>7 DEF InBlock
<1> QED
  BY <1>8, <1>9, <1>10 DEF InBlock

-----------------------------------------------------------------------------
(* Types                                                                   *)

WireOK ==
  /\ toServer \in Seq(Byte) /\ toClient \in Seq(Byte)
  /\ Len(toServer) <= SOCKET_SPACE /\ Len(toClient) <= SOCKET_SPACE
  /\ reset \in BOOLEAN /\ whole \in BOOLEAN /\ cuts \in 0 .. MAX_CUTS
PeerOK ==
  /\ server \in {"none", "send_pub", "send_mod", "recv_key", "login", "online", "kicking", "closed"}
  /\ forwards \in 0 .. MAX_FORWARDS /\ noticed \in BOOLEAN
ControlOK ==
  /\ main \in {"connect", "recv_pub", "recv_mod", "send_key", "username", "send_name", "reply",
               "start_reader", "start_writer", "wait", "ended"}
  /\ reader \in {"none", "recv", "exited"} /\ writer \in {"none", "fgets", "send", "exited"}
  /\ is_terminated \in BOOLEAN
LineOK ==
  /\ line \in [chars : Nat, newline : BOOLEAN, exit : BOOLEAN]
  /\ line.chars < IF writer = "none" THEN USERNAME_MAXLENGTH ELSE BUFFER_LENGTH
TypedOK ==
  /\ stdin \in Seq(Lines) /\ typed \in 0 .. MAX_LINES /\ longest \in Nat
  /\ eof \in BOOLEAN /\ astray \in BOOLEAN /\ underrun \in BOOLEAN

LEMMA TypeParts == TypeOK <=> ControlOK /\ LineOK /\ TypedOK /\ WireOK /\ PeerOK
BY DEF TypeOK, ControlOK, LineOK, TypedOK, WireOK, PeerOK

\* Every send of either program is one of these.
Sends == {Frame(what, len) : what \in What, len \in {1, LOGIN_LENGTH, BUFFER_LENGTH} \cup NOTICES}

LEMMA AppendedOK ==
  ASSUME NEW frame \in Sends, NEW stream \in Seq(Byte)
  PROVE  stream \o frame \in Seq(Byte) /\ Len(stream \o frame) = Len(stream) + Len(frame)
<1>1. PICK what \in What, len \in {1, LOGIN_LENGTH, BUFFER_LENGTH} \cup NOTICES : frame = Frame(what, len)
  BY DEF Sends
<1>2. len \in Nat
  OBVIOUS
<1>3. frame \in Seq(Byte)
  BY <1>1, <1>2, FrameBytes
<1> QED
  BY <1>3

LEMMA ReceivedOK ==
  ASSUME WireOK, NEW stream \in Seq(Byte), NEW size \in Nat, NEW bytes \in recv(stream, size),
         Received(stream, size, bytes)
  PROVE  whole' \in BOOLEAN /\ cuts' \in 0 .. MAX_CUTS
<1>1. whole' \in BOOLEAN
  BY DEF Received, WireOK
<1>2. Len(bytes) = Most(stream, size) \/ AtEnd(bytes, Len(bytes)) \/ cuts < MAX_CUTS
  BY RecvBytes
<1>3. cuts' \in 0 .. MAX_CUTS
  BY <1>2 DEF Received, WireOK
<1> QED
  BY <1>1, <1>3

LEMMA FromServerOK ==
  ASSUME WireOK, NEW size \in Nat, NEW bytes \in recv(toClient, size), FromServer(size, bytes)
  PROVE  WireOK'
<1>1. toClient \in Seq(Byte) /\ Received(toClient, size, bytes)
  BY DEF WireOK, FromServer
<1>2. whole' \in BOOLEAN /\ cuts' \in 0 .. MAX_CUTS
  BY <1>1, ReceivedOK
<1>3. toClient' \in Seq(Byte) /\ Len(toClient') <= Len(toClient) /\ Len(toClient) \in Nat
  <2>1. /\ After(toClient, bytes) \in Seq(Byte) /\ Len(bytes) \in 1 .. Len(toClient)
        /\ Len(After(toClient, bytes)) = Len(toClient) - Len(bytes)
    BY <1>1, RecvBytes
  <2> QED
    BY <2>1, <1>1 DEF FromServer
<1> QED
  BY <1>1, <1>2, <1>3 DEF WireOK, FromServer

LEMMA FromClientOK ==
  ASSUME WireOK, NEW bytes \in recv(toServer, BUFFER_LENGTH), FromClient(bytes),
         toClient' \in Seq(Byte), Len(toClient') <= SOCKET_SPACE
  PROVE  WireOK'
<1>1. toServer \in Seq(Byte) /\ Received(toServer, BUFFER_LENGTH, bytes) /\ BUFFER_LENGTH \in Nat
  BY DEF WireOK, FromClient
<1>2. whole' \in BOOLEAN /\ cuts' \in 0 .. MAX_CUTS
  BY <1>1, ReceivedOK
<1>3. toServer' \in Seq(Byte) /\ Len(toServer') <= Len(toServer) /\ Len(toServer) \in Nat
  <2>1. /\ After(toServer, bytes) \in Seq(Byte) /\ Len(bytes) \in 1 .. Len(toServer)
        /\ Len(After(toServer, bytes)) = Len(toServer) - Len(bytes)
    BY <1>1, RecvBytes
  <2> QED
    BY <2>1, <1>1 DEF FromClient
<1> QED
  BY <1>1, <1>2, <1>3 DEF WireOK, FromClient

LEMMA ToServerOK ==
  ASSUME WireOK, NEW frame \in Sends, ToServer(frame)
  PROVE  WireOK'
<1>1. CASE server = "closed"
  BY <1>1 DEF WireOK, ToServer
<1>2. CASE server # "closed"
  <2>1. toServer' \in Seq(Byte) /\ Len(toServer') <= SOCKET_SPACE
    BY <1>2, AppendedOK DEF WireOK, ToServer
  <2> QED
    BY <1>2, <2>1 DEF WireOK, ToServer
<1> QED
  BY <1>1, <1>2

LEMMA DeliversOK ==
  ASSUME WireOK, NEW frame \in Sends, Delivers(frame)
  PROVE  WireOK'
<1>1. toClient' \in Seq(Byte) /\ Len(toClient') <= SOCKET_SPACE
  BY AppendedOK DEF WireOK, Delivers
<1> QED
  BY <1>1 DEF WireOK, Delivers

LEMMA RestOfLine ==
  ASSUME NEW l \in Lines, NEW n \in Nat, n < l.left
  PROVE  LET rest == [l EXCEPT !.left = @ - n, !.begun = TRUE]
         IN rest \in Lines /\ rest.left = l.left - n /\ rest.begun = TRUE
<1> DEFINE m == l.left - n
           rest == [l EXCEPT !.left = m, !.begun = TRUE]
<1>1. m \in Nat \ {0}
  BY DEF Lines
<1> HIDE DEF m
<1>2. rest \in Lines
  BY <1>1 DEF Lines
<1>3. rest.left = m
  BY DEF Lines
<1>4. rest.begun = TRUE
  BY DEF Lines
<1> QED
  BY <1>2, <1>3, <1>4 DEF m

\* What is read is of a line that was typed, and fits.
LEMMA ReadLineOK ==
  ASSUME LineOK, TypedOK, NEW size \in Nat, size > 0, ReadLine(size)
  PROVE  /\ TypedOK' /\ line' \in [chars : Nat, newline : BOOLEAN, exit : BOOLEAN]
         /\ line'.chars < size \/ line'.chars = line.chars
         /\ LinesInv /\ size >= USERNAME_MAXLENGTH => LinesInv'
         /\ astray' => astray \/ (stdin # <<>> /\ stdin[1].begun)
<1>1. CASE stdin = <<>> /\ eof /\ line' = format_linestr(line) /\ UNCHANGED <<stdin, astray, typed, eof, longest>>
           /\ underrun' = (underrun \/ line.chars = 0)
  <2>1. line' \in [chars : Nat, newline : BOOLEAN, exit : BOOLEAN] /\ line'.chars = line.chars
    BY <1>1 DEF LineOK, format_linestr
  <2>2. TypedOK'
    BY <1>1 DEF TypedOK
  <2> QED
    BY <1>1, <2>1, <2>2 DEF LinesInv
<1> DEFINE l == Head(stdin)
           n == IF l.left < size THEN l.left ELSE size - 1
           got == [chars |-> n - 1, newline |-> TRUE, exit |-> l.exit /\ ~l.begun]
           rest == [l EXCEPT !.left = @ - n, !.begun = TRUE]
<1>2. CASE /\ stdin # <<>> /\ astray' = (astray \/ l.begun)
           /\ UNCHANGED <<underrun, typed, eof, longest>>
           /\ IF n = l.left
                THEN stdin' = Tail(stdin) /\ line' = format_linestr(got)
                ELSE /\ stdin' = <<rest>> \o Tail(stdin)
                     /\ line' = format_linestr([chars |-> n, newline |-> FALSE, exit |-> FALSE])
  <2>1. /\ l \in Lines /\ l = stdin[1] /\ Len(stdin) \in Nat /\ Len(stdin) >= 1
        /\ Tail(stdin) \in Seq(Lines) /\ Len(Tail(stdin)) = Len(stdin) - 1
        /\ \A k \in 1 .. Len(stdin) - 1 : Tail(stdin)[k] = stdin[k + 1]
    <3>1. stdin \in Seq(Lines) /\ stdin # <<>>
      BY <1>2 DEF TypedOK
    <3>2. Len(stdin) \in Nat /\ Len(stdin) # 0
      BY <3>1
    <3> QED
      BY <3>1, <3>2
  <2>2. l.left \in Nat /\ l.left > 0 /\ l.exit \in BOOLEAN /\ l.begun \in BOOLEAN
    BY <2>1 DEF Lines
  <2> HIDE DEF l
  <2>3. n \in Nat /\ n < size /\ n <= l.left /\ (n # l.left => n = size - 1 /\ n < l.left)
    BY <2>2
  <2>4. CASE n = l.left
    <3>1. stdin' = Tail(stdin) /\ line' = format_linestr(got)
      BY <1>2, <2>4
    <3>2. line' = [chars |-> n - 1, newline |-> FALSE, exit |-> l.exit /\ ~l.begun]
      BY <3>1 DEF format_linestr
    <3>3. line' \in [chars : Nat, newline : BOOLEAN, exit : BOOLEAN] /\ line'.chars < size
      BY <2>2, <2>3, <2>4, <3>2
    <3>4. TypedOK'
      BY <1>2, <2>1, <2>2, <3>1 DEF TypedOK
    <3>5. ASSUME LinesInv PROVE LinesInv'
      <4> HIDE DEF l, n, got, rest
      <4>1. /\ longest' = longest /\ Len(stdin') = Len(stdin) - 1 /\ Len(stdin) \in Nat
            /\ \A k \in 1 .. Len(stdin) - 1 : stdin'[k] = stdin[k + 1]
        BY <1>2, <2>1, <3>1
      <4>2. \A k \in 1 .. Len(stdin) :
              stdin[k].left <= longest /\ (stdin[k].begun => longest >= USERNAME_MAXLENGTH)
        BY <3>5 DEF LinesInv
      <4>3. \A k \in 1 .. Len(stdin) - 1 : k + 1 \in 1 .. Len(stdin)
        BY <4>1
      <4> QED
        BY <4>1, <4>2, <4>3 DEF LinesInv
    <3> QED
      BY <1>2, <2>1, <3>3, <3>4, <3>5
  <2>5. CASE n # l.left
    <3> HIDE DEF n
    <3>1. /\ stdin' = <<rest>> \o Tail(stdin)
          /\ line' = format_linestr([chars |-> n, newline |-> FALSE, exit |-> FALSE])
      BY <1>2, <2>5
    <3>2. line' = [chars |-> n, newline |-> FALSE, exit |-> FALSE]
      BY <3>1 DEF format_linestr
    <3>3. line' \in [chars : Nat, newline : BOOLEAN, exit : BOOLEAN] /\ line'.chars < size
      BY <2>3, <3>2
    <3>4. rest \in Lines /\ rest.left = l.left - n /\ rest.begun = TRUE
      BY <2>1, <2>3, <2>5, RestOfLine
    <3> HIDE DEF rest
    <3>5. /\ stdin' \in Seq(Lines) /\ Len(stdin') = Len(stdin) /\ stdin'[1] = rest
          /\ \A k \in 2 .. Len(stdin) : stdin'[k] = stdin[k]
      <4>1. \A k \in 2 .. Len(stdin) : Tail(stdin)[k - 1] = stdin[k]
        BY <2>1
      <4> QED
        BY <2>1, <3>1, <3>4, <4>1
    <3>6. TypedOK'
      BY <1>2, <2>1, <2>2, <3>5 DEF TypedOK
    <3>7. ASSUME LinesInv, size >= USERNAME_MAXLENGTH PROVE LinesInv'
      <4>1. l.left <= longest /\ longest \in Nat /\ l.left >= size
        BY <2>1, <2>2, <2>3, <2>5, <3>7 DEF LinesInv, TypedOK, n
      <4>2. \A k \in 2 .. Len(stdin) :
              stdin[k].left <= longest /\ (stdin[k].begun => longest >= USERNAME_MAXLENGTH)
        BY <3>7 DEF LinesInv
      <4>3. rest.left <= longest /\ longest >= USERNAME_MAXLENGTH
        BY <2>3, <3>4, <3>7, <4>1, <2>2
      <4> QED
        BY <1>2, <3>5, <4>2, <4>3, <2>1 DEF LinesInv
    <3> QED
      BY <1>2, <2>1, <3>3, <3>6, <3>7
  <2> QED
    BY <2>4, <2>5
<1> QED
  BY <1>1, <1>2 DEF ReadLine

-----------------------------------------------------------------------------
(* What every action does to what it does not handle itself                *)

LEMMA SendsFrames ==
  /\ Frame("pub", BUFFER_LENGTH) \in Sends /\ Frame("mod", BUFFER_LENGTH) \in Sends
  /\ Frame("key", BUFFER_LENGTH) \in Sends /\ Frame("message", BUFFER_LENGTH) \in Sends
  /\ Frame("name", LOGIN_LENGTH) \in Sends /\ (\A len \in NOTICES : Frame("notice", len) \in Sends)
  /\ Frame("success", 1) \in Sends /\ Frame("refused", 1) \in Sends
BY DEF Sends, What

LEMMA InitTypes == Init => TypeOK /\ ThreadsInv /\ LinesInv /\ PromptsInStep
<1> SUFFICES ASSUME Init PROVE TypeOK /\ ThreadsInv /\ LinesInv /\ PromptsInStep
  OBVIOUS
<1>a. <<>> \in Seq(Byte) /\ Len(<<>>) = 0 /\ <<>> \in Seq(Lines) /\ 0 <= SOCKET_SPACE
      /\ 0 \in 0 .. MAX_LINES /\ 0 \in 0 .. MAX_FORWARDS /\ 0 \in 0 .. MAX_CUTS /\ 0 \in Nat
  OBVIOUS
<1>1. ControlOK /\ PeerOK
  BY <1>a, Zenon DEF Init, ControlOK, PeerOK
<1>2. LineOK
  BY DEF Init, LineOK
<1>3. TypedOK
  BY <1>a, Zenon DEF Init, TypedOK
<1>4. WireOK
  BY <1>a, Zenon DEF Init, WireOK
<1>5. ThreadsInv /\ LinesInv /\ PromptsInStep
  BY DEF Init, ThreadsInv, LinesInv, PromptsInStep
<1> QED
  BY <1>1, <1>2, <1>3, <1>4, <1>5, TypeParts

\* The part of the invariant that does not depend on the frames.
Base == TypeOK /\ ThreadsInv /\ LinesInv /\ PromptsInStep

LEMMA BaseStep == Base /\ [Next]_vars => Base'
<1> SUFFICES ASSUME Base, [Next]_vars PROVE Base'
  OBVIOUS
<1>1. /\ ControlOK /\ LineOK /\ TypedOK /\ WireOK /\ PeerOK
      /\ ThreadsInv /\ LinesInv /\ PromptsInStep
  BY TypeParts DEF Base
<1>2. SUFFICES /\ ControlOK' /\ LineOK' /\ TypedOK' /\ WireOK' /\ PeerOK'
               /\ ThreadsInv' /\ LinesInv' /\ PromptsInStep'
  BY TypeParts, PTL DEF Base
<1> USE <1>1
\* Whatever leaves the input alone leaves what is said of it.
<1>3. ASSUME UNCHANGED input, (UNCHANGED writer) \/ (writer # "none" /\ writer' # "none")
      PROVE  LineOK' /\ TypedOK' /\ LinesInv' /\ PromptsInStep'
  <2>1. LineOK'
    BY <1>3 DEF input, LineOK
  <2> QED
    BY <1>3, <2>1 DEF input, TypedOK, LinesInv, PromptsInStep
<1>4. CASE Type
  <2>1. PICK l \in [left : LINES, exit : {FALSE}, begun : {FALSE}]
                     \cup {[left |-> EXIT, exit |-> TRUE, begun |-> FALSE]} :
          stdin' = Append(stdin, l) /\ longest' = IF l.left > longest THEN l.left ELSE longest
    BY <1>4 DEF Type
  <2>2. l \in Lines /\ l.left \in Nat /\ l.begun = FALSE
    <3>1. CASE l \in [left : LINES, exit : {FALSE}, begun : {FALSE}]
      BY <3>1 DEF Lines
    <3>2. CASE l = [left |-> EXIT, exit |-> TRUE, begun |-> FALSE]
      BY <3>2 DEF Lines
    <3> QED
      BY <3>1, <3>2
  <2>3. /\ stdin' \in Seq(Lines) /\ Len(stdin') = Len(stdin) + 1 /\ Len(stdin) \in Nat
        /\ stdin'[Len(stdin) + 1] = l /\ \A k \in 1 .. Len(stdin) : stdin'[k] = stdin[k]
    BY <2>1, <2>2 DEF TypedOK
  <2>4. longest' \in Nat /\ longest' >= longest /\ longest' >= l.left /\ longest \in Nat
    BY <2>1, <2>2 DEF TypedOK
  <2>5. LinesInv'
    <3>1. SUFFICES ASSUME NEW k \in 1 .. Len(stdin')
                   PROVE  stdin'[k].left <= longest' /\ (stdin'[k].begun => longest' >= USERNAME_MAXLENGTH)
      BY DEF LinesInv
    <3>2. CASE k <= Len(stdin)
      <4>1. stdin'[k] = stdin[k] /\ stdin[k].left \in Nat /\ k \in 1 .. Len(stdin)
        <5>1. k \in 1 .. Len(stdin)
          BY <2>3, <3>2
        <5>2. stdin[k] \in Lines
          BY <5>1 DEF TypedOK
        <5> QED
          BY <2>3, <5>1, <5>2 DEF Lines
      <4> QED
        BY <2>4, <4>1 DEF LinesInv
    <3>3. CASE k > Len(stdin)
      BY <2>2, <2>3, <2>4, <3>3
    <3> QED
      BY <2>3, <3>2, <3>3
  <2>6. TypedOK'
    BY <1>4, <2>3, <2>4 DEF Type, TypedOK
  <2>7. ControlOK' /\ LineOK' /\ WireOK' /\ PeerOK' /\ ThreadsInv'
    BY <1>4 DEF Type, threads, wire, peer, ControlOK, LineOK, WireOK, PeerOK, ThreadsInv
  <2>8. PromptsInStep'
    BY <1>4, <2>4 DEF Type, PromptsInStep
  <2> QED
    BY <2>5, <2>6, <2>7, <2>8
<1>5. CASE EndInput
  <2>1. ControlOK' /\ LineOK' /\ WireOK' /\ PeerOK' /\ ThreadsInv' /\ PromptsInStep'
    BY <1>5 DEF EndInput, threads, wire, peer, ControlOK, LineOK, WireOK, PeerOK, ThreadsInv, PromptsInStep
  <2>2. TypedOK' /\ LinesInv'
    BY <1>5 DEF EndInput, TypedOK, LinesInv
  <2> QED
    BY <2>1, <2>2
<1>6. CASE Connect
  <2>1. UNCHANGED <<threads, input, wire>> /\ main = "connect" /\ main' \in {"recv_pub", "ended"}
        /\ (UNCHANGED peer \/ (server' = "send_pub" /\ UNCHANGED <<forwards, noticed>>))
    BY <1>6 DEF Connect, Goto
  <2>2. ControlOK' /\ WireOK'
    BY <2>1 DEF threads, wire, ControlOK, WireOK
  <2>3. PeerOK'
    BY <2>1 DEF peer, PeerOK
  <2>4. ThreadsInv'
    BY <2>1 DEF threads, wire, ThreadsInv
  <2>5. UNCHANGED input /\ UNCHANGED writer
    BY <2>1 DEF threads
  <2> QED
    BY <1>3, <2>2, <2>3, <2>4, <2>5
<1>7. CASE RecvPub
  <2>1. WireOK'
    <3>1. CASE UNCHANGED wire
      BY <3>1 DEF wire, WireOK
    <3> QED
      BY <1>7, <3>1, FromServerOK DEF RecvPub
  <2> QED
    BY <1>3, <1>7, <2>1 DEF RecvPub, FromServer, wire, Goto, threads, peer, ControlOK, PeerOK, ThreadsInv
<1>8. CASE RecvMod
  <2>1. WireOK'
    <3>1. CASE UNCHANGED wire
      BY <3>1 DEF wire, WireOK
    <3> QED
      BY <1>8, <3>1, FromServerOK DEF RecvMod
  <2> QED
    BY <1>3, <1>8, <2>1 DEF RecvMod, FromServer, wire, Goto, threads, peer, ControlOK, PeerOK, ThreadsInv
<1>9. CASE SendKey
  <2>1. WireOK'
    BY <1>9, ToServerOK, SendsFrames DEF SendKey
  <2> QED
    BY <1>3, <1>9, <2>1 DEF SendKey, ToServer, Goto, threads, peer, ControlOK, PeerOK, ThreadsInv
<1>10. CASE ReadUsername
  <2>1. /\ TypedOK' /\ line' \in [chars : Nat, newline : BOOLEAN, exit : BOOLEAN]
        /\ line'.chars < USERNAME_MAXLENGTH \/ line'.chars = line.chars
        /\ LinesInv' /\ (astray' => astray \/ (stdin # <<>> /\ stdin[1].begun))
    BY <1>10, ReadLineOK DEF ReadUsername, NameSize
  <2>2. writer = "none" /\ writer' = writer
    BY <1>10 DEF ReadUsername, ThreadsInv, threads
  <2>3. LineOK'
    BY <2>1, <2>2 DEF LineOK
  <2>4. ControlOK' /\ WireOK' /\ PeerOK' /\ ThreadsInv'
    BY <1>10, <2>2 DEF ReadUsername, Goto, threads, wire, peer, ControlOK, WireOK, PeerOK, ThreadsInv
  <2>5. PromptsInStep'
    <3>1. longest' = longest /\ eof' = eof /\ (underrun' => underrun \/ eof)
      BY <1>10 DEF ReadUsername, ReadLine, TypedOK
    <3>2. stdin # <<>> /\ stdin[1].begun => longest >= USERNAME_MAXLENGTH
      <4>1. stdin # <<>> => 1 \in 1 .. Len(stdin)
        BY DEF TypedOK
      <4> QED
        BY <4>1 DEF LinesInv
    <3> QED
      BY <2>1, <3>1, <3>2 DEF PromptsInStep
  <2> QED
    BY <2>1, <2>3, <2>4, <2>5
<1>11. CASE SendName
  <2>1. WireOK'
    BY <1>11, ToServerOK, SendsFrames DEF SendName
  <2> QED
    BY <1>3, <1>11, <2>1 DEF SendName, ToServer, Goto, threads, peer, ControlOK, PeerOK, ThreadsInv
<1>12. CASE RecvReply
  <2>1. WireOK'
    <3>1. CASE UNCHANGED wire
      BY <3>1 DEF wire, WireOK
    <3> QED
      BY <1>12, <3>1, FromServerOK DEF RecvReply, ReplySize
  <2>2. main' \in {"start_reader", "username"} /\ reset' = reset
    BY <1>12 DEF RecvReply, FromServer, wire, Goto
  <2> QED
    BY <1>3, <1>12, <2>1, <2>2 DEF RecvReply, threads, peer, ControlOK, PeerOK, ThreadsInv
<1>13. CASE StartReader
  BY <1>3, <1>13 DEF StartReader, Goto, wire, peer, ControlOK, WireOK, PeerOK, ThreadsInv
<1>14. CASE StartWriter
  <2>1. LineOK'
    <3>1. PICK chars \in {0, 1}, newline \in BOOLEAN :
            line' = [chars |-> chars, newline |-> newline, exit |-> FALSE]
      BY <1>14 DEF StartWriter
    <3>2. line' \in [chars : Nat, newline : BOOLEAN, exit : BOOLEAN] /\ line'.chars < BUFFER_LENGTH
      BY <3>1
    <3> QED
      BY <1>14, <3>2 DEF StartWriter, LineOK
  <2>2. TypedOK' /\ LinesInv' /\ PromptsInStep'
    BY <1>14 DEF StartWriter, TypedOK, LinesInv, PromptsInStep
  <2> QED
    BY <1>14, <2>1, <2>2 DEF StartWriter, Goto, wire, peer, ControlOK, WireOK, PeerOK, ThreadsInv
<1>15. CASE Terminate \/ Killed
  BY <1>3, <1>15 DEF Terminate, Killed, Goto, threads, wire, peer, ControlOK, WireOK, PeerOK, ThreadsInv
<1>16. CASE read_conndata
  <2>1. WireOK' /\ (reset' = reset)
    <3>1. CASE UNCHANGED wire
      BY <3>1 DEF wire, WireOK
    <3>2. CASE \E bytes \in recv(toClient, BUFFER_LENGTH) : FromServer(BUFFER_LENGTH, bytes)
      BY <3>2, FromServerOK DEF FromServer
    <3> QED
      BY <1>16, <3>1, <3>2 DEF read_conndata
  <2> QED
    BY <1>3, <1>16, <2>1 DEF read_conndata, threads, peer, ControlOK, PeerOK, ThreadsInv
<1>17. CASE ReadMessage
  <2>1. /\ TypedOK' /\ line' \in [chars : Nat, newline : BOOLEAN, exit : BOOLEAN]
        /\ line'.chars < BUFFER_LENGTH \/ line'.chars = line.chars
        /\ LinesInv' /\ (astray' => astray \/ (stdin # <<>> /\ stdin[1].begun))
    BY <1>17, ReadLineOK DEF ReadMessage
  <2>2. writer = "fgets" /\ writer' # "none"
    BY <1>17 DEF ReadMessage
  <2>3. LineOK'
    BY <2>1, <2>2 DEF LineOK
  <2>4. ControlOK' /\ WireOK' /\ PeerOK' /\ ThreadsInv'
    BY <1>17, <2>2 DEF ReadMessage, wire, peer, ControlOK, WireOK, PeerOK, ThreadsInv
  <2>5. PromptsInStep'
    <3>1. longest' = longest /\ eof' = eof /\ (underrun' => underrun \/ eof)
      BY <1>17 DEF ReadMessage, ReadLine, TypedOK
    <3>2. stdin # <<>> /\ stdin[1].begun => longest >= USERNAME_MAXLENGTH
      <4>1. stdin # <<>> => 1 \in 1 .. Len(stdin)
        BY DEF TypedOK
      <4> QED
        BY <4>1 DEF LinesInv
    <3> QED
      BY <2>1, <3>1, <3>2 DEF PromptsInStep
  <2> QED
    BY <2>1, <2>3, <2>4, <2>5
<1>18. CASE SendMessage
  <2>1. WireOK'
    BY <1>18, ToServerOK, SendsFrames DEF SendMessage
  <2>2. LineOK'
    BY <1>18 DEF SendMessage, LineOK
  <2>3. TypedOK' /\ LinesInv' /\ PromptsInStep'
    BY <1>18 DEF SendMessage, TypedOK, LinesInv, PromptsInStep
  <2> QED
    BY <1>18, <2>1, <2>2, <2>3 DEF SendMessage, ToServer, peer, ControlOK, PeerOK, ThreadsInv
<1>19. CASE init_encryption_client
  <2>1. WireOK'
    <3>1. CASE Delivers(Frame("pub", BUFFER_LENGTH)) \/ Delivers(Frame("mod", BUFFER_LENGTH))
      BY <3>1, DeliversOK, SendsFrames
    <3>2. CASE (\E bytes \in recv(toServer, BUFFER_LENGTH) : FromClient(bytes)) /\ UNCHANGED toClient
      BY <3>2, FromClientOK DEF WireOK
    <3> QED
      BY <1>19, <3>1, <3>2 DEF init_encryption_client
  <2>2. UNCHANGED <<main, threads, input>>
    BY <1>19 DEF init_encryption_client
  <2>3. /\ server \in {"send_pub", "send_mod", "recv_key"} /\ server' \in {"send_mod", "recv_key", "login"}
        /\ UNCHANGED <<forwards, noticed, reset>>
    BY <1>19 DEF init_encryption_client, Serves, Delivers, FromClient
  <2>4. ControlOK' /\ PeerOK' /\ ThreadsInv'
    BY <2>2, <2>3 DEF threads, ControlOK, PeerOK, ThreadsInv
  <2>5. LineOK' /\ TypedOK' /\ LinesInv' /\ PromptsInStep'
    BY <1>3, <2>2 DEF threads
  <2> QED
    BY <2>1, <2>4, <2>5
<1>20. CASE handle_login
  <2>1. PICK bytes \in recv(toServer, BUFFER_LENGTH) : FromClient(bytes)
    BY <1>20 DEF handle_login
  <2>2. toClient' \in Seq(Byte) /\ Len(toClient') <= SOCKET_SPACE
    <3>1. \A what \in {"success", "refused"} : Len(Frame(what, 1)) = 1
      BY FrameBytes DEF What
    <3>2. PICK what \in {"success", "refused"} : toClient' = toClient \o Frame(what, 1)
      BY <1>20 DEF handle_login
    <3>3. Frame(what, 1) \in Sends /\ Len(toClient) < SOCKET_SPACE /\ toClient \in Seq(Byte)
      BY <1>20, SendsFrames DEF handle_login, WireOK
    <3>4. Len(Frame(what, 1)) = 1
      BY <3>1
    <3>5. Len(toClient) + 1 <= SOCKET_SPACE
      <4>1. Len(toClient) \in Nat /\ Len(toClient) < SOCKET_SPACE /\ SOCKET_SPACE \in Nat
        BY <3>3
      <4> QED
        BY <4>1
    <3>6. Len(toClient \o Frame(what, 1)) = Len(toClient) + 1 /\ toClient \o Frame(what, 1) \in Seq(Byte)
      BY <3>3, <3>4, AppendedOK
    <3> QED
      BY <3>2, <3>5, <3>6
  <2>3. WireOK'
    BY <2>1, <2>2, FromClientOK
  <2> QED
    BY <1>3, <1>20, <2>1, <2>3
    DEF handle_login, Serves, FromClient, threads, ControlOK, PeerOK, ThreadsInv
<1>21. CASE read_clients
  <2>1. WireOK'
    BY <1>21, FromClientOK DEF read_clients, WireOK
  <2> QED
    BY <1>3, <1>21, <2>1 DEF read_clients, FromClient, threads, peer, ControlOK, PeerOK, ThreadsInv
<1>22. CASE Forward
  <2>1. WireOK'
    BY <1>22, DeliversOK, SendsFrames DEF Forward
  <2> QED
    BY <1>3, <1>22, <2>1 DEF Forward, Delivers, threads, ControlOK, PeerOK, ThreadsInv
<1>23. CASE Notice
  <2>1. WireOK'
    BY <1>23, DeliversOK, SendsFrames DEF Notice
  <2> QED
    BY <1>3, <1>23, <2>1 DEF Notice, Delivers, threads, ControlOK, PeerOK, ThreadsInv
<1>24. CASE Close
  <2>1. WireOK'
    BY <1>24 DEF Close, WireOK
  <2> QED
    BY <1>3, <1>24, <2>1 DEF Close, Serves, threads, ControlOK, PeerOK, ThreadsInv
<1>25. CASE UNCHANGED vars
  BY <1>3, <1>25 DEF vars, threads, wire, peer, ControlOK, WireOK, PeerOK, ThreadsInv
<1> QED
  BY <1>4, <1>5, <1>6, <1>7, <1>8, <1>9, <1>10, <1>11, <1>12, <1>13, <1>14, <1>15, <1>16, <1>17,
     <1>18, <1>19, <1>20, <1>21, <1>22, <1>23, <1>24, <1>25
  DEF Next, Main, write_conndata, Server

-----------------------------------------------------------------------------
(* The frames                                                              *)

\* No cut and no notice is taken back.
LEMMA History == Base /\ [Next]_vars => cuts' >= cuts /\ (noticed => noticed')
<1> SUFFICES ASSUME Base, [Next]_vars PROVE cuts' >= cuts /\ (noticed => noticed')
  OBVIOUS
<1>1. cuts \in Nat /\ cuts' \in Nat
  BY BaseStep DEF Base, TypeOK
<1>2. CASE Type \/ EndInput \/ Connect \/ ReadUsername \/ StartReader \/ StartWriter \/ Terminate
           \/ Killed \/ ReadMessage \/ Close \/ UNCHANGED vars
  <2>1. cuts' = cuts
    BY <1>2 DEF Type, EndInput, Connect, ReadUsername, StartReader, StartWriter, Terminate, Killed,
       ReadMessage, Close, vars, wire
  <2>2. noticed' = noticed
    BY <1>2 DEF Type, EndInput, Connect, ReadUsername, StartReader, StartWriter, Terminate, Killed,
       ReadMessage, Close, Serves, vars, peer
  <2> QED
    BY <1>1, <2>1, <2>2
<1>3. CASE RecvPub \/ RecvMod \/ RecvReply \/ read_conndata
  BY <1>1, <1>3 DEF RecvPub, RecvMod, RecvReply, read_conndata, FromServer, Received, wire, peer
<1>4. CASE SendKey \/ SendName \/ SendMessage
  BY <1>1, <1>4 DEF SendKey, SendName, SendMessage, ToServer, peer
<1>5. CASE init_encryption_client \/ handle_login \/ read_clients
  BY <1>1, <1>5 DEF init_encryption_client, handle_login, read_clients, Serves, FromClient, Delivers,
     Received, peer
<1>6. CASE Forward \/ Notice
  BY <1>1, <1>6 DEF Forward, Notice, Delivers
<1> QED
  BY <1>2, <1>3, <1>4, <1>5, <1>6 DEF Next, Main, write_conndata, Server

\* Without a cut, a recv that a frame fills returns this frame.
LEMMA FrameReceipt ==
  ASSUME NEW stream \in Seq(Byte), NEW what \in What, NEW len \in Nat, len > 0,
         HasFrame(stream, 0, what, len), NEW size \in Nat, Most(stream, size) = len,
         NEW bytes \in recv(stream, size), Received(stream, size, bytes),
         whole, cuts = 0, cuts' = 0
  PROVE  whole' /\ Len(bytes) = len /\ bytes = Frame(what, len) /\ bytes[1].what = what
<1>1. /\ bytes \in Seq(Byte) /\ Len(bytes) \in 1 .. Len(stream)
      /\ \A k \in 1 .. Len(bytes) : bytes[k] = stream[k]
      /\ Len(bytes) <= size /\ Len(stream) \in Nat
  BY RecvBytes
<1>2. Len(bytes) <= len
  BY <1>1 DEF Most
<1>3. \A k \in 1 .. len : stream[k].what = what /\ stream[k].i = k /\ stream[k].len = len
  <2> TAKE k \in 1 .. len
  <2>1. 0 + k = k
    OBVIOUS
  <2> QED
    BY <2>1 DEF HasFrame
<1>4. Len(bytes) = len
  <2>1. Len(bytes) = Most(stream, size) \/ AtEnd(bytes, Len(bytes))
    BY DEF Received
  <2>2. AtEnd(bytes, Len(bytes)) => Len(bytes) = len
    BY <1>1, <1>2, <1>3 DEF AtEnd
  <2> QED
    BY <2>1, <2>2
<1>5. HasFrame(bytes, 0, what, len)
  <2> SUFFICES ASSUME NEW k \in 1 .. len
               PROVE  bytes[0 + k].what = what /\ bytes[0 + k].i = k /\ bytes[0 + k].len = len
    BY DEF HasFrame
  <2>1. 0 + k = k /\ bytes[k] = stream[k]
    BY <1>1, <1>4
  <2> QED
    BY <1>3, <2>1
<1>6. bytes = Frame(what, len)
  BY <1>1, <1>4, <1>5, FrameEqual
<1>7. bytes[1].what = what /\ bytes[1].len = len
  BY <1>1, <1>3, <1>4
<1>8. whole'
  BY <1>6, <1>7 DEF Received, IsFrame
<1> QED
  BY <1>4, <1>6, <1>7, <1>8

\* Among frames of BUFFER_LENGTH bytes, a recv of so many takes one.
LEMMA BlockReceipt ==
  ASSUME NEW stream \in Seq(Byte), Blocks(stream),
         NEW bytes \in recv(stream, BUFFER_LENGTH), Received(stream, BUFFER_LENGTH, bytes),
         whole, cuts = 0, cuts' = 0
  PROVE  /\ whole' /\ stream # <<>> /\ Blocks(After(stream, bytes))
         /\ After(stream, bytes) \in Seq(Byte)
         /\ Len(After(stream, bytes)) = Len(stream) - BUFFER_LENGTH
         /\ Len(stream) = BUFFER_LENGTH => After(stream, bytes) = <<>>
<1>0. BUFFER_LENGTH \in Nat /\ BUFFER_LENGTH > 0
  OBVIOUS
<1>1. stream # <<>> /\ Len(stream) \in Nat
  BY <1>0, RecvBytes
<1>2. BUFFER_LENGTH <= Len(stream) /\ HasFrame(stream, 0, stream[1].what, BUFFER_LENGTH)
  BY <1>1, FirstBlock
<1>3. Most(stream, BUFFER_LENGTH) = BUFFER_LENGTH
  BY <1>1, <1>2 DEF Most
<1>4. stream[1].what \in What
  <2>1. 1 \in 1 .. Len(stream)
    BY <1>1, <1>2
  <2> QED
    BY <2>1, BytesOf
<1>5. whole' /\ Len(bytes) = BUFFER_LENGTH
  BY <1>0, <1>2, <1>3, <1>4, FrameReceipt
<1>6. Blocks(After(stream, bytes))
  BY <1>1, <1>5, BlocksAfter
<1>7. /\ After(stream, bytes) \in Seq(Byte)
      /\ Len(After(stream, bytes)) = Len(stream) - BUFFER_LENGTH
      /\ Len(stream) = BUFFER_LENGTH => After(stream, bytes) = <<>>
  BY <1>0, <1>5, RecvBytes
<1> QED
  BY <1>1, <1>5, <1>6, <1>7

\* The first byte of a stream of one frame, and the frame that follows another.
LEMMA OneFrame ==
  ASSUME NEW what \in What, NEW len \in Nat, len > 0
  PROVE  /\ Frame(what, len) \in Seq(Byte) /\ Len(Frame(what, len)) = len
         /\ Frame(what, len) # <<>> /\ HasFrame(Frame(what, len), 0, what, len)
         /\ Frame(what, len)[1].what = what /\ Frame(what, len)[1].i = 1
         /\ Frame(what, len)[1].len = len
         /\ <<>> \o Frame(what, len) = Frame(what, len)
<1>1. /\ Frame(what, len) \in Seq(Byte) /\ Len(Frame(what, len)) = len
      /\ HasFrame(Frame(what, len), 0, what, len)
  BY FrameBytes
<1>2. 1 \in 1 .. len /\ 0 + 1 = 1
  OBVIOUS
<1>3. /\ Frame(what, len)[1].what = what /\ Frame(what, len)[1].i = 1
      /\ Frame(what, len)[1].len = len
  BY <1>1, <1>2 DEF HasFrame
<1> QED
  BY <1>1, <1>3

LEMMA NoBlocks == Blocks(<<>>) /\ <<>> \in Seq(Byte)
BY DEF Blocks

LEMMA OneBlock ==
  ASSUME NEW what \in What
  PROVE  Blocks(Frame(what, BUFFER_LENGTH))
<1>1. <<>> \o Frame(what, BUFFER_LENGTH) = Frame(what, BUFFER_LENGTH)
  BY OneFrame
<1> QED
  BY <1>1, NoBlocks, BlocksAppended

\* The key and the name behind it: the key is received, the name is left.
LEMMA KeyThenName ==
  LET stream == Frame("key", BUFFER_LENGTH) \o Frame("name", LOGIN_LENGTH)
  IN  /\ stream \in Seq(Byte) /\ HasFrame(stream, 0, "key", BUFFER_LENGTH)
      /\ Most(stream, BUFFER_LENGTH) = BUFFER_LENGTH /\ stream # <<>>
      /\ \A bytes \in Seq(Byte) :
           Len(bytes) = BUFFER_LENGTH => After(stream, bytes) = Frame("name", LOGIN_LENGTH)
<1> DEFINE k == Frame("key", BUFFER_LENGTH)
           f == Frame("name", LOGIN_LENGTH)
           stream == k \o f
<1>1. /\ k \in Seq(Byte) /\ Len(k) = BUFFER_LENGTH /\ HasFrame(k, 0, "key", BUFFER_LENGTH)
      /\ f \in Seq(Byte) /\ Len(f) = LOGIN_LENGTH
  BY FrameBytes DEF What
<1> HIDE DEF k, f
<1>2. /\ stream \in Seq(Byte) /\ Len(stream) = BUFFER_LENGTH + LOGIN_LENGTH
      /\ (\A n \in 1 .. BUFFER_LENGTH : stream[n] = k[n])
      /\ (\A n \in 1 .. LOGIN_LENGTH : stream[BUFFER_LENGTH + n] = f[n])
  BY <1>1
<1> HIDE DEF stream
<1>3. HasFrame(stream, 0, "key", BUFFER_LENGTH)
  <2> SUFFICES ASSUME NEW n \in 1 .. BUFFER_LENGTH
               PROVE  stream[0 + n].what = "key" /\ stream[0 + n].i = n /\ stream[0 + n].len = BUFFER_LENGTH
    BY DEF HasFrame
  <2>1. 0 + n = n
    OBVIOUS
  <2>2. k[0 + n].what = "key" /\ k[0 + n].i = n /\ k[0 + n].len = BUFFER_LENGTH
    BY <1>1 DEF HasFrame
  <2> QED
    BY <1>2, <2>1, <2>2
<1>4. Most(stream, BUFFER_LENGTH) = BUFFER_LENGTH /\ stream # <<>>
  BY <1>2 DEF Most
<1>5. ASSUME NEW bytes \in Seq(Byte), Len(bytes) = BUFFER_LENGTH
      PROVE  After(stream, bytes) = f
  <2>1. /\ After(stream, bytes) \in Seq(Byte) /\ Len(After(stream, bytes)) = LOGIN_LENGTH
        /\ \A n \in 1 .. LOGIN_LENGTH : After(stream, bytes)[n] = stream[BUFFER_LENGTH + n]
    <3>1. Len(bytes) <= Len(stream) /\ Len(stream) - Len(bytes) = LOGIN_LENGTH
      BY <1>2, <1>5
    <3>2. /\ After(stream, bytes) \in Seq(Byte) /\ Len(After(stream, bytes)) = Len(stream) - Len(bytes)
          /\ \A n \in 1 .. Len(stream) - Len(bytes) : After(stream, bytes)[n] = stream[Len(bytes) + n]
      BY <1>2, <1>5, <3>1, Rest
    <3> QED
      BY <1>5, <3>1, <3>2
  <2> QED
    BY <1>1, <1>2, <2>1
<1> QED
  BY <1>2, <1>3, <1>4, <1>5 DEF stream, k, f

\* The answer is one byte, received by a recv of one byte.
LEMMA AnswerReceipt ==
  ASSUME NEW stream \in Seq(Byte), Answer(stream), NEW bytes \in recv(stream, 1),
         Received(stream, 1, bytes), whole, cuts = 0, cuts' = 0
  PROVE  /\ whole' /\ bytes[1].what = stream[1].what
         /\ Blocks(After(stream, bytes)) /\ (Len(stream) = 1 => After(stream, bytes) = <<>>)
<1> DEFINE what == stream[1].what
<1>1. /\ Len(stream) \in Nat /\ Len(stream) >= 1 /\ stream # <<>> /\ what \in {"success", "refused"}
      /\ stream[1].i = 1 /\ stream[1].len = 1 /\ Blocks(Tail(stream))
  BY BytesOf DEF Answer
<1>2. what \in What
  BY <1>1 DEF What
<1>3. HasFrame(stream, 0, what, 1) /\ Most(stream, 1) = 1
  <2>1. ASSUME NEW k \in 1 .. 1
        PROVE  stream[0 + k].what = what /\ stream[0 + k].i = k /\ stream[0 + k].len = 1
    <3>1. k = 1 /\ 0 + k = 1
      OBVIOUS
    <3> QED
      BY <1>1, <3>1
  <2> QED
    BY <1>1, <2>1 DEF HasFrame, Most
<1> HIDE DEF what
<1>4. whole' /\ Len(bytes) = 1 /\ bytes[1].what = what
  <2> DEFINE one == 1
  <2>1. one \in Nat /\ one > 0 /\ HasFrame(stream, 0, what, one) /\ Most(stream, one) = one
    BY <1>3
  <2>2. bytes \in recv(stream, one) /\ Received(stream, one, bytes)
    OBVIOUS
  <2> HIDE DEF one
  <2>3. whole' /\ Len(bytes) = one /\ bytes[1].what = what
    BY <1>2, <2>1, <2>2, FrameReceipt
  <2> QED
    BY <2>3 DEF one
<1>5. After(stream, bytes) = Tail(stream)
  BY <1>1, <1>4 DEF After
<1>6. Len(stream) = 1 => Tail(stream) = <<>>
  <2> DEFINE t == Tail(stream)
  <2>1. t \in Seq(Byte) /\ (Len(stream) = 1 => Len(t) = 0)
    BY <1>1
  <2> HIDE DEF t
  <2>2. Len(t) = 0 => t = <<>>
    BY <2>1
  <2> QED
    BY <2>1, <2>2 DEF t
<1> QED
  BY <1>1, <1>4, <1>5, <1>6 DEF what

\* A message behind the answer.
LEMMA AnswerAppended ==
  ASSUME NEW stream \in Seq(Byte), Answer(stream), stream[1].what = "success", NEW what \in What
  PROVE  LET s == stream \o Frame(what, BUFFER_LENGTH)
         IN Answer(s) /\ s[1] = stream[1] /\ s # <<>>
<1> DEFINE f == Frame(what, BUFFER_LENGTH)
           s == stream \o f
<1>1. f \in Seq(Byte) /\ Len(f) = BUFFER_LENGTH
  BY FrameBytes
<1>2. Len(stream) \in Nat /\ Len(stream) >= 1 /\ Tail(stream) \in Seq(Byte)
  BY BytesOf DEF Answer
<1>3. Blocks(Tail(stream) \o f)
  BY <1>2, BlocksAppended DEF Answer
<1> HIDE DEF f
<1>4. s # <<>> /\ s[1] = stream[1] /\ s \in Seq(Byte) /\ Len(s) = Len(stream) + BUFFER_LENGTH
  BY <1>1, <1>2
<1>5. Tail(s) = Tail(stream) \o f
  BY <1>1, <1>2
<1> QED
  BY <1>3, <1>4, <1>5 DEF Answer, f

Frames == whole /\ ToClientInv /\ ToServerInv

\* A step that leaves the streams alone and moves main within its part.
LEMMA FramesKept ==
  ASSUME Frames, UNCHANGED <<wire, server>>,
         \/ main' = main
         \/ main = "username" /\ main' = "send_name"
         \/ main \in LoggedIn /\ main' \in LoggedIn \cup {"ended"}
         \/ server = "closed" /\ main' = "ended"
  PROVE  Frames'
<1>1. /\ whole' = whole /\ toServer' = toServer /\ toClient' = toClient /\ server' = server
  BY DEF wire
<1>2. ToClientInv'
  BY <1>1 DEF Frames, ToClientInv, LoggedIn
<1>3. ToServerInv'
  BY <1>1 DEF Frames, ToServerInv, LoggedIn, Online
<1> QED
  BY <1>1, <1>2, <1>3 DEF Frames

LEMMA FramesStep ==
  ASSUME Base, Frames, cuts = 0, cuts' = 0, ~noticed', [Next]_vars
  PROVE  Frames'
<1>1. /\ toServer \in Seq(Byte) /\ toClient \in Seq(Byte) /\ whole /\ ToClientInv /\ ToServerInv
      /\ ThreadsInv /\ BUFFER_LENGTH \in Nat /\ BUFFER_LENGTH > 0 /\ LOGIN_LENGTH \in Nat
      /\ LOGIN_LENGTH > 0
  BY DEF Base, TypeOK, Frames
<1>2. SUFFICES whole' /\ ToClientInv' /\ ToServerInv'
  BY DEF Frames
<1>3. CASE Type \/ EndInput \/ ReadMessage \/ UNCHANGED vars
  BY <1>3, FramesKept DEF Type, EndInput, ReadMessage, vars, peer, Frames
<1>4. CASE Connect
  <2>1. server = "none" /\ toServer = <<>> /\ toClient = <<>>
    BY <1>1, <1>4 DEF Connect, ThreadsInv, ToClientInv, ToServerInv
  <2> QED
    BY <1>1, <1>4, <2>1, NoBlocks
    DEF Connect, Goto, wire, peer, ToClientInv, ToServerInv, LoggedIn, Online
<1>5. CASE RecvPub
  <2>1. CASE HungUp /\ UNCHANGED wire
    BY <1>1, <1>5, <2>1, NoBlocks
    DEF RecvPub, HungUp, Goto, wire, peer, ToClientInv, ToServerInv, LoggedIn, Online
  <2>2. CASE \E bytes \in recv(toClient, BUFFER_LENGTH) : FromServer(BUFFER_LENGTH, bytes)
    <3>1. /\ whole' /\ toClient # <<>> /\ Blocks(toClient') /\ Len(toClient') = Len(toClient) - BUFFER_LENGTH
          /\ Len(toClient) = BUFFER_LENGTH => toClient' = <<>>
      BY <1>1, <1>5, <2>2, BlockReceipt DEF RecvPub, FromServer, ToClientInv
    <3>2. Len(toClient) \in Nat /\ BUFFER_LENGTH <= Len(toClient) /\ Len(toClient) <= 2 * BUFFER_LENGTH
      BY <1>1, <1>5, <3>1, FirstBlock DEF RecvPub, ToClientInv
    <3>3. toServer' = toServer /\ server' = server /\ main = "recv_pub" /\ main' = "recv_mod"
      BY <1>5, <2>2 DEF RecvPub, FromServer, Goto, peer
    <3>4. ToClientInv'
      BY <3>1, <3>2, <3>3 DEF ToClientInv, LoggedIn
    <3>5. ToServerInv'
      BY <1>1, <3>1, <3>2, <3>3 DEF ToServerInv, LoggedIn, Online
    <3> QED
      BY <3>1, <3>4, <3>5
  <2> QED
    BY <1>5, <2>1, <2>2 DEF RecvPub
<1>6. CASE RecvMod
  <2>1. CASE HungUp /\ UNCHANGED wire /\ main' = "ended"
    BY <1>1, <1>6, <2>1
    DEF RecvMod, HungUp, wire, peer, ToClientInv, ToServerInv, LoggedIn, Online
  <2>2. CASE main' = "send_key" /\ \E bytes \in recv(toClient, BUFFER_LENGTH) : FromServer(BUFFER_LENGTH, bytes)
    <3>1. /\ whole' /\ toClient # <<>> /\ Blocks(toClient') /\ Len(toClient') = Len(toClient) - BUFFER_LENGTH
          /\ Len(toClient) = BUFFER_LENGTH => toClient' = <<>>
      BY <1>1, <1>6, <2>2, BlockReceipt DEF RecvMod, FromServer, ToClientInv
    <3>2. Len(toClient) \in Nat /\ BUFFER_LENGTH <= Len(toClient) /\ Len(toClient) <= BUFFER_LENGTH
      BY <1>1, <1>6, <3>1, FirstBlock DEF RecvMod, ToClientInv
    <3>3. toServer' = toServer /\ server' = server /\ main = "recv_mod" /\ toClient' = <<>>
      BY <1>6, <2>2, <3>1, <3>2 DEF RecvMod, FromServer, peer
    <3>4. ToClientInv'
      BY <2>2, <3>3 DEF ToClientInv, LoggedIn
    <3>5. ToServerInv'
      BY <1>1, <2>2, <3>1, <3>3 DEF ToServerInv, LoggedIn, Online
    <3> QED
      BY <3>1, <3>4, <3>5
  <2> QED
    BY <1>6, <2>1, <2>2 DEF RecvMod, Goto
<1>7. CASE SendKey
  <2>1. /\ main = "send_key" /\ main' = "username" /\ toClient' = <<>> /\ server' = server
        /\ toClient = <<>> /\ whole' = whole
        /\ IF server = "closed" THEN toServer' = toServer
           ELSE toServer' = toServer \o Frame("key", BUFFER_LENGTH)
    BY <1>1, <1>7 DEF SendKey, ToServer, Goto, peer, ToClientInv
  <2>2. toServer = <<>> /\ server \in {"recv_key", "closed"}
    BY <1>1, <2>1 DEF ToServerInv, LoggedIn, Online, Base, TypeOK
  <2>3. <<>> \o Frame("key", BUFFER_LENGTH) = Frame("key", BUFFER_LENGTH)
    BY OneFrame DEF What
  <2>4. ToClientInv'
    BY <2>1 DEF ToClientInv, LoggedIn
  <2>5. ToServerInv'
    BY <2>1, <2>2, <2>3 DEF ToServerInv, LoggedIn, Online
  <2> QED
    BY <1>1, <2>1, <2>4, <2>5
<1>8. CASE ReadUsername
  BY <1>8, FramesKept DEF ReadUsername, Goto, peer, Frames
<1>9. CASE SendName
  <2>1. /\ main = "send_name" /\ main' = "reply" /\ toClient' = <<>> /\ server' = server
        /\ toClient = <<>> /\ whole' = whole
        /\ IF server = "closed" THEN toServer' = toServer
           ELSE toServer' = toServer \o Frame("name", LOGIN_LENGTH)
    BY <1>1, <1>9 DEF SendName, ToServer, Goto, peer, ToClientInv
  <2>2. \/ toServer = Frame("key", BUFFER_LENGTH) /\ server = "recv_key"
        \/ toServer = <<>> /\ server \in {"login", "closed"}
    BY <1>1, <2>1 DEF ToServerInv, LoggedIn, Online, Base, TypeOK
  <2>3. <<>> \o Frame("name", LOGIN_LENGTH) = Frame("name", LOGIN_LENGTH)
    BY <1>1, OneFrame DEF What
  <2>4. ToClientInv'
    BY <2>1 DEF ToClientInv, LoggedIn
  <2>5. ToServerInv'
    BY <2>1, <2>2, <2>3 DEF ToServerInv, LoggedIn, Online
  <2> QED
    BY <1>1, <2>1, <2>4, <2>5
<1>10. CASE RecvReply
  <2>1. CASE HungUp /\ UNCHANGED wire /\ main' \in {"start_reader", "username"}
    BY <1>1, <1>10, <2>1, NoBlocks
    DEF RecvReply, HungUp, wire, peer, ToClientInv, ToServerInv, LoggedIn, Online
  <2>2. CASE \E bytes \in recv(toClient, ReplySize) :
               /\ FromServer(ReplySize, bytes)
               /\ main' = IF bytes[1].what = "success" THEN "start_reader" ELSE "username"
    <3>1. PICK bytes \in recv(toClient, 1) :
            /\ toClient' = After(toClient, bytes) /\ Received(toClient, 1, bytes) /\ toServer' = toServer
            /\ main' = IF bytes[1].what = "success" THEN "start_reader" ELSE "username"
      BY <2>2 DEF FromServer, ReplySize
    <3>2. toClient # <<>>
      <4> DEFINE one == 1
      <4>1. one \in Nat /\ bytes \in recv(toClient, one)
        OBVIOUS
      <4> HIDE DEF one
      <4> QED
        BY <1>1, <4>1, RecvBytes
    <3>3. main = "reply" /\ server' = server /\ Answer(toClient)
      BY <1>1, <1>10, <3>2 DEF RecvReply, peer, ToClientInv
    <3>4. /\ whole' /\ bytes[1].what = toClient[1].what
          /\ Blocks(toClient') /\ (Len(toClient) = 1 => toClient' = <<>>)
      BY <1>1, <3>1, <3>3, AnswerReceipt
    <3>5. CASE toClient[1].what = "success"
      <4>1. main' = "start_reader" /\ (server = "closed" \/ (Online /\ toServer = <<>>))
        BY <1>1, <3>1, <3>2, <3>3, <3>4, <3>5 DEF ToServerInv, LoggedIn, Online, Base, TypeOK
      <4>2. ToClientInv'
        BY <3>4, <4>1 DEF ToClientInv, LoggedIn
      <4>3. ToServerInv'
        BY <1>1, <3>1, <3>3, <4>1, NoBlocks DEF ToServerInv, LoggedIn, Online
      <4> QED
        BY <3>4, <4>2, <4>3
    <3>6. CASE toClient[1].what = "refused"
      <4>1. main' = "username" /\ server \in {"login", "closed"} /\ toServer = <<>>
        BY <1>1, <3>1, <3>2, <3>3, <3>4, <3>6 DEF ToServerInv, LoggedIn, Online, Base, TypeOK
      <4>2. toClient' = <<>>
        BY <3>3, <3>4, <3>6 DEF Answer
      <4>3. ToClientInv'
        BY <4>1, <4>2 DEF ToClientInv, LoggedIn
      <4>4. ToServerInv'
        BY <1>1, <3>1, <3>3, <4>1 DEF ToServerInv, LoggedIn, Online
      <4> QED
        BY <3>4, <4>3, <4>4
    <3> QED
      BY <3>3, <3>5, <3>6 DEF Answer
  <2> QED
    BY <1>10, <2>1, <2>2 DEF RecvReply, Goto
<1>11. CASE StartReader \/ StartWriter \/ Terminate
  BY <1>11, FramesKept DEF StartReader, StartWriter, Terminate, Goto, LoggedIn, peer, Frames
<1>12. CASE Killed
  BY <1>1, <1>12, FramesKept DEF Killed, Goto, ThreadsInv, peer, Frames
<1>13. CASE read_conndata
  <2>1. CASE UNCHANGED wire
    BY <1>13, <2>1, FramesKept DEF read_conndata, peer, Frames
  <2>2. CASE \E bytes \in recv(toClient, BUFFER_LENGTH) : FromServer(BUFFER_LENGTH, bytes)
    <3>1. main \in LoggedIn /\ main' = main /\ server' = server
      BY <1>1, <1>13 DEF read_conndata, ThreadsInv, LoggedIn, peer
    <3>2. whole' /\ toClient # <<>> /\ Blocks(toClient') /\ toServer' = toServer
      BY <1>1, <2>2, <3>1, BlockReceipt DEF FromServer, ToClientInv
    <3>3. ToClientInv'
      BY <3>1, <3>2 DEF ToClientInv, LoggedIn
    <3>4. ToServerInv'
      BY <1>1, <3>1, <3>2 DEF ToServerInv, LoggedIn, Online
    <3> QED
      BY <3>2, <3>3, <3>4
  <2> QED
    BY <1>13, <2>1, <2>2 DEF read_conndata
<1>14. CASE SendMessage
  <2>1. /\ main = "wait" /\ main' = main /\ toClient' = toClient /\ server' = server /\ whole' = whole
        /\ IF server = "closed" THEN toServer' = toServer
           ELSE toServer' = toServer \o Frame("message", BUFFER_LENGTH)
    BY <1>1, <1>14 DEF SendMessage, ToServer, ThreadsInv, peer
  <2>2. server = "closed" \/ (Online /\ Blocks(toServer))
    BY <1>1, <2>1 DEF ToServerInv, LoggedIn, Online, Base, TypeOK
  <2>3. Blocks(toServer) => Blocks(toServer \o Frame("message", BUFFER_LENGTH))
    BY <1>1, BlocksAppended DEF What
  <2>4. ToClientInv'
    BY <1>1, <2>1 DEF ToClientInv, LoggedIn
  <2>5. ToServerInv'
    BY <1>1, <2>1, <2>2, <2>3 DEF ToServerInv, LoggedIn, Online
  <2> QED
    BY <1>1, <2>1, <2>4, <2>5
<1>15. CASE init_encryption_client
  <2>1. CASE Serves("send_pub", "send_mod") /\ Delivers(Frame("pub", BUFFER_LENGTH))
    <3>1. /\ main = "recv_pub" /\ main' = main /\ toClient' = Frame("pub", BUFFER_LENGTH)
          /\ toServer = <<>> /\ toServer' = <<>> /\ server' = "send_mod" /\ whole' = whole
      BY <1>1, <1>15, <2>1, OneFrame DEF init_encryption_client, Serves, Delivers, ToServerInv, What
    <3>2. Blocks(toClient') /\ Len(toClient') = BUFFER_LENGTH
      BY <3>1, OneBlock, OneFrame DEF What
    <3> QED
      BY <1>1, <3>1, <3>2 DEF ToClientInv, ToServerInv, Online
  <2>2. CASE Serves("send_mod", "recv_key") /\ Delivers(Frame("mod", BUFFER_LENGTH))
    <3>1. /\ main \in {"recv_pub", "recv_mod"} /\ main' = main
          /\ toClient' = toClient \o Frame("mod", BUFFER_LENGTH) /\ Blocks(toClient)
          /\ toServer = <<>> /\ toServer' = <<>> /\ server' = "recv_key" /\ whole' = whole
          /\ Len(toClient) <= IF main = "recv_pub" THEN BUFFER_LENGTH ELSE 0
      BY <1>1, <1>15, <2>2, NoBlocks DEF init_encryption_client, Serves, Delivers, ToClientInv, ToServerInv
    <3>2. Blocks(toClient') /\ Len(toClient') = Len(toClient) + BUFFER_LENGTH /\ Len(toClient) \in Nat
      BY <1>1, <3>1, BlocksAppended, Appended DEF What
    <3>3. ToClientInv'
      BY <1>1, <3>1, <3>2 DEF ToClientInv, LoggedIn
    <3> QED
      BY <1>1, <3>1, <3>3 DEF ToServerInv, Online
  <2>3. CASE /\ Serves("recv_key", "login") /\ UNCHANGED toClient
             /\ \E bytes \in recv(toServer, BUFFER_LENGTH) : FromClient(bytes)
    <3>1. PICK bytes \in recv(toServer, BUFFER_LENGTH) :
            toServer' = After(toServer, bytes) /\ Received(toServer, BUFFER_LENGTH, bytes)
      BY <2>3 DEF FromClient
    <3>2. main' = main /\ toClient' = toClient /\ server = "recv_key" /\ server' = "login"
      BY <1>15, <2>3 DEF init_encryption_client, Serves
    <3>3. toServer # <<>> /\ bytes \in Seq(Byte)
      BY <1>1, RecvBytes
    <3>4. ToClientInv'
      BY <1>1, <3>2 DEF ToClientInv, LoggedIn
    <3>5. CASE main \in {"username", "send_name"} /\ toServer = Frame("key", BUFFER_LENGTH)
      <4>1. whole' /\ toServer' = <<>>
        BY <1>1, <3>1, <3>5, OneBlock, OneFrame, BlockReceipt DEF What
      <4> QED
        BY <3>2, <3>4, <3>5, <4>1 DEF ToServerInv, Online
    <3>6. CASE /\ main = "reply" /\ toClient = <<>>
               /\ toServer = Frame("key", BUFFER_LENGTH) \o Frame("name", LOGIN_LENGTH)
      <4>1. whole' /\ Len(bytes) = BUFFER_LENGTH
        <5>1. HasFrame(toServer, 0, "key", BUFFER_LENGTH) /\ Most(toServer, BUFFER_LENGTH) = BUFFER_LENGTH
          BY <3>6, KeyThenName
        <5>2. "key" \in What
          BY DEF What
        <5> QED
          BY <1>1, <3>1, <5>1, <5>2, FrameReceipt
      <4>2. toServer' = Frame("name", LOGIN_LENGTH)
        BY <3>1, <3>3, <3>6, <4>1, KeyThenName
      <4> QED
        BY <3>2, <3>4, <3>6, <4>1, <4>2 DEF ToServerInv, Online
    <3> QED
      BY <1>1, <3>2, <3>3, <3>5, <3>6 DEF ToServerInv
  <2> QED
    BY <1>15, <2>1, <2>2, <2>3 DEF init_encryption_client
<1>16. CASE handle_login
  <2>1. PICK bytes \in recv(toServer, BUFFER_LENGTH) :
          toServer' = After(toServer, bytes) /\ Received(toServer, BUFFER_LENGTH, bytes)
    BY <1>16 DEF handle_login, FromClient
  <2>2. PICK what \in {"success", "refused"} :
          /\ toClient' = toClient \o Frame(what, 1) /\ main' = main /\ server = "login"
          /\ server' = IF what = "success" THEN "online" ELSE "login"
    BY <1>16 DEF handle_login, Serves
  <2>3. toServer # <<>> /\ Len(bytes) \in 1 .. Len(toServer)
    BY <1>1, RecvBytes
  <2>4. main = "reply" /\ toServer = Frame("name", LOGIN_LENGTH) /\ toClient = <<>>
    BY <1>1, <2>2, <2>3 DEF ToServerInv
  <2>5. whole' /\ toServer' = <<>>
    <3>1. /\ HasFrame(toServer, 0, "name", LOGIN_LENGTH) /\ Len(toServer) = LOGIN_LENGTH
          /\ Most(toServer, BUFFER_LENGTH) = LOGIN_LENGTH /\ "name" \in What
      BY <1>1, <2>4, OneFrame DEF What, Most
    <3>2. whole' /\ Len(bytes) = LOGIN_LENGTH
      BY <1>1, <2>1, <3>1, FrameReceipt
    <3> QED
      BY <1>1, <2>1, <3>1, <3>2, RecvBytes
  <2>6. /\ toClient' # <<>> /\ toClient'[1].what = what /\ toClient'[1].i = 1 /\ toClient'[1].len = 1
        /\ Len(toClient') = 1 /\ toClient' \in Seq(Byte) /\ toClient'[1] \in Byte
    <3> DEFINE one == 1
    <3>1. one \in Nat /\ one > 0 /\ what \in What /\ toClient' = <<>> \o Frame(what, one)
      BY <2>2, <2>4 DEF What
    <3> HIDE DEF one
    <3>2. /\ toClient' \in Seq(Byte) /\ Len(toClient') = one /\ toClient' # <<>>
          /\ toClient'[1].what = what /\ toClient'[1].i = 1 /\ toClient'[1].len = one
      BY <3>1, OneFrame
    <3>3. toClient'[1] \in Byte
      BY <3>2
    <3> QED
      BY <3>2, <3>3 DEF one
  <2>7. Answer(toClient')
    <3>1. toClient'[1] \in [what : {"success", "refused"}, i : {1}, len : {1}]
      BY <2>6 DEF Byte
    <3> DEFINE t == Tail(toClient')
    <3>2. t \in Seq(Byte) /\ Len(t) = 0
      BY <2>6
    <3> HIDE DEF t
    <3>3. t = <<>>
      BY <3>2
    <3> QED
      BY <2>6, <3>1, <3>3, NoBlocks DEF Answer, t
  <2>8. ToClientInv'
    BY <2>2, <2>4, <2>7 DEF ToClientInv, LoggedIn
  <2>9. ToServerInv'
    BY <2>2, <2>4, <2>5, <2>6 DEF ToServerInv, LoggedIn, Online
  <2> QED
    BY <2>5, <2>8, <2>9
<1>17. CASE read_clients
  <2>1. PICK bytes \in recv(toServer, BUFFER_LENGTH) :
          toServer' = After(toServer, bytes) /\ Received(toServer, BUFFER_LENGTH, bytes)
    BY <1>17 DEF read_clients, FromClient
  <2>2. toServer # <<>> /\ Online /\ main' = main /\ toClient' = toClient /\ server' = server
    BY <1>1, <1>17, <2>1, RecvBytes DEF read_clients, peer
  <2>3. Blocks(toServer) /\ main \in LoggedIn \cup {"ended"}
    BY <1>1, <2>2 DEF ToServerInv
  <2>4. whole' /\ Blocks(toServer')
    BY <1>1, <2>1, <2>3, BlockReceipt
  <2>5. ToClientInv'
    BY <1>1, <2>2 DEF ToClientInv, LoggedIn
  <2>6. ToServerInv'
    BY <2>2, <2>3, <2>4 DEF ToServerInv, LoggedIn, Online
  <2> QED
    BY <2>4, <2>5, <2>6
<1>18. CASE Forward
  <2>1. /\ Online /\ main' = main /\ server' = server /\ toServer' = toServer /\ whole' = whole
        /\ toClient' = toClient \o Frame("message", BUFFER_LENGTH)
    BY <1>18 DEF Forward, Delivers
  <2>2. CASE main = "reply" /\ toServer = <<>> /\ toClient # <<>> /\ toClient[1].what = "success"
    <3>1. Answer(toClient') /\ toClient'[1] = toClient[1] /\ toClient' # <<>>
      BY <1>1, <2>1, <2>2, AnswerAppended DEF ToClientInv, What
    <3>2. ToClientInv'
      BY <2>1, <2>2, <3>1 DEF ToClientInv, LoggedIn
    <3>3. ToServerInv'
      BY <2>1, <2>2, <3>1 DEF ToServerInv, LoggedIn, Online
    <3> QED
      BY <1>1, <2>1, <3>2, <3>3
  <2>3. CASE main \in LoggedIn \cup {"ended"} /\ Blocks(toServer)
    <3>1. main \in LoggedIn => Blocks(toClient')
      BY <1>1, <2>1, BlocksAppended DEF ToClientInv, What
    <3>2. ToClientInv'
      BY <2>1, <2>3, <3>1 DEF ToClientInv, LoggedIn
    <3>3. ToServerInv'
      BY <2>1, <2>3 DEF ToServerInv, LoggedIn, Online
    <3> QED
      BY <1>1, <2>1, <3>2, <3>3
  <2> QED
    BY <1>1, <2>1, <2>2, <2>3 DEF ToServerInv
<1>19. CASE Notice
  BY <1>19 DEF Notice
<1>20. CASE Close
  <2>1. /\ main' = main /\ server' = "closed" /\ toServer' = <<>> /\ toClient' = toClient /\ whole' = whole
    BY <1>20 DEF Close, Serves
  <2> QED
    BY <1>1, <2>1 DEF ToClientInv, ToServerInv, LoggedIn, Online
<1> QED
  BY <1>3, <1>4, <1>5, <1>6, <1>7, <1>8, <1>9, <1>10, <1>11, <1>12, <1>13, <1>14, <1>15, <1>16,
     <1>17, <1>18, <1>19, <1>20
  DEF Next, Main, write_conndata, Server

-----------------------------------------------------------------------------
(* Theorems                                                                *)

\* The lines fit their buffers and the connection what it holds, only a client
\* that has logged in has the two threads, and what is under way is frames.
THEOREM ClientInvariance == Spec => []IInv
<1>1. Init => IInv
  <2> SUFFICES ASSUME Init PROVE IInv
    OBVIOUS
  <2>1. whole /\ ToClientInv /\ ToServerInv
    BY DEF Init, ToClientInv, ToServerInv, LoggedIn, Online
  <2> QED
    BY <2>1, InitTypes DEF IInv
<1>2. IInv /\ [Next]_vars => IInv'
  <2> SUFFICES ASSUME IInv, [Next]_vars PROVE IInv'
    OBVIOUS
  <2>1. Base /\ Base' /\ cuts' >= cuts /\ (noticed => noticed')
    BY BaseStep, History DEF IInv, Base
  <2>2. cuts \in Nat /\ cuts' \in Nat
    BY <2>1 DEF Base, TypeOK
  <2>3. cuts' > 0 \/ noticed' \/ Frames'
    BY <2>1, <2>2, FramesStep DEF IInv, Frames
  <2> QED
    BY <2>1, <2>3 DEF IInv, Base, Frames
<1> QED
  BY <1>1, <1>2, PTL DEF Spec

\* Every recv of the client and of its server returns what one send was given,
\* unless TCP has cut it or a notice of another length was sent, for any lengths
\* of the buffers and any number of messages (client main.c:102, 200, 209, 264).
THEOREM FramesAreWhole == Spec => []FramesWhole
<1>1. IInv => FramesWhole
  BY DEF IInv, FramesWhole
<1> QED
  BY <1>1, ClientInvariance, PTL

\* A name or a message that does not begin its line follows a line longer than a
\* username, and format_linestr gets no empty string before the end of the input,
\* whatever the lengths of the lines (client main.c:187-194, 236-241).
THEOREM PromptsKeepStep == Spec => []PromptsInStep
<1>1. IInv => PromptsInStep
  BY DEF IInv
<1> QED
  BY <1>1, ClientInvariance, PTL

=============================================================================
