--------------------------------- MODULE MCAes ---------------------------------
EXTENDS AesField

\* The CBC vector of tiny-AES-c/test.c:200-211.
TestKey == <<\h2b, \h7e, \h15, \h16, \h28, \hae, \hd2, \ha6, \hab, \hf7, \h15, \h88, \h09, \hcf, \h4f, \h3c>>
TestIv == [k \in 1 .. 16 |-> k - 1]
TestText == <<<<\h6b, \hc1, \hbe, \he2, \h2e, \h40, \h9f, \h96, \he9, \h3d, \h7e, \h11, \h73, \h93, \h17, \h2a>>,
    <<\hae, \h2d, \h8a, \h57, \h1e, \h03, \hac, \h9c, \h9e, \hb7, \h6f, \hac, \h45, \haf, \h8e, \h51>>,
    <<\h30, \hc8, \h1c, \h46, \ha3, \h5c, \he4, \h11, \he5, \hfb, \hc1, \h19, \h1a, \h0a, \h52, \hef>>,
    <<\hf6, \h9f, \h24, \h45, \hdf, \h4f, \h9b, \h17, \had, \h2b, \h41, \h7b, \he6, \h6c, \h37, \h10>>>>
TestCipher == <<<<\h76, \h49, \hab, \hac, \h81, \h19, \hb2, \h46, \hce, \he9, \h8e, \h9b, \h12, \he9, \h19, \h7d>>,
    <<\h50, \h86, \hcb, \h9b, \h50, \h72, \h19, \hee, \h95, \hdb, \h11, \h3a, \h91, \h76, \h78, \hb2>>,
    <<\h73, \hbe, \hd6, \hb8, \he3, \hc1, \h74, \h3b, \h71, \h16, \he6, \h9e, \h22, \h22, \h95, \h16>>,
    <<\h3f, \hf1, \hca, \ha1, \h68, \h1f, \hac, \h09, \h12, \h0e, \hca, \h30, \h75, \h86, \he1, \ha7>>>>

\* What the programs do: eight bytes of key, iv_relyConn, and a text with zeros
\* at its end, as a message in its buffer.
iv_relyConn == [k \in 1 .. 16 |-> \hf0 + k - 1]
Typed == [b \in 1 .. 8 |-> [k \in 1 .. 16 |-> IF b < 6 THEN (37 * k + 11 * b) % 256 ELSE 0]]

MCMessages ==
  {[key |-> TestKey, iv |-> TestIv, text |-> TestText, cipher |-> TestCipher]}
  \cup {[key |-> KeyRead(k, iv_relyConn), iv |-> iv_relyConn, text |-> Typed, cipher |-> <<>>] :
          k \in {<<1, 35, 69, 103, 137, 171, 205, 239>>, <<255, 0, 255, 0, 127, 128, 1, 2>>}}
=============================================================================
