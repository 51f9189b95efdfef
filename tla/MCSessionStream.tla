---------------------------- MODULE MCSessionStream ----------------------------
(***************************************************************************)
(* What the client sends in the run of SessionStream: packages of several  *)
(* lengths, ones that are wrong in the header or in the body, and one that *)
(* breaks off.                                                             *)
(***************************************************************************)
EXTENDS SessionStream

\* The client is not the server: its bytes are written out, the header, the length
\* and the checksum that process skips, cmd, seq and the string.
Request(header, cmd, seq, string, msg) ==
  [bytes |-> header \o cmd \o seq \o string, legal |-> TRUE, msg |-> msg]

Illegal(bytes) == [bytes |-> bytes, legal |-> FALSE, msg |-> <<>>]

Plain == Request(<<15, 0, 0, 0, 0, 0, 0, 15, 0, 0>>, <<0, 0, 3, 235>>, <<0, 0, 0, 0>>, <<0>>,
                 [cmd |-> 1003, seq |-> 0, data |-> <<>>])
Long == Request(<<21, 0, 0, 0, 0, 0, 0, 21, 0, 0>>, <<0, 0, 4, 76>>, <<255, 255, 255, 254>>,
                <<6, 72, 105, 33, 0, 200, 7>>,
                [cmd |-> 1100, seq |-> -2, data |-> <<72, 105, 33, 0, 200, 7>>])

\* A string of length 1 whose length says 2^32 + 1 in its five groups.
Wrapped == Request(<<20, 0, 0, 0, 0, 0, 0, 20, 0, 0>>, <<0, 0, 3, 235>>, <<0, 0, 0, 1>>,
                   <<129, 128, 128, 128, 16, 7>>, [cmd |-> 1003, seq |-> 1, data |-> <<7>>])
\* One whose length has no end in the five bytes read7BitEncoded is given.
Overrun == Illegal(<<20, 0, 0, 0, 0, 0, 0, 20, 0, 0, 0, 0, 3, 235, 0, 0, 0, 2,
                     255, 255, 255, 255, 255, 1>>)

MCScripts ==
  {<<Long, Plain>>,
   <<Illegal(HostOrder(MAX_PACKAGE_SIZE + 1))>>,
   <<Plain, Illegal(HostOrder(3) \o <<1, 2, 3>>), Plain>>,
   <<Illegal(HostOrder(15) \o SubSeq(Long.bytes, 5, 19))>>,
   <<Illegal(HostOrder(-1))>>, <<Illegal(HostOrder(-5))>>,
   <<Wrapped, Illegal(SubSeq(Long.bytes, 1, 21))>>,
   <<Overrun>>}

\* A length below zero, followed by as many bytes as anyone likes.
MCNegative == {<<Illegal(HostOrder(-5) \o Plain.bytes)>>}

MCOtherMessages == {[cmd |-> 1100, seq |-> 5, data |-> <<66>>]}

MCNotLogin == <<110, 111>>

\* What write7BitEncoded writes takes at most five bytes, of which
\* ReadLengthWithoutOffset sees the end and read7BitEncoded makes the same value;
\* htonl and ntohl agree on int32_t.
ASSUME RoundTrip ==
  /\ \A i \in {0, 1, 127, 128, 255, 256, 65535, 65536, 16777216, 2147483647} :
       /\ ntohl(htonl(i)) = i /\ ntohl(htonl(-i)) = -i
       /\ FromHostOrder(HostOrder(i)) = i
  /\ \A v \in {0, 1, 127, 128, 129, 16383, 16384, 2097151, 2097152, 268435455, 268435456,
               2147483647} :
       LET bytes == write7BitEncoded(v) IN
       /\ Len(bytes) = HeadLen(bytes, 0) /\ Len(bytes) <= 5
       /\ read7BitEncoded(bytes) = v

=============================================================================
