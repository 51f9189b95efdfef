---------------------------- MODULE ProtocolStream ----------------------------
(***************************************************************************)
(* net/ProtocolStream, as TcpSession::send and ChatSession::process use    *)
(* it: a body is a length (4 bytes), a checksum nobody computes (2 bytes), *)
(* cmd and seq in network order and a string behind its length in 7-bit    *)
(* groups.  Bytes are 0..255.  In front of the body the session puts its   *)
(* length again, in the order of the host (little-endian here).            *)
(***************************************************************************)
EXTENDS Integers, Sequences

\* BINARY_PACKLEN_LEN_2 + CHECKSUM_LEN
Reserved == 6

(***************************************************************************)
(* Four bytes, most significant first (htonl), for int32_t values.         *)
(***************************************************************************)
htonl(i) == <<(i \div 16777216) % 256, (i \div 65536) % 256, (i \div 256) % 256, i % 256>>

ntohl(s) ==
  (IF s[1] >= 128 THEN s[1] - 256 ELSE s[1]) * 16777216 + s[2] * 65536 + s[3] * 256 + s[4]

HostOrder(i) == LET n == htonl(i) IN <<n[4], n[3], n[2], n[1]>>

FromHostOrder(s) == ntohl(<<s[4], s[3], s[2], s[1]>>)

(***************************************************************************)
(* write7BitEncoded: groups of seven bits, least significant first, the    *)
(* high bit set on all but the last.  Five groups hold the lengths         *)
(* read7BitEncoded can return.                                             *)
(***************************************************************************)
Weight == <<1, 128, 16384, 2097152, 268435456>>

Groups(value) == CHOOSE n \in 1..5 : /\ n = 5 \/ value < Weight[n + 1]
                                     /\ n = 1 \/ value >= Weight[n]

write7BitEncoded(value) ==
  [i \in 1..Groups(value) |->
     ((value \div Weight[i]) % 128) + (IF i < Groups(value) THEN 128 ELSE 0)]

\* buf holds the bytes up to the first one without the high bit; value is a
\* uint32_t, so of a fifth group only four bits count
read7BitEncoded(buf) ==
  LET x(i, m) == IF i <= Len(buf) THEN (buf[i] % m) * Weight[i] ELSE 0
  IN x(1, 128) + x(2, 128) + x(3, 128) + x(4, 128) + x(5, 16)

\* inbuf.c_str() ends with a NUL
At(s, i) == IF i <= Len(s) THEN s[i] ELSE 0

(***************************************************************************)
(* BinaryStreamReader: s is the package, cur the bytes already read.       *)
(* ReadLengthWithoutOffset looks at up to five bytes before it compares    *)
(* with the length.                                                        *)
(***************************************************************************)
HeadLen(s, cur) ==
  CHOOSE n \in 1..5 : /\ n = 5 \/ At(s, cur + n) < 128
                      /\ \A m \in 1..(n - 1) : At(s, cur + m) >= 128

\* five bytes with the high bit: read7BitEncoded reads on behind its buffer
Overruns(s, cur) == \A n \in 1..5 : At(s, cur + n) >= 128

Enough(s, cur, n) == cur + n <= Len(s)

Refused == [ok |-> FALSE]

\* as far as it is defined
ReadString(s, cur) ==
  IF ~Enough(s, cur, HeadLen(s, cur)) \/ Overruns(s, cur) THEN Refused
  ELSE LET from == cur + HeadLen(s, cur)
           fieldlen == read7BitEncoded(SubSeq(s, cur + 1, from))
       IN IF Enough(s, from, fieldlen)
          THEN [ok |-> TRUE, data |-> SubSeq(s, from + 1, from + fieldlen)]
          ELSE Refused

(***************************************************************************)
(* ChatSession::process up to the dispatch: cmd, seq, data.                *)
(***************************************************************************)
Parsed(s, data) ==
  [ok |-> TRUE,
   msg |-> [cmd |-> ntohl(SubSeq(s, Reserved + 1, Reserved + 4)),
            seq |-> ntohl(SubSeq(s, Reserved + 5, Reserved + 8)),
            data |-> data]]

\* as far as it is defined
ReadPackage(s) ==
  IF ~Enough(s, Reserved, 8) THEN Refused
  ELSE LET str == ReadString(s, Reserved + 8) IN
       IF ~str.ok THEN Refused ELSE Parsed(s, str.data)

\* Does the length of the package's string make read7BitEncoded overrun?
PackageOverruns(s) == Overruns(s, Reserved + 8)

(***************************************************************************)
(* All that process may make of a package.  After an overrun the length is *)
(* whatever was found behind the buffer: too long, or any that fits.       *)
(***************************************************************************)
Readings(s) ==
  IF PackageOverruns(s)
  THEN {Refused} \cup {Parsed(s, SubSeq(s, Reserved + 14, n)) : n \in (Reserved + 13)..Len(s)}
  ELSE {ReadPackage(s)}

(***************************************************************************)
(* BinaryStreamWriter as TcpSession::send uses it.  The checksum bytes are *)
(* never written and never looked at; 0 stands for whatever they hold.     *)
(***************************************************************************)
WriteCString(str) == write7BitEncoded(Len(str)) \o str

\* Fault: seq before cmd.
WritePackageSwapped(m) ==
  LET fields == htonl(m.seq) \o htonl(m.cmd) \o WriteCString(m.data)
  IN htonl(Reserved + Len(fields)) \o <<0, 0>> \o fields

WritePackage(m) ==
  LET fields == htonl(m.cmd) \o htonl(m.seq) \o WriteCString(m.data)
  IN htonl(Reserved + Len(fields)) \o <<0, 0>> \o fields

\* TcpSession::sendPackage puts chat_msg_header in front
Frame(m) == LET body == WritePackage(m) IN HostOrder(Len(body)) \o body

=============================================================================
