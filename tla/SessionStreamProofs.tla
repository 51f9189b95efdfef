------------------------- MODULE SessionStreamProofs -------------------------
(***************************************************************************)
(* What TLAPS proves of the bytes of a connection: every package that is   *)
(* packed is unpacked again, the buffer is a queue of bytes whatever its   *)
(* moves, the steps of SessionStream are steps of OrderedStream, process() *)
(* gets the client's requests exactly, and the client can read what it is  *)
(* sent: the answers, in order, and whole messages of other threads.       *)
(***************************************************************************)
EXTENDS SessionStream, SequenceTheorems, WellFoundedInduction, TLAPS

-----------------------------------------------------------------------------
(***************************************************************************)
(* Numbers                                                                 *)
(***************************************************************************)

\* A quotient by a positive number, and a remainder by 256.
LEMMA ByteOf ==
    ASSUME NEW i \in Int
    PROVE  i % 256 \in Byte
  BY SMT DEF Byte

\* htonl writes four bytes.
LEMMA HtonlBytes ==
    ASSUME NEW i \in Int
    PROVE  /\ htonl(i) \in Seq(Byte) /\ Len(htonl(i)) = 4
           /\ HostOrder(i) \in Seq(Byte) /\ Len(HostOrder(i)) = 4
  <1>1. /\ i \div 16777216 \in Int /\ i \div 65536 \in Int /\ i \div 256 \in Int
    BY SMT
  <1>2. /\ (i \div 16777216) % 256 \in Byte /\ (i \div 65536) % 256 \in Byte
        /\ (i \div 256) % 256 \in Byte /\ i % 256 \in Byte
    BY SMT, <1>1, ByteOf
  <1>3. htonl(i) \in Seq(Byte) /\ Len(htonl(i)) = 4
    BY SMT, <1>2 DEF htonl
  <1>4. htonl(i)[1] \in Byte /\ htonl(i)[2] \in Byte /\ htonl(i)[3] \in Byte
        /\ htonl(i)[4] \in Byte
    BY SMT, <1>2 DEF htonl
  <1>5. QED
    BY SMT, <1>3, <1>4 DEF HostOrder

\* ntohl undoes htonl for every int32_t.
LEMMA HtonlInverse ==
    ASSUME NEW i \in Int32
    PROVE  ntohl(htonl(i)) = i /\ FromHostOrder(HostOrder(i)) = i
  <1> DEFINE a == (i \div 16777216) % 256
             b == (i \div 65536) % 256
             c == (i \div 256) % 256
             d == i % 256
             x == i \div 256
             y == i \div 65536
             z == i \div 16777216
  <1>0. i \in Int /\ -2147483648 <= i /\ i <= 2147483647
    BY SMT DEF Int32
  <1>a. i = 256 * x + d /\ 0 <= d /\ d < 256 /\ x \in Int /\ d \in Int
    BY SMT, <1>0
  <1>b. x = 256 * y + c /\ 0 <= c /\ c < 256 /\ y \in Int /\ c \in Int
    BY SMT, <1>0
  <1>c. y = 256 * z + b /\ 0 <= b /\ b < 256 /\ z \in Int /\ b \in Int
    BY SMT, <1>0
  <1>d. a \in Int /\ z = IF a >= 128 THEN a - 256 ELSE a
    BY SMT, <1>0
  <1>1. (IF a >= 128 THEN a - 256 ELSE a) * 16777216 + b * 65536 + c * 256 + d = i
    <2> HIDE DEF a, b, c, d, x, y, z
    <2>1. QED
      BY SMT, <1>0, <1>a, <1>b, <1>c, <1>d
  <1>2. htonl(i) = <<a, b, c, d>>
    BY SMT DEF htonl
  <1> HIDE DEF a, b, c, d
  <1>3. ntohl(htonl(i)) = i
    BY SMT, <1>1, <1>2 DEF ntohl
  <1>4. HostOrder(i) = <<d, c, b, a>>
    BY SMT, <1>2 DEF HostOrder
  <1>5. FromHostOrder(HostOrder(i)) = i
    BY SMT, <1>1, <1>4 DEF FromHostOrder, ntohl
  <1>6. QED
    BY SMT, <1>3, <1>5

\* The weights of the groups.
LEMMA Weights ==
    /\ Weight[1] = 1 /\ Weight[2] = 128 /\ Weight[3] = 16384
    /\ Weight[4] = 2097152 /\ Weight[5] = 268435456
  BY SMT DEF Weight

\* How many groups a length takes: no more than it needs, and never none.
LEMMA GroupsChosen ==
    ASSUME NEW v \in Nat
    PROVE  /\ Groups(v) \in 1..5
           /\ Groups(v) = 5 \/ v < Weight[Groups(v) + 1]
           /\ Groups(v) = 1 \/ v >= Weight[Groups(v)]
  <1> DEFINE G(n) == /\ n = 5 \/ v < Weight[n + 1]
                     /\ n = 1 \/ v >= Weight[n]
  <1>1. \E n \in 1..5 : G(n)
    <2>1. CASE v < 128
      BY SMT, <2>1, Weights
    <2>2. CASE 128 <= v /\ v < 16384
      BY SMT, <2>2, Weights
    <2>3. CASE 16384 <= v /\ v < 2097152
      BY SMT, <2>3, Weights
    <2>4. CASE 2097152 <= v /\ v < 268435456
      BY SMT, <2>4, Weights
    <2>5. CASE 268435456 <= v
      BY SMT, <2>5, Weights
    <2>6. QED
      BY SMT, <2>1, <2>2, <2>3, <2>4, <2>5
  <1>2. Groups(v) = CHOOSE n \in 1..5 : G(n)
    BY Zenon DEF Groups
  <1> HIDE DEF G
  <1>3. Groups(v) \in 1..5 /\ G(Groups(v))
    BY Zenon, <1>1, <1>2
  <1>4. QED
    BY Zenon, <1>3 DEF G

\* The bytes write7BitEncoded writes: the high bit on all but the last.
LEMMA Written ==
    ASSUME NEW v \in Nat
    PROVE  /\ write7BitEncoded(v) \in Seq(Byte)
           /\ Len(write7BitEncoded(v)) = Groups(v)
           /\ \A i \in 1..Groups(v) :
                /\ write7BitEncoded(v)[i] < 128 <=> i = Groups(v)
                /\ write7BitEncoded(v)[i] % 128 = (v \div Weight[i]) % 128
  <1>1. PICK n : n = Groups(v)
    OBVIOUS
  <1>2. n \in 1..5
    BY <1>1, GroupsChosen
  <1> DEFINE g(i) == ((v \div Weight[i]) % 128) + (IF i < n THEN 128 ELSE 0)
  <1>3. ASSUME NEW i \in 1..n
        PROVE  /\ g(i) \in Byte
               /\ g(i) < 128 <=> i = n
               /\ g(i) % 128 = (v \div Weight[i]) % 128
    <2>1. Weight[i] \in Nat /\ Weight[i] > 0
      BY SMT, <1>2, Weights
    <2>2. PICK r : r = (v \div Weight[i]) % 128
      OBVIOUS
    <2>3. r \in 0..127
      BY SMT, <2>1, <2>2
    <2>4. g(i) = r + (IF i < n THEN 128 ELSE 0)
      BY SMT, <2>2
    <2> HIDE DEF g
    <2>5. QED
      BY SMT, <2>2, <2>3, <2>4, <1>2 DEF Byte
  <1>4. write7BitEncoded(v) = [i \in 1..n |-> g(i)]
    BY <1>1 DEF write7BitEncoded
  <1> HIDE DEF g
  <1>5. /\ write7BitEncoded(v) \in [1..n -> Byte]
        /\ \A i \in 1..n : write7BitEncoded(v)[i] = g(i)
    BY <1>3, <1>4
  <1>6. write7BitEncoded(v) \in Seq(Byte) /\ Len(write7BitEncoded(v)) = n
    BY SMT, <1>2, <1>5
  <1>7. QED
    BY <1>1, <1>3, <1>5, <1>6

\* A byte of a string.
LEMMA ByteAt ==
    ASSUME NEW w \in Seq(Byte), NEW i \in 1..Len(w)
    PROVE  w[i] \in Byte
  OBVIOUS

\* Every length comes back as it was written, however many groups it took.
LEMMA LengthInverse ==
    ASSUME NEW v \in Nat, v < 4294967296
    PROVE  read7BitEncoded(write7BitEncoded(v)) = v
  <1>1. PICK w : w = write7BitEncoded(v)
    BY SMT
  <1>2. PICK n : n = Groups(v)
    BY SMT
  <1>a. /\ Groups(v) \in 1..5
        /\ Groups(v) = 5 \/ v < Weight[Groups(v) + 1]
    BY SMT, GroupsChosen
  <1>b. /\ Len(write7BitEncoded(v)) = Groups(v)
        /\ \A i \in 1..Groups(v) : write7BitEncoded(v)[i] % 128 = (v \div Weight[i]) % 128
    BY SMT, Written
  <1>3. /\ n \in 1..5 /\ Len(w) = n
        /\ n = 5 \/ v < Weight[n + 1]
        /\ \A i \in 1..n : w[i] % 128 = (v \div Weight[i]) % 128
    BY SMT, <1>1, <1>2, <1>a, <1>b
  <1>c. n = 5 => w[5] \in Byte /\ w[5] < 128
    <2>1. /\ write7BitEncoded(v) \in Seq(Byte)
          /\ \A i \in 1..Groups(v) : write7BitEncoded(v)[i] < 128 <=> i = Groups(v)
      BY SMT, Written
    <2>2. w \in Seq(Byte) /\ (\A i \in 1..n : w[i] < 128 <=> i = n)
      BY SMT, <2>1, <1>1, <1>2
    <2>3. n = 5 => 5 \in 1..n /\ w[5] < 128 /\ Len(w) = 5
      BY SMT, <2>2, <1>3
    <2>4. n = 5 => 5 \in 1..Len(w)
      BY SMT, <1>3
    <2>5. QED
      BY SMT, <2>2, <2>3, <2>4, ByteAt
  <1> DEFINE x(i, m) == IF i <= Len(w) THEN (w[i] % m) * Weight[i] ELSE 0
  <1>4. PICK x1, x2, x3, x4, x5 : /\ x1 = x(1, 128) /\ x2 = x(2, 128) /\ x3 = x(3, 128)
                                  /\ x4 = x(4, 128) /\ x5 = x(5, 16)
    BY SMT
  <1>5. read7BitEncoded(w) = x1 + x2 + x3 + x4 + x5
    BY SMT, <1>4 DEF read7BitEncoded
  <1>6. PICK q2, q3, q4, q5 : /\ q2 = v \div 128 /\ q3 = v \div 16384
                              /\ q4 = v \div 2097152 /\ q5 = v \div 268435456
    BY SMT
  <1>7. PICK d1, d2, d3, d4 : /\ d1 = v % 128 /\ d2 = q2 % 128 /\ d3 = q3 % 128
                              /\ d4 = q4 % 128
    BY SMT
  <1>8. /\ q2 \in Nat /\ q3 \in Nat /\ q4 \in Nat /\ q5 \in Nat
        /\ v = 128 * q2 + d1 /\ d1 \in 0..127
    BY SMT, <1>6, <1>7
  <1>9. q2 = 128 * q3 + d2 /\ d2 \in 0..127
    BY SMT, <1>6, <1>7
  <1>10. q3 = 128 * q4 + d3 /\ d3 \in 0..127
    BY SMT, <1>6, <1>7
  <1>11. q4 = 128 * q5 + d4 /\ d4 \in 0..127
    BY SMT, <1>6, <1>7
  <1>12. q5 % 128 = q5 /\ q5 % 16 = q5 /\ q5 < 128
    BY SMT, <1>6
  <1>13. v = d1 + 128 * d2 + 16384 * d3 + 2097152 * d4 + 268435456 * q5
    BY SMT, <1>8, <1>9, <1>10, <1>11
  <1>s. /\ n = 1 => v < 128
        /\ n = 2 => v < 16384
        /\ n = 3 => v < 2097152
        /\ n = 4 => v < 268435456
    BY SMTT(40), <1>3, Weights
  <1>t. n \in {1, 2, 3, 4, 5}
    BY SMT, <1>3
  <1>u. /\ n < 2 => q2 = 0
        /\ n < 3 => q3 = 0
        /\ n < 4 => q4 = 0
        /\ n < 5 => q5 = 0
    BY SMT, <1>s, <1>t, <1>6
  <1>v. /\ n < 2 => x2 = 0
        /\ n < 3 => x3 = 0
        /\ n < 4 => x4 = 0
        /\ n < 5 => x5 = 0
    BY SMT, <1>3, <1>4
  <1>14. x1 = d1
    BY SMT, <1>3, <1>4, <1>7, <1>8, Weights
  <1>15. x2 = 128 * d2
    <2>1. CASE n >= 2
      <3>1. w[2] % 128 = (v \div Weight[2]) % 128
        BY SMT, <2>1, <1>3
      <3>2. w[2] % 128 = d2
        BY SMT, <3>1, <1>6, <1>7, <1>12, Weights
      <3>3. x2 = d2 * Weight[2]
        BY SMT, <3>2, <2>1, <1>3, <1>4
      <3>4. QED
        BY SMT, <3>3, <1>8, <1>9, Weights
    <2>2. CASE n = 1
      BY SMT, <2>2, <1>t, <1>u, <1>v, <1>8, <1>9, <1>10, <1>11
    <2>3. QED
      BY SMT, <1>3, <2>1, <2>2
  <1>16. x3 = 16384 * d3
    <2>1. CASE n >= 3
      <3>1. w[3] % 128 = (v \div Weight[3]) % 128
        BY SMT, <2>1, <1>3
      <3>2. w[3] % 128 = d3
        BY SMT, <3>1, <1>6, <1>7, <1>12, Weights
      <3>3. x3 = d3 * Weight[3]
        BY SMT, <3>2, <2>1, <1>3, <1>4
      <3>4. QED
        BY SMT, <3>3, <1>8, <1>10, Weights
    <2>2. CASE n < 3
      BY SMT, <2>2, <1>t, <1>u, <1>v, <1>8, <1>9, <1>10, <1>11
    <2>3. QED
      BY SMT, <1>3, <2>1, <2>2
  <1>17. x4 = 2097152 * d4
    <2>1. CASE n >= 4
      <3>1. w[4] % 128 = (v \div Weight[4]) % 128
        BY SMT, <2>1, <1>3
      <3>2. w[4] % 128 = d4
        BY SMT, <3>1, <1>6, <1>7, <1>12, Weights
      <3>3. x4 = d4 * Weight[4]
        BY SMT, <3>2, <2>1, <1>3, <1>4
      <3>4. QED
        BY SMT, <3>3, <1>8, <1>11, Weights
    <2>2. CASE n < 4
      BY SMT, <2>2, <1>t, <1>u, <1>v, <1>8, <1>9, <1>10, <1>11
    <2>3. QED
      BY SMT, <1>3, <2>1, <2>2
  <1>18. x5 = 268435456 * q5
    <2>1. CASE n = 5
      <3>1. w[5] % 128 = (v \div Weight[5]) % 128
        BY SMT, <2>1, <1>3
      <3>2. w[5] % 128 = q5
        BY SMT, <3>1, <1>6, <1>7, <1>12, Weights
      <3>a. w[5] % 16 = q5
        BY SMT, <3>2, <2>1, <1>c, <1>12 DEF Byte
      <3>3. x5 = q5 * Weight[5]
        BY SMT, <3>a, <2>1, <1>3, <1>4
      <3>4. QED
        BY SMT, <3>3, <1>8, <1>12, Weights
    <2>2. CASE n < 5
      BY SMT, <2>2, <1>t, <1>u, <1>v, <1>8, <1>9, <1>10, <1>11
    <2>3. QED
      BY SMT, <1>3, <2>1, <2>2
  <1>19. QED
    BY SMT, <1>1, <1>5, <1>13, <1>14, <1>15, <1>16, <1>17, <1>18

-----------------------------------------------------------------------------
(***************************************************************************)
(* Strings of bytes                                                        *)
(***************************************************************************)

\* Two strings with the same bytes at the same places are one.
LEMMA SameBytes ==
    ASSUME NEW s \in Seq(Byte), NEW t \in Seq(Byte), Len(s) = Len(t),
           \A i \in 1..Len(s) : s[i] = t[i]
    PROVE  s = t
  BY SMT

\* A string has a length.
LEMMA BytesCounted == \A s \in Seq(Byte) : Len(s) \in Nat
  BY SMT

\* Joining two strings.
LEMMA Joined ==
    ASSUME NEW s \in Seq(Byte), NEW t \in Seq(Byte)
    PROVE  /\ s \o t \in Seq(Byte) /\ Len(s \o t) = Len(s) + Len(t)
           /\ \A i \in 1..Len(s) : (s \o t)[i] = s[i]
           /\ \A i \in 1..Len(t) : (s \o t)[Len(s) + i] = t[i]
           /\ \A i \in 1..(Len(s) + Len(t)) :
                (s \o t)[i] = IF i <= Len(s) THEN s[i] ELSE t[i - Len(s)]
  BY SMT

\* Cutting a piece out of a string.
LEMMA Piece ==
    ASSUME NEW s \in Seq(Byte), NEW i \in Nat, NEW j \in Nat, i <= j, j <= Len(s)
    PROVE  /\ SubSeq(s, i + 1, j) \in Seq(Byte) /\ Len(SubSeq(s, i + 1, j)) = j - i
           /\ \A k \in 1..(j - i) : SubSeq(s, i + 1, j)[k] = s[i + k]
  BY SMT

\* Joining is associative.
LEMMA Associative ==
    ASSUME NEW s \in Seq(Byte), NEW t \in Seq(Byte), NEW u \in Seq(Byte)
    PROVE  (s \o t) \o u = s \o (t \o u)
  BY SMT, ConcatAssociative

\* A string cut in two and joined again.
LEMMA CutJoin ==
    ASSUME NEW s \in Seq(Byte), NEW k \in 0..Len(s)
    PROVE  SubSeq(s, 1, k) \o SubSeq(s, k + 1, Len(s)) = s
  <1>1. PICK p, q : p = SubSeq(s, 1, k) /\ q = SubSeq(s, k + 1, Len(s))
    OBVIOUS
  <1>2. Len(s) \in Nat /\ k \in Nat /\ k <= Len(s)
    BY SMT
  <1>3. /\ p \in Seq(Byte) /\ Len(p) = k
        /\ \A i \in 1..k : p[i] = s[i]
    BY SMT, <1>1, <1>2
  <1>4. /\ q \in Seq(Byte) /\ Len(q) = Len(s) - k
        /\ \A i \in 1..(Len(s) - k) : q[i] = s[k + i]
    BY SMT, <1>1, <1>2
  <1>5. PICK r : r = p \o q
    OBVIOUS
  <1>6. /\ r \in Seq(Byte) /\ Len(r) = Len(s)
        /\ \A i \in 1..Len(p) : r[i] = p[i]
        /\ \A i \in 1..Len(q) : r[Len(p) + i] = q[i]
    BY SMT, <1>2, <1>3, <1>4, <1>5
  <1>7. ASSUME NEW i \in 1..Len(r) PROVE r[i] = s[i]
    <2>1. CASE i <= k
      BY SMT, <2>1, <1>2, <1>3, <1>6
    <2>2. CASE i > k
      <3>1. PICK j : j = i - k
        OBVIOUS
      <3>2. j \in 1..Len(q) /\ i = k + j
        BY SMT, <3>1, <2>2, <1>2, <1>4, <1>6
      <3>3. QED
        BY SMT, <3>2, <1>3, <1>4, <1>6
    <2>3. QED
      BY SMT, <2>1, <2>2, <1>2, <1>6
  <1>8. r = s
    BY <1>6, <1>7, SameBytes
  <1>9. QED
    BY <1>1, <1>5, <1>8

\* The two parts of a joined string.
LEMMA JoinCut ==
    ASSUME NEW s \in Seq(Byte), NEW t \in Seq(Byte)
    PROVE  /\ SubSeq(s \o t, 1, Len(s)) = s
           /\ SubSeq(s \o t, Len(s) + 1, Len(s \o t)) = t
  <1>1. PICK r : r = s \o t
    OBVIOUS
  <1>2. /\ r \in Seq(Byte) /\ Len(r) = Len(s) + Len(t)
        /\ \A i \in 1..Len(s) : r[i] = s[i]
        /\ \A i \in 1..Len(t) : r[Len(s) + i] = t[i]
    BY <1>1, Joined
  <1>3. Len(s) \in Nat /\ Len(t) \in Nat
    OBVIOUS
  <1>4. SubSeq(r, 1, Len(s)) = s
    BY SMT, <1>2, <1>3
  <1>5. PICK u : u = SubSeq(r, Len(s) + 1, Len(r))
    OBVIOUS
  <1>6. /\ u \in Seq(Byte) /\ Len(u) = Len(t)
        /\ \A i \in 1..Len(t) : u[i] = r[Len(s) + i]
    BY SMT, <1>2, <1>3, <1>5
  <1>7. u = t
    BY <1>2, <1>6, SameBytes
  <1>8. QED
    BY <1>1, <1>4, <1>5, <1>7

\* A string between two others.
LEMMA Middle ==
    ASSUME NEW x \in Seq(Byte), NEW y \in Seq(Byte), NEW z \in Seq(Byte)
    PROVE  SubSeq(x \o (y \o z), Len(x) + 1, Len(x) + Len(y)) = y
  <1>1. PICK r, t : r = y \o z /\ t = x \o r
    OBVIOUS
  <1>2. /\ r \in Seq(Byte) /\ Len(r) = Len(y) + Len(z)
        /\ \A i \in 1..Len(y) : r[i] = y[i]
    BY <1>1, Joined
  <1>3. /\ t \in Seq(Byte) /\ Len(t) = Len(x) + Len(r)
        /\ \A i \in 1..Len(r) : t[Len(x) + i] = r[i]
    BY <1>1, <1>2, Joined
  <1>4. Len(x) \in Nat /\ Len(y) \in Nat /\ Len(z) \in Nat
    OBVIOUS
  <1>5. PICK u : u = SubSeq(t, Len(x) + 1, Len(x) + Len(y))
    OBVIOUS
  <1>6. /\ u \in Seq(Byte) /\ Len(u) = Len(y)
        /\ \A i \in 1..Len(y) : u[i] = t[Len(x) + i]
    BY SMT, <1>2, <1>3, <1>4, <1>5
  <1>7. ASSUME NEW i \in 1..Len(y) PROVE u[i] = y[i]
    <2>1. i \in 1..Len(r)
      BY SMT, <1>2, <1>4
    <2>2. QED
      BY Zenon, <2>1, <1>2, <1>3, <1>6
  <1>8. u = y
    BY <1>6, <1>7, SameBytes
  <1>9. x \o (y \o z) = t
    BY Zenon, <1>1
  <1>10. QED
    BY Zenon, <1>5, <1>8, <1>9

\* Two strings that make up a third are its two parts.
LEMMA SplitMade ==
    ASSUME NEW all \in Seq(Byte), NEW d \in Seq(Byte), NEW q \in Seq(Byte), d \o q = all
    PROVE  /\ d = SubSeq(all, 1, Len(d)) /\ q = SubSeq(all, Len(d) + 1, Len(all))
           /\ Len(d) \in Nat /\ Len(q) \in Nat /\ Len(all) = Len(d) + Len(q)
  <1>1. /\ SubSeq(d \o q, 1, Len(d)) = d
        /\ SubSeq(d \o q, Len(d) + 1, Len(d \o q)) = q
    BY Zenon, JoinCut
  <1>2. Len(d \o q) = Len(d) + Len(q)
    BY Zenon, Joined
  <1>3. Len(d) \in Nat /\ Len(q) \in Nat
    OBVIOUS
  <1>4. QED
    BY Zenon, <1>1, <1>2, <1>3

-----------------------------------------------------------------------------
(***************************************************************************)
(* What a client sends: the bytes of its packages                          *)
(***************************************************************************)

\* A non-empty set of natural numbers has a least element.
LEMMA LeastNat ==
    ASSUME NEW T \in SUBSET Nat, T # {}
    PROVE  \E x \in T : \A y \in T : x <= y
  <1>1. PICK R : R = OpToRel(<, Nat)
    OBVIOUS
  <1>2. IsWellFoundedOn(R, Nat)
    BY <1>1, NatLessThanWellFounded
  <1>3. PICK x \in T : \A y \in T : ~(<<y, x>> \in R)
    BY <1>2, WFMin
  <1>4. \A y \in T : y < x => <<y, x>> \in R
    BY <1>1 DEF OpToRel
  <1>5. ASSUME NEW y \in T
        PROVE  x <= y
    <2>1. x \in Nat /\ y \in Nat
      OBVIOUS
    <2>2. ~(y < x)
      BY <1>3, <1>4
    <2>3. QED
      BY <2>1, <2>2
  <1>6. QED
    BY <1>5

\* Induction: a set that holds 0 and with every number the next one.
LEMMA AllNat ==
    ASSUME NEW T, 0 \in T, \A n \in Nat : n \in T => n + 1 \in T
    PROVE  Nat \subseteq T
  <1>1. SUFFICES ASSUME Nat \ T # {} PROVE FALSE
    BY Zenon
  <1>2. PICK x \in Nat \ T : \A y \in Nat \ T : x <= y
    BY <1>1, LeastNat
  <1>3. x # 0 /\ x - 1 \in Nat /\ x = (x - 1) + 1 /\ ~(x <= x - 1)
    BY <1>2
  <1>4. x - 1 \in T
    BY Zenon, <1>2, <1>3
  <1>5. QED
    BY Zenon, <1>2, <1>3, <1>4

\* c[i] is the string of the first i pieces.
Runs(n, b, c) == /\ c \in [0..n -> Seq(Byte)] /\ c[0] = <<>>
                 /\ \A i \in 1..n : c[i] = c[i - 1] \o b[i]

\* A string can be joined up piece by piece.
LEMMA Running ==
    ASSUME NEW N \in Nat, NEW b \in [1..N -> Seq(Byte)]
    PROVE  \E c \in [0..N -> Seq(Byte)] :
             /\ c[0] = <<>>
             /\ \A i \in 1..N : c[i] = c[i - 1] \o b[i]
  <1> DEFINE Goes(n, c) == /\ c[0] = <<>>
                           /\ \A i \in 1..n : c[i] = c[i - 1] \o b[i]
             T == {n \in Nat : n <= N => \E c \in [0..n -> Seq(Byte)] : Goes(n, c)}
  <1>1. 0 \in T
    <2>1. PICK c : c = [i \in 0..0 |-> <<>>]
      OBVIOUS
    <2>2. c \in [0..0 -> Seq(Byte)] /\ c[0] = <<>>
      BY SMT, <2>1
    <2>3. \A i \in 1..0 : c[i] = c[i - 1] \o b[i]
      <3>1. 1..0 = {}
        BY SMT
      <3>2. QED
        BY Zenon, <3>1
    <2>4. 0 \in Nat
      OBVIOUS
    <2>5. QED
      BY Zenon, <2>2, <2>3, <2>4
  <1>2. ASSUME NEW n \in Nat, n \in T
        PROVE  n + 1 \in T
    <2>a. n + 1 \in Nat
      BY SMT
    <2>1. SUFFICES ASSUME n + 1 <= N PROVE \E c \in [0..(n + 1) -> Seq(Byte)] : Goes(n + 1, c)
      BY Zenon, <2>a
    <2>2. n <= N /\ n + 1 \in 1..N
      BY SMT, <2>1
    <2>3. PICK c \in [0..n -> Seq(Byte)] : Goes(n, c)
      BY <1>2, <2>2
    <2>4. PICK x : x = c[n] \o b[n + 1]
      OBVIOUS
    <2>5. x \in Seq(Byte)
      <3>1. c[n] \in Seq(Byte) /\ b[n + 1] \in Seq(Byte)
        BY SMT, <2>2
      <3>2. QED
        BY Zenon, <3>1, <2>4, Joined
    <2>6. PICK d : d = [i \in 0..(n + 1) |-> IF i = n + 1 THEN x ELSE c[i]]
      OBVIOUS
    <2>7. d \in [0..(n + 1) -> Seq(Byte)]
      BY SMT, <2>5, <2>6
    <2>8. d[0] = <<>>
      <3>1. d[0] = c[0]
        BY SMT, <2>6
      <3>2. QED
        BY <3>1, <2>3
    <2>9. ASSUME NEW i \in 1..(n + 1) PROVE d[i] = d[i - 1] \o b[i]
      <3>1. CASE i = n + 1
        <4>1. d[i] = x /\ d[i - 1] = c[n]
          BY SMT, <3>1, <2>6
        <4>2. QED
          BY Zenon, <4>1, <3>1, <2>4
      <3>2. CASE i # n + 1
        <4>1. i \in 1..n /\ d[i] = c[i] /\ d[i - 1] = c[i - 1]
          BY SMT, <3>2, <2>6
        <4>2. c[i] = c[i - 1] \o b[i]
          BY Zenon, <4>1, <2>3
        <4>3. QED
          BY Zenon, <4>1, <4>2
      <3>3. QED
        BY Zenon, <3>1, <3>2
    <2>10. QED
      BY Zenon, <2>7, <2>8, <2>9
  <1>3. N \in T
    <2> HIDE DEF T
    <2>1. QED
      BY Zenon, <1>1, <1>2, AllNat
  <1>4. N <= N
    OBVIOUS
  <1>5. QED
    BY Zenon, <1>3, <1>4

\* The bytes of packages, one package after the other.
LEMMA ConcatBuilt ==
    ASSUME NEW s, Len(s) \in Nat, \A i \in 1..Len(s) : s[i].bytes \in Seq(Byte)
    PROVE  \E c : Runs(Len(s), [i \in 1..Len(s) |-> s[i].bytes], c) /\ Concat(s) = c[Len(s)]
  <1>1. PICK n, b : n = Len(s) /\ b = [i \in 1..Len(s) |-> s[i].bytes]
    OBVIOUS
  <1>2. n \in Nat /\ b \in [1..n -> Seq(Byte)] /\ \A i \in 1..n : b[i] = s[i].bytes
    BY Zenon, <1>1
  <1>3. PICK c \in [0..n -> Seq(Byte)] : c[0] = <<>> /\ \A i \in 1..n : c[i] = c[i - 1] \o b[i]
    BY Zenon, <1>2, Running
  <1> DEFINE F(g) == [i \in 0..n |-> IF i = 0 THEN <<>> ELSE g[i - 1] \o s[i].bytes]
             d == CHOOSE g : g = F(g)
  <1>4. c = F(c)
    <2>1. ASSUME NEW i \in 0..n
          PROVE  c[i] = IF i = 0 THEN <<>> ELSE c[i - 1] \o s[i].bytes
      <3>1. i = 0 \/ i \in 1..n
        BY SMT, <1>2
      <3>2. QED
        BY Zenon, <3>1, <1>2, <1>3
    <2>2. QED
      BY <2>1, <1>3
  <1>5. d = F(d)
    BY Zenon, <1>4
  <1>6. Concat(s) = d[n]
    BY Zenon, <1>1 DEF Concat
  <1> HIDE DEF d
  <1>7. /\ d[0] = <<>>
        /\ \A i \in 1..n : d[i] = d[i - 1] \o b[i]
    <2>1. 0 \in 0..n /\ \A i \in 1..n : i \in 0..n /\ i # 0
      BY SMT, <1>2
    <2>2. \A i \in 0..n : d[i] = IF i = 0 THEN <<>> ELSE d[i - 1] \o s[i].bytes
      BY Zenon, <1>5
    <2>3. QED
      BY Zenon, <2>1, <2>2, <1>2
  <1> DEFINE T == {k \in Nat : k <= n => d[k] = c[k]}
  <1>8. 0 \in T
    BY Zenon, <1>3, <1>7, 0 \in Nat
  <1>9. ASSUME NEW k \in Nat, k \in T PROVE k + 1 \in T
    <2>a. k + 1 \in Nat
      BY SMT
    <2>1. SUFFICES ASSUME k + 1 <= n PROVE d[k + 1] = c[k + 1]
      BY Zenon, <2>a
    <2>2. k <= n /\ k + 1 \in 1..n /\ (k + 1) - 1 = k
      BY SMT, <2>1, <1>2
    <2>3. QED
      BY Zenon, <2>2, <1>3, <1>7, <1>9
  <1>10. n \in T
    <2> HIDE DEF T
    <2>1. QED
      BY Zenon, <1>2, <1>8, <1>9, AllNat
  <1>11. n <= n
    BY SMT, <1>2
  <1>12. Concat(s) = c[n]
    BY Zenon, <1>6, <1>10, <1>11
  <1>13. Runs(n, b, c)
    BY Zenon, <1>3 DEF Runs
  <1>14. QED
    BY Zenon, <1>1, <1>12, <1>13

\* Cutting a piece out of any sequence.
LEMMA PieceOf ==
    ASSUME NEW S, NEW s \in Seq(S), NEW i \in Nat, NEW j \in Nat, i <= j, j <= Len(s)
    PROVE  /\ SubSeq(s, i + 1, j) \in Seq(S) /\ Len(SubSeq(s, i + 1, j)) = j - i
           /\ \A k \in 1..(j - i) : SubSeq(s, i + 1, j)[k] = s[i + k]
  BY SMT

\* What is assumed of a client's packages.
LEMMA ScriptTyped ==
    ASSUME NEW s \in Scripts
    PROVE  /\ s \in Seq({s[i] : i \in DOMAIN s}) /\ Len(s) \in Nat
           /\ \A i \in 1..Len(s) : s[i].bytes \in Seq(Byte)
  <1>1. s \in Seq({s[i] : i \in DOMAIN s})
    BY Zenon, ScriptsAssumption
  <1>2. PICK S : S = {s[i] : i \in DOMAIN s}
    OBVIOUS
  <1>3. s \in Seq(S)
    BY Zenon, <1>1, <1>2
  <1>4. Len(s) \in Nat
    BY SMT, <1>3
  <1>5. QED
    BY Zenon, <1>1, <1>4, ScriptsAssumption

\* The bytes of the packages from one to another lie between those in front and
\* those behind.
LEMMA ConcatPart ==
    ASSUME NEW s \in Scripts, NEW i \in 0..Len(s), NEW j \in 0..Len(s), i <= j,
           NEW c, Runs(Len(s), [k \in 1..Len(s) |-> s[k].bytes], c)
    PROVE  /\ Concat(SubSeq(s, i + 1, j)) \in Seq(Byte)
           /\ c[j] = c[i] \o Concat(SubSeq(s, i + 1, j))
  <1>1. PICK n, M, t, b : /\ n = Len(s) /\ M = j - i /\ t = SubSeq(s, i + 1, j)
                          /\ b = [k \in 1..Len(s) |-> s[k].bytes]
    OBVIOUS
  <1>2. /\ n \in Nat
        /\ \A k \in 1..n : s[k].bytes \in Seq(Byte)
        /\ \A k \in 1..n : b[k] \in Seq(Byte)
    BY Zenon, <1>1, ScriptTyped
  <1>3. i \in Nat /\ j \in Nat /\ i <= n /\ j <= n /\ M \in Nat /\ i + M <= n /\ i + M = j
    BY SMT, <1>1, <1>2
  <1>4. /\ Len(t) = M
        /\ \A k \in 1..M : t[k] = s[i + k]
    <2>1. PICK S : S = {s[k] : k \in DOMAIN s}
      OBVIOUS
    <2>2. s \in Seq(S) /\ j <= Len(s)
      BY Zenon, <2>1, <1>1, <1>3, ScriptTyped
    <2>3. /\ Len(SubSeq(s, i + 1, j)) = j - i
          /\ \A k \in 1..(j - i) : SubSeq(s, i + 1, j)[k] = s[i + k]
      BY SMT, <2>2, <1>3
    <2>4. QED
      BY Zenon, <2>3, <1>1
  <1>5. PICK e : e = [k \in 1..Len(t) |-> t[k].bytes]
    OBVIOUS
  <1>6. ASSUME NEW k \in 1..M PROVE e[k] = b[i + k] /\ t[k].bytes \in Seq(Byte)
    <2>1. k \in Nat /\ 1 <= k /\ k <= M
      BY SMT, <1>3
    <2>2. i + k \in 1..n
      BY SMT, <2>1, <1>2, <1>3
    <2>3. QED
      BY Zenon, <2>2, <1>1, <1>2, <1>4, <1>5
  <1>7. PICK d : Runs(M, e, d) /\ Concat(t) = d[M]
    BY Zenon, <1>3, <1>4, <1>5, <1>6, ConcatBuilt
  <1>8. \A k \in 0..M : c[i + k] = c[i] \o d[k]
    <2>1. /\ c \in [0..n -> Seq(Byte)] /\ \A k \in 1..n : c[k] = c[k - 1] \o b[k]
          /\ d \in [0..M -> Seq(Byte)] /\ d[0] = <<>> /\ \A k \in 1..M : d[k] = d[k - 1] \o e[k]
      BY Zenon, <1>1, <1>7 DEF Runs
    <2> DEFINE T == {m \in Nat : m <= M => c[i + m] = c[i] \o d[m]}
    <2>2. 0 \in T
      <3>1. i \in 0..n /\ i + 0 = i /\ 0 \in Nat
        BY SMT, <1>2, <1>3
      <3>2. PICK x : x = c[i]
        OBVIOUS
      <3>3. x \in Seq(Byte)
        BY Zenon, <3>1, <3>2, <2>1
      <3>4. x \o <<>> = x
        BY SMT, <3>3
      <3>5. QED
        BY Zenon, <3>1, <3>2, <3>4, <2>1
    <2>3. ASSUME NEW m \in Nat, m \in T
          PROVE  m + 1 \in T
      <3>1. m + 1 \in Nat
        BY SMT
      <3>2. SUFFICES ASSUME m + 1 <= M PROVE c[i + (m + 1)] = c[i] \o d[m + 1]
        BY Zenon, <3>1
      <3>3. /\ m <= M /\ m + 1 \in 1..M /\ i + (m + 1) \in 1..n
            /\ (i + (m + 1)) - 1 = i + m /\ (m + 1) - 1 = m
            /\ i \in 0..n /\ m \in 0..M
        BY SMT, <3>2, <1>2, <1>3
      <3>4. c[i + m] = c[i] \o d[m]
        BY Zenon, <3>3, <2>3
      <3>5. c[i + (m + 1)] = c[i + m] \o b[i + (m + 1)]
        BY Zenon, <3>3, <2>1
      <3>6. d[m + 1] = d[m] \o b[i + (m + 1)]
        BY Zenon, <3>3, <2>1, <1>6
      <3>7. c[i] \in Seq(Byte) /\ d[m] \in Seq(Byte) /\ b[i + (m + 1)] \in Seq(Byte)
        BY Zenon, <3>3, <2>1, <1>2
      <3>8. (c[i] \o d[m]) \o b[i + (m + 1)] = c[i] \o (d[m] \o b[i + (m + 1)])
        BY Zenon, <3>7, Associative
      <3>9. QED
        BY Zenon, <3>4, <3>5, <3>6, <3>8
    <2>4. Nat \subseteq T
      <3> HIDE DEF T
      <3>1. QED
        BY Zenon, <2>2, <2>3, AllNat
    <2>5. ASSUME NEW k \in 0..M PROVE c[i + k] = c[i] \o d[k]
      <3>1. k \in Nat /\ k <= M
        BY SMT, <1>3
      <3>2. QED
        BY Zenon, <3>1, <2>4
    <2>6. QED
      BY Zenon, <2>5
  <1>9. M \in 0..M /\ d \in [0..M -> Seq(Byte)]
    BY SMT, <1>3, <1>7 DEF Runs
  <1>10. QED
    BY Zenon, <1>1, <1>3, <1>7, <1>8, <1>9

\* A client's stream is the bytes of its first packages, then those of the next
\* one, then the rest.
LEMMA Streams ==
    ASSUME NEW s \in Scripts, NEW k \in 0..Len(s)
    PROVE  /\ Concat(s) \in Seq(Byte)
           /\ Concat(SubSeq(s, 1, k)) \in Seq(Byte)
           /\ Concat(SubSeq(s, k + 1, Len(s))) \in Seq(Byte)
           /\ Concat(SubSeq(s, 1, k)) \o Concat(SubSeq(s, k + 1, Len(s))) = Concat(s)
           /\ k = 0 => Concat(SubSeq(s, 1, k)) = <<>>
           /\ k = Len(s) => Concat(SubSeq(s, k + 1, Len(s))) = <<>>
           /\ k < Len(s) =>
                /\ Concat(SubSeq(s, 1, k + 1)) = Concat(SubSeq(s, 1, k)) \o s[k + 1].bytes
                /\ \E rest \in Seq(Byte) :
                     Concat(SubSeq(s, k + 1, Len(s))) = s[k + 1].bytes \o rest
  <1>1. PICK n : n = Len(s)
    OBVIOUS
  <1>2. n \in Nat /\ \A i \in 1..n : s[i].bytes \in Seq(Byte)
    BY Zenon, <1>1, ScriptTyped
  <1>a. PICK c : Runs(n, [i \in 1..n |-> s[i].bytes], c) /\ Concat(s) = c[n]
    BY Zenon, <1>1, <1>2, ConcatBuilt
  <1>3. /\ c \in [0..n -> Seq(Byte)] /\ c[0] = <<>>
        /\ \A i \in 1..n : c[i] = c[i - 1] \o s[i].bytes
        /\ Concat(s) = c[n]
    BY Zenon, <1>a DEF Runs
  <1>4. k \in 0..n /\ 0 \in 0..n /\ n \in 0..n /\ k <= n /\ 0 <= k /\ 0 + 1 = 1
    BY SMT, <1>1, <1>2
  <1>5. ASSUME NEW j \in 0..n
        PROVE  Concat(SubSeq(s, 1, j)) = c[j] /\ c[j] \in Seq(Byte)
    <2>1. 0 <= j
      BY SMT, <1>2
    <2>2. /\ Concat(SubSeq(s, 0 + 1, j)) \in Seq(Byte)
          /\ c[j] = c[0] \o Concat(SubSeq(s, 0 + 1, j))
      BY Zenon, <2>1, <1>1, <1>3, <1>4, <1>a, ConcatPart
    <2>3. PICK x : x = Concat(SubSeq(s, 1, j))
      OBVIOUS
    <2>4. x \in Seq(Byte) /\ c[j] = <<>> \o x
      BY Zenon, <2>2, <2>3, <1>3, <1>4
    <2>5. <<>> \o x = x
      BY SMT, <2>4
    <2>6. QED
      BY Zenon, <2>3, <2>4, <2>5
  <1>6. /\ Concat(SubSeq(s, k + 1, n)) \in Seq(Byte)
        /\ c[n] = c[k] \o Concat(SubSeq(s, k + 1, n))
    BY Zenon, <1>1, <1>3, <1>4, <1>a, ConcatPart
  <1>7. PICK x, r : x = c[k] /\ r = Concat(SubSeq(s, k + 1, n))
    OBVIOUS
  <1>8. x \in Seq(Byte) /\ r \in Seq(Byte) /\ c[n] = x \o r /\ c[n] \in Seq(Byte)
    BY Zenon, <1>3, <1>4, <1>6, <1>7
  <1>9. ASSUME k = n PROVE r = <<>>
    <2>1. x = x \o r
      BY Zenon, <1>7, <1>8, <1>9
    <2>2. Len(x) = Len(x) + Len(r)
      BY Zenon, <2>1, <1>8, Joined
    <2>3. Len(x) \in Nat /\ Len(r) \in Nat
      BY SMT, <1>8
    <2>4. Len(r) = 0
      BY SMT, <2>2, <2>3
    <2>5. QED
      BY SMT, <2>4, <1>8
  <1>10. ASSUME k < n
         PROVE  /\ Concat(SubSeq(s, 1, k + 1)) = x \o s[k + 1].bytes
                /\ \E rest \in Seq(Byte) : r = s[k + 1].bytes \o rest
    <2>1. k + 1 \in 0..n /\ k + 1 \in 1..n /\ (k + 1) - 1 = k /\ k + 1 <= n
      BY SMT, <1>2, <1>4, <1>10
    <2>2. PICK y, u : y = s[k + 1].bytes /\ u = Concat(SubSeq(s, (k + 1) + 1, n))
      OBVIOUS
    <2>3. c[k + 1] = x \o y /\ y \in Seq(Byte)
      BY Zenon, <2>1, <2>2, <1>2, <1>3, <1>7
    <2>4. u \in Seq(Byte) /\ c[n] = c[k + 1] \o u
      BY Zenon, <2>1, <2>2, <1>1, <1>3, <1>4, <1>a, ConcatPart
    <2>5. y \o u \in Seq(Byte) /\ c[n] = x \o (y \o u)
      <3>1. y \o u \in Seq(Byte)
        BY Zenon, <2>3, <2>4, Joined
      <3>2. (x \o y) \o u = x \o (y \o u)
        BY Zenon, <1>8, <2>3, <2>4, Associative
      <3>3. QED
        BY Zenon, <3>1, <3>2, <2>3, <2>4
    <2>6. r = y \o u
      <3>1. r = SubSeq(c[n], Len(x) + 1, Len(c[n]))
        BY Zenon, <1>8, SplitMade
      <3>2. y \o u = SubSeq(c[n], Len(x) + 1, Len(c[n]))
        BY Zenon, <1>8, <2>5, SplitMade
      <3>3. QED
        BY Zenon, <3>1, <3>2
    <2>7. QED
      BY Zenon, <2>1, <2>2, <2>3, <2>4, <2>6, <1>5
  <1>11. QED
    BY Zenon, <1>1, <1>3, <1>4, <1>5, <1>6, <1>7, <1>8, <1>9, <1>10

\* It is a string of bytes.
LEMMA StreamTypedOf ==
    ASSUME NEW s \in Scripts
    PROVE  Concat(s) \in Seq(Byte)
  <1>1. Len(s) \in Nat
    BY Zenon, ScriptTyped
  <1>2. Len(s) \in 0..Len(s)
    BY SMT, <1>1
  <1>3. QED
    BY Zenon, <1>2, Streams

-----------------------------------------------------------------------------
(***************************************************************************)
(* Packages                                                                *)
(***************************************************************************)

\* The fields of a message.
LEMMA Fields ==
    ASSUME NEW m \in Message
    PROVE  /\ m.cmd \in Int32 /\ m.seq \in Int32 /\ m.cmd \in Int /\ m.seq \in Int
           /\ m.data \in Seq(Byte) /\ Len(m.data) \in Nat
           /\ m = [cmd |-> m.cmd, seq |-> m.seq, data |-> m.data]
  BY SMT DEF Message, Int32, MaxString

\* Where the fields of a package lie.
LEMMA Layout ==
    ASSUME NEW m, m.cmd \in Int, m.seq \in Int, m.data \in Seq(Byte),
           NEW n, n = Groups(Len(m.data))
    PROVE  /\ WritePackage(m) \in Seq(Byte)
           /\ n \in 1..5 /\ Len(WritePackage(m)) = 14 + n + Len(m.data)
           /\ SubSeq(WritePackage(m), 7, 10) = htonl(m.cmd)
           /\ SubSeq(WritePackage(m), 11, 14) = htonl(m.seq)
           /\ SubSeq(WritePackage(m), 15, 14 + n) = write7BitEncoded(Len(m.data))
           /\ SubSeq(WritePackage(m), 15 + n, 14 + n + Len(m.data)) = m.data
  <1>0. PICK cmd, seq, data : cmd = m.cmd /\ seq = m.seq /\ data = m.data
    OBVIOUS
  <1>a. cmd \in Int /\ seq \in Int /\ data \in Seq(Byte) /\ n = Groups(Len(data))
    BY Zenon, <1>0
  <1>1. PICK c, s, w, l : /\ c = htonl(cmd) /\ s = htonl(seq)
                          /\ w = write7BitEncoded(Len(data)) /\ l = Len(data)
    OBVIOUS
  <1>2. /\ c \in Seq(Byte) /\ Len(c) = 4 /\ s \in Seq(Byte) /\ Len(s) = 4
    BY <1>1, <1>a, HtonlBytes
  <1>3. l \in Nat
    BY <1>1, <1>a
  <1>4. w \in Seq(Byte) /\ Len(w) = n /\ n \in 1..5
    BY <1>1, <1>3, <1>a, Written, GroupsChosen
  <1>5. PICK e, f, g : e = w \o data /\ f = c \o s /\ g = f \o e
    OBVIOUS
  <1>6. e \in Seq(Byte) /\ Len(e) = n + l
    BY SMTT(40), <1>1, <1>4, <1>5, <1>a
  <1>7. f \in Seq(Byte) /\ Len(f) = 8
    <2>1. f \in Seq(Byte) /\ Len(f) = Len(c) + Len(s)
      BY <1>2, <1>5, Joined
    <2>2. QED
      BY SMT, <2>1, <1>2
  <1>8. g \in Seq(Byte) /\ Len(g) = 8 + n + l
    <2>1. g \in Seq(Byte) /\ Len(g) = Len(f) + Len(e)
      BY <1>5, <1>6, <1>7, Joined
    <2>2. QED
      BY SMT, <2>1, <1>3, <1>4, <1>6, <1>7
  <1>9. PICK p : p = htonl(Reserved + Len(g)) \o <<0, 0>>
    OBVIOUS
  <1>10. p \in Seq(Byte) /\ Len(p) = 6
    <2>1. Reserved + Len(g) \in Int
      BY SMT, <1>3, <1>4, <1>8 DEF Reserved
    <2>2. PICK z : z = <<0, 0>>
      OBVIOUS
    <2>3. z \in Seq(Byte) /\ Len(z) = 2
      BY SMT, <2>2 DEF Byte
    <2>4. PICK h : h = htonl(Reserved + Len(g))
      OBVIOUS
    <2>5. h \in Seq(Byte) /\ Len(h) = 4
      BY <2>1, <2>4, HtonlBytes
    <2>6. p = h \o z
      BY <1>9, <2>2, <2>4
    <2>7. p \in Seq(Byte) /\ Len(p) = Len(h) + Len(z)
      BY <2>3, <2>5, <2>6, Joined
    <2>8. QED
      BY SMT, <2>3, <2>5, <2>7
  <1>11. PICK b : b = p \o g
    OBVIOUS
  <1>12. b = WritePackage(m)
    <2>1. m.cmd = cmd /\ m.seq = seq /\ m.data = data
      BY Zenon, <1>0
    <2>2. WriteCString(data) = e
      BY <1>1, <1>5 DEF WriteCString
    <2>3. QED
      BY Zenon, <1>1, <1>5, <1>9, <1>11, <2>1, <2>2 DEF WritePackage
  <1>13. b \in Seq(Byte) /\ Len(b) = 14 + n + l
    <2>1. b \in Seq(Byte) /\ Len(b) = Len(p) + Len(g)
      BY <1>8, <1>10, <1>11, Joined
    <2>2. QED
      BY SMT, <2>1, <1>3, <1>4, <1>8, <1>10
  <1>14. PICK p1, p2, p3, r2 : p1 = p \o c /\ p2 = p1 \o s /\ p3 = p2 \o w /\ r2 = s \o e
    OBVIOUS
  <1>15. /\ p1 \in Seq(Byte) /\ Len(p1) = 10 /\ r2 \in Seq(Byte)
    <2>1. p1 \in Seq(Byte) /\ Len(p1) = Len(p) + Len(c) /\ r2 \in Seq(Byte)
      BY <1>2, <1>6, <1>10, <1>14, Joined
    <2>2. QED
      BY SMT, <2>1, <1>2, <1>10
  <1>16. p2 \in Seq(Byte) /\ Len(p2) = 14
    <2>0. p2 = p1 \o s
      BY Zenon, <1>14
    <2>1. p2 \in Seq(Byte) /\ Len(p2) = Len(p1) + Len(s)
      BY <2>0, <1>2, <1>15, Joined
    <2>2. QED
      BY SMT, <2>1, <1>2, <1>15
  <1>17. p3 \in Seq(Byte) /\ Len(p3) = 14 + n
    <2>1. p3 \in Seq(Byte) /\ Len(p3) = Len(p2) + Len(w)
      BY <1>4, <1>14, <1>16, Joined
    <2>2. QED
      BY SMT, <2>1, <1>4, <1>16
  <1>t. p1 \in Seq(Byte) /\ s \in Seq(Byte) /\ e \in Seq(Byte)
    BY Zenon, <1>2, <1>6, <1>15
  <1>18. b = p \o (c \o r2)
    <2>1. g = c \o r2
      BY <1>2, <1>5, <1>6, <1>14, Associative
    <2>2. QED
      BY <2>1, <1>11
  <1>19. b = p1 \o (s \o e)
    BY ZenonT(40), <1>2, <1>10, <1>14, <1>15, <1>18, Associative
  <1>20. b = p2 \o (w \o data)
    <2>1. b = p2 \o e
      <3>1. (p1 \o s) \o e = p1 \o (s \o e)
        BY <1>t, Associative
      <3>2. QED
        BY Zenon, <3>1, <1>14, <1>19
    <2>2. QED
      BY <2>1, <1>5
  <1>21. b = p3 \o data
    BY <1>4, <1>14, <1>16, <1>20, <1>a, Associative
  <1>22. SubSeq(b, 7, 10) = c
    <2>1. 7 = Len(p) + 1 /\ 10 = Len(p) + Len(c)
      BY SMT, <1>2, <1>10
    <2>2. SubSeq(p \o (c \o r2), Len(p) + 1, Len(p) + Len(c)) = c
      BY <1>2, <1>10, <1>15, Middle
    <2>3. QED
      BY <2>1, <2>2, <1>18
  <1>23. SubSeq(b, 11, 14) = s
    <2>1. 11 = Len(p1) + 1 /\ 14 = Len(p1) + Len(s)
      BY SMT, <1>2, <1>15
    <2>2. SubSeq(p1 \o (s \o e), Len(p1) + 1, Len(p1) + Len(s)) = s
      BY <1>t, Middle
    <2>3. QED
      BY <2>1, <2>2, <1>19
  <1>24. SubSeq(b, 15, 14 + n) = w
    <2>1. 15 = Len(p2) + 1 /\ 14 + n = Len(p2) + Len(w)
      BY SMT, <1>4, <1>16
    <2>2. SubSeq(p2 \o (w \o data), Len(p2) + 1, Len(p2) + Len(w)) = w
      BY <1>4, <1>16, <1>a, Middle
    <2>3. QED
      BY <2>1, <2>2, <1>20
  <1>25. SubSeq(b, 15 + n, 14 + n + l) = data
    <2>1. SubSeq(b, Len(p3) + 1, Len(b)) = data
      BY <1>17, <1>21, <1>a, JoinCut
    <2>2. Len(p3) + 1 = 15 + n
      BY SMT, <1>4, <1>17
    <2>3. QED
      BY <2>1, <2>2, <1>13
  <1>26. QED
    BY Zenon, <1>0, <1>1, <1>4, <1>12, <1>13, <1>22, <1>23, <1>24, <1>25

\* Of two lengths of a length, the smaller one.
LEMMA Below ==
    ASSUME NEW n \in 1..5, NEW k \in 1..5, k > n
    PROVE  n \in 1..(k - 1) /\ n \in 1..n
  BY SMT

\* A byte with the high bit.
LEMMA HighBit == \A x \in Byte : x >= 128 <=> ~(x < 128)
  BY SMT DEF Byte

\* ReadLengthWithoutOffset finds the end of the length.
LEMMA HeadFound ==
    ASSUME NEW b \in Seq(Byte), NEW v \in Nat, NEW n, n = Groups(v), NEW cur \in Nat,
           cur + n <= Len(b), SubSeq(b, cur + 1, cur + n) = write7BitEncoded(v)
    PROVE  HeadLen(b, cur) = n /\ ~Overruns(b, cur)
  <1>1. n \in 1..5
    BY GroupsChosen
  <1>2. ASSUME NEW i \in 1..n
        PROVE  /\ At(b, cur + i) \in Byte
               /\ At(b, cur + i) < 128 <=> i = n
    <2>1. PICK w : w = write7BitEncoded(v)
      OBVIOUS
    <2>2. w \in Seq(Byte) /\ Len(w) = n /\ (w[i] < 128 <=> i = n)
      BY <2>1, Written
    <2>3. w[i] = b[cur + i]
      BY SMT, <1>1, <2>1, <2>2
    <2>4. At(b, cur + i) = b[cur + i]
      BY SMT, <1>1 DEF At
    <2>5. w[i] \in Byte
      BY SMT, <2>2
    <2>6. QED
      BY <2>2, <2>3, <2>4, <2>5
  <1> DEFINE H(k) == /\ k = 5 \/ At(b, cur + k) < 128
                     /\ \A j \in 1..(k - 1) : At(b, cur + j) >= 128
  <1>3. H(n)
    <2>1. At(b, cur + n) < 128
      BY SMT, <1>1, <1>2
    <2>2. ASSUME NEW j \in 1..(n - 1) PROVE At(b, cur + j) >= 128
      <3>1. j \in 1..n /\ j # n
        BY SMT, <1>1
      <3>2. At(b, cur + j) \in Byte /\ ~(At(b, cur + j) < 128)
        BY <3>1, <1>2
      <3>3. QED
        BY Zenon, <3>2, HighBit
    <2>3. QED
      BY <2>1, <2>2
  <1> HIDE DEF H
  <1>4. ASSUME NEW k \in 1..5, H(k) PROVE k = n
    <2>1. CASE k < n
      <3>1. k \in 1..n /\ k # n /\ k # 5
        BY SMT, <2>1, <1>1
      <3>2. QED
        BY <3>1, <1>2, <1>4 DEF H
    <2>2. CASE k > n
      <3>1. n \in 1..(k - 1) /\ n \in 1..n
        BY Zenon, <2>2, <1>1, Below
      <3>2. At(b, cur + n) >= 128 /\ At(b, cur + n) < 128 /\ At(b, cur + n) \in Byte
        BY <3>1, <1>2, <1>4 DEF H
      <3>3. QED
        BY Zenon, <3>2, HighBit
    <2>3. QED
      BY SMT, <2>1, <2>2, <1>1
  <1>5. HeadLen(b, cur) = CHOOSE k \in 1..5 : H(k)
    BY Zenon DEF HeadLen, H
  <1>6. ~Overruns(b, cur)
    <2>1. n \in 1..n
      BY SMT, <1>1
    <2>2. At(b, cur + n) < 128 /\ At(b, cur + n) \in Byte
      BY <2>1, <1>2
    <2>3. QED
      BY Zenon, <2>2, <1>1, HighBit DEF Overruns
  <1>7. QED
    BY Zenon, <1>1, <1>3, <1>4, <1>5, <1>6

\* Whatever message TcpSession::send packs, for every command, sequence number
\* and string, ChatSession::process reads that message out of the package.
THEOREM PackageInverse ==
    ASSUME NEW m \in Message
    PROVE  /\ WritePackage(m) \in Seq(Byte) /\ Len(WritePackage(m)) \in Int32
           /\ ReadPackage(WritePackage(m)) = [ok |-> TRUE, msg |-> m]
  <1>1. PICK b, n, l : b = WritePackage(m) /\ n = Groups(Len(m.data)) /\ l = Len(m.data)
    OBVIOUS
  <1>2. /\ m.cmd \in Int32 /\ m.seq \in Int32 /\ m.cmd \in Int /\ m.seq \in Int
        /\ m.data \in Seq(Byte) /\ l \in Nat
        /\ m = [cmd |-> m.cmd, seq |-> m.seq, data |-> m.data]
    BY Zenon, <1>1, Fields
  <1>3. /\ b \in Seq(Byte) /\ n \in 1..5 /\ Len(b) = 14 + n + l
        /\ SubSeq(b, 7, 10) = htonl(m.cmd) /\ SubSeq(b, 11, 14) = htonl(m.seq)
        /\ SubSeq(b, 15, 14 + n) = write7BitEncoded(l)
        /\ SubSeq(b, 15 + n, 14 + n + l) = m.data
    BY Zenon, <1>1, <1>2, Layout
  <1>a. n \in 1..5 /\ Len(b) = 14 + n + l
    BY Zenon, <1>3
  <1>b. l \in Nat
    BY Zenon, <1>2
  <1>4. Len(b) \in Int32 /\ read7BitEncoded(write7BitEncoded(l)) = l
    <2>1. l <= 2147483628
      BY SMT, <1>1 DEF Message, MaxString
    <2>2. l < 4294967296
      BY SMT, <2>1, <1>b
    <2>3. read7BitEncoded(write7BitEncoded(l)) = l
      BY SMT, <2>2, <1>2, LengthInverse
    <2>4. Len(b) \in Int32
      BY SMT, <2>1, <1>a, <1>b DEF Int32
    <2>5. QED
      BY <2>3, <2>4
  <1>5. /\ Enough(b, Reserved, 8) /\ Enough(b, 14, n) /\ Enough(b, 14 + n, l)
        /\ Reserved + 8 = 14 /\ Reserved + 1 = 7 /\ Reserved + 4 = 10 /\ Reserved + 5 = 11
        /\ 14 + 1 = 15 /\ (14 + n) + 1 = 15 + n /\ (14 + n) + l = 14 + n + l
    BY SMT, <1>a, <1>b DEF Enough, Reserved
  <1>6. HeadLen(b, 14) = n /\ ~Overruns(b, 14)
    <2>1. 14 \in Nat /\ 14 + n <= Len(b)
      BY SMT, <1>a, <1>b
    <2>2. n = Groups(l)
      BY Zenon, <1>1
    <2>3. QED
      BY <2>1, <2>2, <1>2, <1>3, <1>5, HeadFound
  <1>7. read7BitEncoded(SubSeq(b, 15, 14 + n)) = l
    BY Zenon, <1>3, <1>4
  <1>8. ReadString(b, 14) = [ok |-> TRUE, data |-> m.data]
    BY <1>3, <1>5, <1>6, <1>7 DEF ReadString
  <1>9. ntohl(SubSeq(b, 7, 10)) = m.cmd /\ ntohl(SubSeq(b, 11, 14)) = m.seq
    BY <1>2, <1>3, HtonlInverse
  <1>10. ReadPackage(b) = [ok |-> TRUE, msg |-> [cmd |-> m.cmd, seq |-> m.seq, data |-> m.data]]
    <2>1. PICK r : r = ReadString(b, Reserved + 8)
      OBVIOUS
    <2>2. r.ok = TRUE /\ r.data = m.data
      BY <2>1, <1>5, <1>8
    <2>3. ReadPackage(b) = [ok |-> TRUE,
                            msg |-> [cmd |-> ntohl(SubSeq(b, Reserved + 1, Reserved + 4)),
                                     seq |-> ntohl(SubSeq(b, Reserved + 5, Reserved + 8)),
                                     data |-> r.data]]
      BY Zenon, <2>1, <2>2, <1>5 DEF ReadPackage, Parsed
    <2>4. QED
      BY Zenon, <2>2, <2>3, <1>5, <1>9
  <1>11. QED
    BY Zenon, <1>1, <1>2, <1>3, <1>4, <1>10

\* The package of m starts s, its header says size, and rest follows.
Framed(m, rest, s, size) ==
  /\ Frame(m) \in Seq(Byte)
  /\ size \in Nat /\ size + HeaderSize <= Len(s)
  /\ ReadPackage(SubSeq(s, HeaderSize + 1, HeaderSize + size)) = [ok |-> TRUE, msg |-> m]
  /\ SubSeq(s, HeaderSize + size + 1, Len(s)) = rest

\* Cutting a frame at the length in its header.
LEMMA FrameCut ==
    ASSUME NEW m \in Message, NEW rest \in Seq(Byte),
           NEW s, s = Frame(m) \o rest, NEW size, size = FromHostOrder(s)
    PROVE  Framed(m, rest, s, size)
  <1>1. PICK b : b = WritePackage(m)
    OBVIOUS
  <1>2. b \in Seq(Byte) /\ Len(b) \in Int32 /\ ReadPackage(b) = [ok |-> TRUE, msg |-> m]
    BY Zenon, <1>1, PackageInverse
  <1>3. PICK h : h = HostOrder(Len(b))
    OBVIOUS
  <1>4. Len(b) \in Nat /\ Len(b) \in Int
    BY <1>2
  <1>5. h \in Seq(Byte) /\ Len(h) = 4 /\ FromHostOrder(h) = Len(b)
    BY Zenon, <1>2, <1>3, <1>4, HtonlBytes, HtonlInverse
  <1>6. PICK f, t : f = h \o b /\ t = b \o rest
    OBVIOUS
  <1>7. Frame(m) = f
    BY Zenon, <1>1, <1>3, <1>6 DEF Frame
  <1>8. f \in Seq(Byte) /\ Len(f) = Len(h) + Len(b) /\ t \in Seq(Byte)
    BY <1>2, <1>5, <1>6, Joined
  <1>9. s = f \o rest
    BY Zenon, <1>7
  <1>10. s = h \o (b \o rest)
    BY <1>2, <1>5, <1>6, <1>9, Associative
  <1>11. s = h \o t
    BY Zenon, <1>6, <1>10
  <1>12. s \in Seq(Byte) /\ Len(s) = Len(f) + Len(rest)
    BY ZenonT(40), <1>8, <1>9, Joined
  <1>13. size = Len(b)
    <2>a. \A i \in 1..Len(h) : (h \o t)[i] = h[i]
      BY <1>5, <1>8, Joined
    <2>1. \A i \in 1..Len(h) : s[i] = h[i]
      BY Zenon, <2>a, <1>11
    <2>b. 1 \in 1..4 /\ 2 \in 1..4 /\ 3 \in 1..4 /\ 4 \in 1..4
      BY SMT
    <2>2. s[1] = h[1] /\ s[2] = h[2] /\ s[3] = h[3] /\ s[4] = h[4]
      BY Zenon, <2>1, <2>b, <1>5
    <2>3. FromHostOrder(s) = FromHostOrder(h)
      BY Zenon, <2>2 DEF FromHostOrder
    <2>4. QED
      BY Zenon, <2>3, <1>5
  <1>14. /\ HeaderSize + 1 = Len(h) + 1 /\ HeaderSize + size = Len(h) + Len(b)
         /\ HeaderSize + size = Len(f) /\ size + HeaderSize <= Len(s)
    <2>1. Len(rest) \in Nat
      OBVIOUS
    <2>2. PICK i, j, k, l, n : /\ i = Len(h) /\ j = Len(b) /\ k = Len(f) /\ l = Len(s)
                               /\ n = Len(rest)
      OBVIOUS
    <2>3. i = 4 /\ j \in Nat /\ k = i + j /\ l = k + n /\ n \in Nat
      BY Zenon, <2>1, <2>2, <1>4, <1>5, <1>8, <1>12
    <2>4. HeaderSize + 1 = i + 1 /\ HeaderSize + j = i + j /\ HeaderSize + j = k
          /\ j + HeaderSize <= l
      BY SMT, <2>3 DEF HeaderSize
    <2>5. QED
      BY Zenon, <2>2, <2>4, <1>13
  <1>15. SubSeq(s, HeaderSize + 1, HeaderSize + size) = b
    <2>1. SubSeq(h \o (b \o rest), Len(h) + 1, Len(h) + Len(b)) = b
      BY <1>2, <1>5, Middle
    <2>2. QED
      BY Zenon, <2>1, <1>10, <1>14
  <1>16. SubSeq(s, HeaderSize + size + 1, Len(s)) = rest
    <2>1. SubSeq(f \o rest, Len(f) + 1, Len(f \o rest)) = rest
      BY <1>8, JoinCut
    <2>2. QED
      BY Zenon, <2>1, <1>9, <1>14
  <1>17. QED
    BY Zenon, <1>2, <1>4, <1>7, <1>8, <1>13, <1>14, <1>15, <1>16 DEF Framed

\* Wherever a frame lies in the stream of bytes, onRead finds in its header the
\* length of the package behind it, cuts out exactly that package, reads the
\* message that was sent, and leaves exactly what follows.
THEOREM FrameInverse ==
    ASSUME NEW m \in Message, NEW rest \in Seq(Byte),
           NEW s, s = Frame(m) \o rest, NEW size, size = FromHostOrder(s)
    PROVE  /\ Frame(m) \in Seq(Byte)
           /\ size \in Nat /\ size + HeaderSize <= Len(s)
           /\ ReadPackage(SubSeq(s, HeaderSize + 1, HeaderSize + size)) = [ok |-> TRUE, msg |-> m]
           /\ SubSeq(s, HeaderSize + size + 1, Len(s)) = rest
  <1>1. Framed(m, rest, s, size)
    BY Zenon, FrameCut
  <1>2. QED
    BY Zenon, <1>1 DEF Framed

-----------------------------------------------------------------------------
(***************************************************************************)
(* ByteBuffer                                                              *)
(***************************************************************************)
Buffers == {b \in [m_buffer : Seq(Byte), m_readerIndex : Nat, m_writerIndex : Nat] : IsBuffer(b)}

\* The parts of a buffer.
LEMMA BufferParts ==
    ASSUME NEW b \in Buffers
    PROVE  /\ b.m_buffer \in Seq(Byte) /\ Len(b.m_buffer) \in Nat
           /\ b.m_readerIndex \in Nat /\ b.m_writerIndex \in Nat
           /\ kCheapPrepend \in Nat /\ kCheapPrepend <= b.m_readerIndex
           /\ b.m_readerIndex <= b.m_writerIndex /\ b.m_writerIndex <= Len(b.m_buffer)
           /\ b = [m_buffer |-> b.m_buffer, m_readerIndex |-> b.m_readerIndex,
                   m_writerIndex |-> b.m_writerIndex]
  BY SizesAssumption DEF Buffers, IsBuffer

\* A buffer from its parts.
LEMMA BufferMade ==
    ASSUME NEW buf \in Seq(Byte), NEW r \in Nat, NEW w \in Nat,
           kCheapPrepend <= r, r <= w, w <= Len(buf)
    PROVE  [m_buffer |-> buf, m_readerIndex |-> r, m_writerIndex |-> w] \in Buffers
  BY DEF Buffers, IsBuffer

\* The readable bytes.
LEMMA ContentsOf ==
    ASSUME NEW buf \in Seq(Byte), NEW r \in Nat, NEW w \in Nat, r <= w, w <= Len(buf), NEW b,
           b = [m_buffer |-> buf, m_readerIndex |-> r, m_writerIndex |-> w]
    PROVE  /\ Contents(b) \in Seq(Byte) /\ Len(Contents(b)) = w - r
           /\ readableBytes(b) = w - r
           /\ \A i \in 1..(w - r) : Contents(b)[i] = buf[r + i]
  <1>1. b.m_buffer = buf /\ b.m_readerIndex = r /\ b.m_writerIndex = w
    OBVIOUS
  <1>2. Contents(b) = SubSeq(buf, r + 1, w) /\ readableBytes(b) = w - r
    BY Zenon, <1>1 DEF Contents, readableBytes
  <1>3. /\ SubSeq(buf, r + 1, w) \in Seq(Byte) /\ Len(SubSeq(buf, r + 1, w)) = w - r
        /\ \A i \in 1..(w - r) : SubSeq(buf, r + 1, w)[i] = buf[r + i]
    BY Piece
  <1>4. QED
    BY Zenon, <1>2, <1>3

\* The readable bytes of any buffer.
LEMMA BufferContents ==
    ASSUME NEW b \in Buffers
    PROVE  /\ Contents(b) \in Seq(Byte) /\ Len(Contents(b)) = readableBytes(b)
           /\ readableBytes(b) \in Nat
  <1>1. PICK buf, r, w : buf = b.m_buffer /\ r = b.m_readerIndex /\ w = b.m_writerIndex
    OBVIOUS
  <1>2. /\ buf \in Seq(Byte) /\ r \in Nat /\ w \in Nat /\ r <= w /\ w <= Len(buf)
        /\ b = [m_buffer |-> buf, m_readerIndex |-> r, m_writerIndex |-> w]
    BY Zenon, <1>1, BufferParts
  <1>3. /\ Contents(b) \in Seq(Byte) /\ Len(Contents(b)) = w - r
        /\ readableBytes(b) = w - r
    BY <1>2, ContentsOf
  <1>4. w - r \in Nat
    BY SMT, <1>2
  <1>5. QED
    BY Zenon, <1>3, <1>4

\* What std::copy leaves.
LEMMA Copied ==
    ASSUME NEW buf \in Seq(Byte), NEW at \in Nat, NEW data \in Seq(Byte),
           at + Len(data) <= Len(buf)
    PROVE  /\ CopyTo(buf, at, data) \in Seq(Byte)
           /\ Len(CopyTo(buf, at, data)) = Len(buf)
           /\ \A i \in 1..Len(data) : CopyTo(buf, at, data)[at + i] = data[i]
           /\ \A i \in 1..at : CopyTo(buf, at, data)[i] = buf[i]
  <1>1. PICK n, l : n = Len(buf) /\ l = Len(data)
    OBVIOUS
  <1>2. n \in Nat /\ l \in Nat /\ at + l <= n
    BY <1>1
  <1> DEFINE c(i) == IF at < i /\ i <= at + l THEN data[i - at] ELSE buf[i]
  <1>3. CopyTo(buf, at, data) = [i \in 1..n |-> c(i)]
    BY Zenon, <1>1 DEF CopyTo
  <1>4. ASSUME NEW i \in 1..n PROVE c(i) \in Byte
    <2>1. CASE at < i /\ i <= at + l
      <3>1. i - at \in 1..l
        BY SMT, <2>1, <1>2
      <3>2. data[i - at] \in Byte
        BY <3>1, <1>1
      <3>3. QED
        BY <2>1, <3>2
    <2>2. CASE ~(at < i /\ i <= at + l)
      <3>1. buf[i] \in Byte
        BY <1>1
      <3>2. QED
        BY <2>2, <3>1
    <2>3. QED
      BY <2>1, <2>2
  <1>5. \A i \in 1..l : at + i \in 1..n /\ c(at + i) = data[i]
    BY SMT, <1>2
  <1>6. \A i \in 1..at : i \in 1..n /\ c(i) = buf[i]
    BY SMT, <1>2
  <1> HIDE DEF c
  <1>7. /\ CopyTo(buf, at, data) \in [1..n -> Byte]
        /\ \A i \in 1..n : CopyTo(buf, at, data)[i] = c(i)
    BY <1>3, <1>4
  <1>8. CopyTo(buf, at, data) \in Seq(Byte) /\ Len(CopyTo(buf, at, data)) = n
    BY SMT, <1>2, <1>7
  <1>9. QED
    BY Zenon, <1>1, <1>5, <1>6, <1>7, <1>8

\* Zeros.
LEMMA ZerosTyped ==
    ASSUME NEW n \in Nat
    PROVE  Zeros(n) \in Seq(Byte) /\ Len(Zeros(n)) = n
  <1>1. 0 \in Byte
    BY SMT DEF Byte
  <1>2. Zeros(n) \in [1..n -> Byte]
    BY <1>1 DEF Zeros
  <1>3. QED
    BY SMT, <1>2

\* A new buffer is empty.
LEMMA NewEmpty == NewBuffer \in Buffers /\ Contents(NewBuffer) = <<>>
  <1>1. PICK z : z = Zeros(kCheapPrepend + kInitialSize)
    OBVIOUS
  <1>2. kCheapPrepend \in Nat /\ kCheapPrepend + kInitialSize \in Nat
    BY SizesAssumption
  <1>3. z \in Seq(Byte) /\ Len(z) = kCheapPrepend + kInitialSize
    BY Zenon, <1>1, <1>2, ZerosTyped
  <1>4. NewBuffer = [m_buffer |-> z, m_readerIndex |-> kCheapPrepend,
                     m_writerIndex |-> kCheapPrepend]
    BY Zenon, <1>1 DEF NewBuffer
  <1>5. kCheapPrepend <= kCheapPrepend /\ kCheapPrepend <= Len(z)
    BY SMT, <1>3, SizesAssumption
  <1>6. NewBuffer \in Buffers
    BY <1>2, <1>3, <1>4, <1>5, BufferMade
  <1>7. /\ Contents(NewBuffer) \in Seq(Byte)
        /\ Len(Contents(NewBuffer)) = kCheapPrepend - kCheapPrepend
    BY <1>2, <1>3, <1>4, <1>5, ContentsOf
  <1>8. QED
    BY SMT, <1>2, <1>6, <1>7

\* retrieve takes bytes off the front and loses none of the others.
LEMMA Retrieved ==
    ASSUME NEW b \in Buffers, NEW len \in 0..Len(Contents(b))
    PROVE  /\ retrieve(b, len) \in Buffers
           /\ Contents(retrieve(b, len)) = SubSeq(Contents(b), len + 1, Len(Contents(b)))
  <1>1. PICK buf, r, w, c : /\ buf = b.m_buffer /\ r = b.m_readerIndex /\ w = b.m_writerIndex
                            /\ c = Contents(b)
    OBVIOUS
  <1>2. /\ buf \in Seq(Byte) /\ Len(buf) \in Nat /\ r \in Nat /\ w \in Nat
        /\ kCheapPrepend \in Nat /\ kCheapPrepend <= r /\ r <= w /\ w <= Len(buf)
        /\ b = [m_buffer |-> buf, m_readerIndex |-> r, m_writerIndex |-> w]
    BY Zenon, <1>1, BufferParts
  <1>3. /\ c \in Seq(Byte) /\ Len(c) = w - r /\ readableBytes(b) = w - r
        /\ \A i \in 1..(w - r) : c[i] = buf[r + i]
    BY SMTT(40), <1>1, <1>2, ContentsOf
  <1>a. len \in 0..Len(c)
    BY Zenon, <1>1
  <1>b. len \in 0..(w - r)
    BY Zenon, <1>a, <1>3
  <1>4. len \in Nat /\ len <= w - r
    BY SMT, <1>2, <1>b
  <1>5. PICK d : d = retrieve(b, len)
    OBVIOUS
  <1>6. PICK t : t = SubSeq(c, len + 1, Len(c))
    OBVIOUS
  <1>7. /\ t \in Seq(Byte) /\ Len(t) = (w - r) - len
        /\ \A i \in 1..((w - r) - len) : t[i] = c[len + i]
    <2>1. len <= Len(c) /\ Len(c) <= Len(c) /\ Len(c) \in Nat
      BY SMT, <1>2, <1>3, <1>4
    <2>2. /\ t \in Seq(Byte) /\ Len(t) = Len(c) - len
          /\ \A i \in 1..(Len(c) - len) : t[i] = c[len + i]
      BY Zenon, <2>1, <1>3, <1>4, <1>6, Piece
    <2>3. QED
      BY Zenon, <2>2, <1>3
  <1>8. CASE len < w - r
    <2>1. d = [m_buffer |-> buf, m_readerIndex |-> r + len, m_writerIndex |-> w]
      BY <1>2, <1>3, <1>4, <1>5, <1>8 DEF retrieve
    <2>2. r + len \in Nat /\ kCheapPrepend <= r + len /\ r + len <= w
      BY SMT, <1>2, <1>4
    <2>3. d \in Buffers
      BY Zenon, <1>2, <2>1, <2>2, BufferMade
    <2>4. PICK u : u = Contents(d)
      OBVIOUS
    <2>5. /\ u \in Seq(Byte) /\ Len(u) = w - (r + len)
          /\ \A i \in 1..(w - (r + len)) : u[i] = buf[(r + len) + i]
      BY <1>2, <2>1, <2>2, <2>4, ContentsOf
    <2>6. Len(u) = Len(t)
      BY SMT, <2>5, <1>2, <1>4, <1>7
    <2>7. ASSUME NEW i \in 1..Len(u) PROVE u[i] = t[i]
      <3>1. /\ i \in 1..(w - (r + len)) /\ i \in 1..((w - r) - len) /\ len + i \in 1..(w - r)
            /\ r + (len + i) = (r + len) + i
        BY SMT, <2>5, <1>2, <1>4
      <3>2. u[i] = buf[(r + len) + i] /\ t[i] = c[len + i] /\ c[len + i] = buf[r + (len + i)]
        BY Zenon, <3>1, <2>5, <1>3, <1>7
      <3>3. QED
        BY Zenon, <3>1, <3>2
    <2>8. u = t
      BY Zenon, <2>5, <2>6, <2>7, <1>7, SameBytes
    <2>9. QED
      BY Zenon, <1>1, <1>5, <1>6, <2>3, <2>4, <2>8
  <1>9. CASE len = w - r
    <2>1. ~(len > readableBytes(b)) /\ ~(len < readableBytes(b))
      BY SMT, <1>2, <1>3, <1>9
    <2>2. d = retrieveAll(b)
      BY Zenon, <2>1, <1>5 DEF retrieve
    <2>3. d = [m_buffer |-> buf, m_readerIndex |-> kCheapPrepend, m_writerIndex |-> kCheapPrepend]
      BY <2>2, <1>2 DEF retrieveAll
    <2>4. kCheapPrepend <= kCheapPrepend /\ kCheapPrepend <= Len(buf)
      BY SMT, <1>2
    <2>5. d \in Buffers
      BY Zenon, <1>2, <2>3, <2>4, BufferMade
    <2>6. PICK u : u = Contents(d)
      OBVIOUS
    <2>7. u \in Seq(Byte) /\ Len(u) = kCheapPrepend - kCheapPrepend
      <3>1. PICK k : k = kCheapPrepend
        OBVIOUS
      <3>2. k \in Nat /\ k <= k /\ k <= Len(buf) /\ buf \in Seq(Byte)
        BY Zenon, <3>1, <1>2, <2>4
      <3>3. d = [m_buffer |-> buf, m_readerIndex |-> k, m_writerIndex |-> k]
        BY Zenon, <3>1, <2>3
      <3>4. Contents(d) \in Seq(Byte) /\ Len(Contents(d)) = k - k
        BY ZenonT(30), <3>2, <3>3, ContentsOf
      <3>5. QED
        BY Zenon, <3>1, <3>4, <2>6
    <2>8. u = <<>>
      BY SMT, <2>7, <1>2
    <2>9. t = <<>>
      BY SMT, <1>2, <1>7, <1>9
    <2>10. QED
      BY Zenon, <1>1, <1>5, <1>6, <2>5, <2>6, <2>8, <2>9
  <1>10. QED
    BY SMT, <1>2, <1>4, <1>8, <1>9

\* The room for more bytes: makeSpace grows the vector or moves the bytes to its
\* front, and either way they are the same and the room is there.
LEMMA Spaced ==
    ASSUME NEW b \in Buffers, NEW len \in Nat
    PROVE  /\ ensureWritableBytes(b, len) \in Buffers
           /\ Contents(ensureWritableBytes(b, len)) = Contents(b)
           /\ len <= writableBytes(ensureWritableBytes(b, len))
  <1>1. PICK buf, r, w, c, n : /\ buf = b.m_buffer /\ r = b.m_readerIndex
                               /\ w = b.m_writerIndex /\ c = Contents(b) /\ n = Len(buf)
    OBVIOUS
  <1>2. /\ buf \in Seq(Byte) /\ n \in Nat /\ r \in Nat /\ w \in Nat
        /\ kCheapPrepend \in Nat /\ kCheapPrepend <= r /\ r <= w /\ w <= n /\ n = Len(buf)
        /\ b = [m_buffer |-> buf, m_readerIndex |-> r, m_writerIndex |-> w]
    BY Zenon, <1>1, BufferParts
  <1>3. /\ c \in Seq(Byte) /\ Len(c) = w - r /\ readableBytes(b) = w - r
        /\ \A i \in 1..(w - r) : c[i] = buf[r + i]
    BY <1>1, <1>2, ContentsOf
  <1>4. writableBytes(b) = n - w
    BY Zenon, <1>1 DEF writableBytes
  <1>5. PICK d : d = ensureWritableBytes(b, len)
    OBVIOUS
  <1>6. CASE ~(writableBytes(b) < len)
    <2>1. d = b
      BY Zenon, <1>5, <1>6 DEF ensureWritableBytes
    <2>2. len <= n - w
      BY SMT, <1>2, <1>4, <1>6
    <2>3. QED
      BY Zenon, <1>4, <1>5, <2>1, <2>2
  <1>7. CASE writableBytes(b) < len /\ TooSmall(b, len)
    <2>1. PICK p, z, buf2 : p = SubSeq(buf, 1, w) /\ z = Zeros(len) /\ buf2 = p \o z
      OBVIOUS
    <2>2. d = [m_buffer |-> buf2, m_readerIndex |-> r, m_writerIndex |-> w]
      BY <1>1, <1>2, <1>5, <1>7, <2>1 DEF ensureWritableBytes, makeSpace
    <2>3. /\ p \in Seq(Byte) /\ Len(p) = w
          /\ \A i \in 1..w : p[i] = buf[i]
      BY SMT, <1>2, <2>1
    <2>4. z \in Seq(Byte) /\ Len(z) = len
      BY Zenon, <2>1, ZerosTyped
    <2>5. /\ buf2 \in Seq(Byte) /\ Len(buf2) = Len(p) + Len(z)
          /\ \A i \in 1..Len(p) : buf2[i] = p[i]
      BY ZenonT(40), <2>1, <2>3, <2>4, Joined
    <2>6. Len(buf2) = w + len /\ w <= Len(buf2) /\ Len(buf2) - w = len
      BY SMT, <1>2, <2>3, <2>4, <2>5
    <2>7. d \in Buffers
      BY <1>2, <2>2, <2>5, <2>6, BufferMade
    <2>8. PICK u : u = Contents(d)
      OBVIOUS
    <2>9. /\ u \in Seq(Byte) /\ Len(u) = w - r
          /\ \A i \in 1..(w - r) : u[i] = buf2[r + i]
      BY SMTT(40), <1>2, <2>2, <2>5, <2>6, <2>8, ContentsOf
    <2>10. ASSUME NEW i \in 1..(w - r) PROVE u[i] = c[i]
      <3>1. r + i \in 1..w
        BY SMT, <1>2
      <3>2. QED
        BY Zenon, <3>1, <2>3, <2>5, <2>9, <1>3
    <2>11. u = c
      BY <2>9, <2>10, <1>3, SameBytes
    <2>12. writableBytes(d) = Len(buf2) - w
      BY <2>2 DEF writableBytes
    <2>13. len <= writableBytes(d)
      BY SMT, <2>6, <2>12
    <2>14. QED
      BY Zenon, <1>1, <1>5, <2>7, <2>8, <2>11, <2>13
  <1>8. CASE writableBytes(b) < len /\ ~TooSmall(b, len)
    <2>1. len + kCheapPrepend <= (n - w) + r
      <3>1. ~((n - w) + r < len + kCheapPrepend)
        BY Zenon, <1>1, <1>4, <1>8 DEF TooSmall
      <3>2. QED
        BY SMT, <3>1, <1>2
    <2>2. ~(kCheapPrepend >= r)
      BY SMT, <2>1, <1>2, <1>4, <1>8
    <2>3. PICK buf2, w2 : buf2 = CopyTo(buf, kCheapPrepend, c) /\ w2 = kCheapPrepend + (w - r)
      OBVIOUS
    <2>4. d = [m_buffer |-> buf2, m_readerIndex |-> kCheapPrepend, m_writerIndex |-> w2]
      BY Zenon, <1>1, <1>3, <1>5, <1>8, <2>2, <2>3 DEF ensureWritableBytes, makeSpace
    <2>5. w2 \in Nat /\ kCheapPrepend <= w2 /\ w2 <= n /\ w2 - kCheapPrepend = w - r
          /\ kCheapPrepend <= kCheapPrepend /\ len <= n - w2
      BY SMT, <1>2, <2>1, <2>3
    <2>6. kCheapPrepend + Len(c) <= Len(buf)
      BY SMT, <1>2, <1>3, <2>3, <2>5
    <2>7. /\ buf2 \in Seq(Byte) /\ Len(buf2) = n
          /\ \A i \in 1..Len(c) : buf2[kCheapPrepend + i] = c[i]
      <3>1. buf \in Seq(Byte) /\ kCheapPrepend \in Nat /\ c \in Seq(Byte)
        BY Zenon, <1>2, <1>3
      <3>2. /\ CopyTo(buf, kCheapPrepend, c) \in Seq(Byte)
            /\ Len(CopyTo(buf, kCheapPrepend, c)) = Len(buf)
            /\ \A i \in 1..Len(c) : CopyTo(buf, kCheapPrepend, c)[kCheapPrepend + i] = c[i]
        BY <3>1, <2>6, Copied
      <3>3. QED
        BY Zenon, <3>2, <2>3, <1>2
    <2>8. d \in Buffers
      BY <1>2, <2>4, <2>5, <2>7, BufferMade
    <2>9. PICK u : u = Contents(d)
      OBVIOUS
    <2>10. /\ u \in Seq(Byte) /\ Len(u) = w2 - kCheapPrepend
           /\ \A i \in 1..(w2 - kCheapPrepend) : u[i] = buf2[kCheapPrepend + i]
      BY <1>2, <2>4, <2>5, <2>7, <2>9, ContentsOf
    <2>11. Len(u) = Len(c) /\ \A i \in 1..Len(u) : u[i] = c[i]
      BY Zenon, <2>5, <2>7, <2>10, <1>3
    <2>12. u = c
      BY <2>10, <2>11, <1>3, SameBytes
    <2>13. writableBytes(d) = n - w2
      BY <2>4, <2>7 DEF writableBytes
    <2>14. QED
      BY Zenon, <1>1, <1>5, <2>5, <2>8, <2>9, <2>12, <2>13
  <1>9. QED
    BY Zenon, <1>6, <1>7, <1>8

\* Bytes put behind the readable ones, where there is room for them.
LEMMA Filled ==
    ASSUME NEW b \in Buffers, NEW data \in Seq(Byte), Len(data) <= writableBytes(b), NEW d,
           d = [b EXCEPT !.m_buffer = CopyTo(@, b.m_writerIndex, data),
                         !.m_writerIndex = @ + Len(data)]
    PROVE  d \in Buffers /\ Contents(d) = Contents(b) \o data
  <1>1. PICK buf, r, w, c, n, l : /\ buf = b.m_buffer /\ r = b.m_readerIndex
                                  /\ w = b.m_writerIndex /\ c = Contents(b) /\ n = Len(buf)
                                  /\ l = Len(data)
    OBVIOUS
  <1>2. /\ buf \in Seq(Byte) /\ n \in Nat /\ r \in Nat /\ w \in Nat
        /\ kCheapPrepend \in Nat /\ kCheapPrepend <= r /\ r <= w /\ w <= n /\ n = Len(buf)
        /\ b = [m_buffer |-> buf, m_readerIndex |-> r, m_writerIndex |-> w]
    BY Zenon, <1>1, BufferParts
  <1>3. /\ c \in Seq(Byte) /\ Len(c) = w - r
        /\ \A i \in 1..(w - r) : c[i] = buf[r + i]
    BY SMTT(40), <1>1, <1>2, ContentsOf
  <1>4. l \in Nat /\ w + l <= n
    <2>1. l \in Nat /\ l <= n - w
      BY <1>1 DEF writableBytes
    <2>2. QED
      BY SMT, <2>1, <1>2
  <1>5. PICK buf2, w2 : buf2 = CopyTo(buf, w, data) /\ w2 = w + l
    OBVIOUS
  <1>6. d = [m_buffer |-> buf2, m_readerIndex |-> r, m_writerIndex |-> w2]
    BY <1>1, <1>2, <1>5
  <1>7. /\ buf2 \in Seq(Byte) /\ Len(buf2) = n
        /\ \A i \in 1..l : buf2[w + i] = data[i]
        /\ \A i \in 1..w : buf2[i] = buf[i]
    <2>1. buf \in Seq(Byte) /\ w \in Nat /\ w + Len(data) <= Len(buf)
      BY Zenon, <1>1, <1>2, <1>4
    <2>2. /\ CopyTo(buf, w, data) \in Seq(Byte)
          /\ Len(CopyTo(buf, w, data)) = Len(buf)
          /\ \A i \in 1..Len(data) : CopyTo(buf, w, data)[w + i] = data[i]
          /\ \A i \in 1..w : CopyTo(buf, w, data)[i] = buf[i]
      BY <2>1, Copied
    <2>3. QED
      BY Zenon, <2>2, <1>1, <1>5
  <1>8. w2 \in Nat /\ r <= w2 /\ w2 <= n /\ w2 - r = (w - r) + l
    BY SMT, <1>2, <1>4, <1>5
  <1>9. d \in Buffers
    <2>1. /\ buf2 \in Seq(Byte) /\ r \in Nat /\ w2 \in Nat
          /\ kCheapPrepend <= r /\ r <= w2 /\ w2 <= Len(buf2)
      BY Zenon, <1>2, <1>7, <1>8
    <2>2. [m_buffer |-> buf2, m_readerIndex |-> r, m_writerIndex |-> w2] \in Buffers
      BY <2>1, BufferMade
    <2>3. QED
      BY Zenon, <2>2, <1>6
  <1>10. PICK u, t : u = Contents(d) /\ t = c \o data
    OBVIOUS
  <1>11. /\ u \in Seq(Byte) /\ Len(u) = w2 - r
         /\ \A i \in 1..(w2 - r) : u[i] = buf2[r + i]
    BY <1>2, <1>6, <1>7, <1>8, <1>10, ContentsOf
  <1>12. /\ t \in Seq(Byte) /\ Len(t) = Len(c) + l
         /\ \A i \in 1..Len(c) : t[i] = c[i]
         /\ \A i \in 1..l : t[Len(c) + i] = data[i]
    BY ZenonT(40), <1>1, <1>3, <1>10, Joined
  <1>13. Len(u) = Len(t) /\ Len(u) = (w - r) + l
    BY Zenon, <1>3, <1>8, <1>11, <1>12
  <1>14. ASSUME NEW i \in 1..Len(u) PROVE u[i] = t[i]
    <2>1. i \in Nat /\ 1 <= i /\ i <= (w - r) + l
      BY SMT, <1>2, <1>4, <1>13
    <2>2. u[i] = buf2[r + i]
      BY Zenon, <1>11
    <2>3. CASE i <= w - r
      <3>1. i \in 1..(w - r) /\ r + i \in 1..w
        BY SMT, <2>1, <2>3, <1>2
      <3>2. QED
        BY Zenon, <3>1, <2>2, <1>3, <1>7, <1>12
    <2>4. CASE i > w - r
      <3>1. PICK j : j = i - (w - r)
        OBVIOUS
      <3>2. j \in 1..l /\ r + i = w + j /\ i = (w - r) + j
        BY SMT, <3>1, <2>1, <2>4, <1>2, <1>4
      <3>3. t[Len(c) + j] = data[j] /\ buf2[w + j] = data[j]
        BY Zenon, <3>2, <1>7, <1>12
      <3>4. t[i] = data[j] /\ u[i] = data[j]
        BY Zenon, <3>2, <3>3, <2>2, <1>3
      <3>5. QED
        BY Zenon, <3>4
    <2>5. QED
      BY SMT, <2>1, <2>3, <2>4, <1>2
  <1>15. u = t
    BY <1>11, <1>12, <1>13, <1>14, SameBytes
  <1>16. QED
    BY Zenon, <1>1, <1>9, <1>10, <1>15

\* append keeps what is readable and puts the data behind it, whether or not the
\* buffer grew or moved its bytes.
THEOREM BufferAppends ==
    ASSUME NEW b \in Buffers, NEW data \in Seq(Byte)
    PROVE  append(b, data) \in Buffers /\ Contents(append(b, data)) = Contents(b) \o data
  <1>1. PICK e, d : e = ensureWritableBytes(b, Len(data)) /\ d = append(b, data)
    OBVIOUS
  <1>2. Len(data) \in Nat
    OBVIOUS
  <1>3. e \in Buffers /\ Contents(e) = Contents(b) /\ Len(data) <= writableBytes(e)
    BY Zenon, <1>1, <1>2, Spaced
  <1>4. d = [e EXCEPT !.m_buffer = CopyTo(@, e.m_writerIndex, data),
                      !.m_writerIndex = @ + Len(data)]
    BY Zenon, <1>1 DEF append
  <1>5. d \in Buffers /\ Contents(d) = Contents(e) \o data
    BY Zenon, <1>3, <1>4, Filled
  <1>6. QED
    BY Zenon, <1>1, <1>3, <1>5

\* readFd keeps what is readable and puts the bytes the kernel gave behind it,
\* whether they fitted or some went to extrabuf first.
THEOREM BufferReads ==
    ASSUME NEW b \in Buffers, NEW data \in Seq(Byte)
    PROVE  readFd(b, data) \in Buffers /\ Contents(readFd(b, data)) = Contents(b) \o data
  <1>1. PICK w, d, n : w = writableBytes(b) /\ d = readFd(b, data) /\ n = Len(data)
    OBVIOUS
  <1>2. w \in Nat /\ n \in Nat /\ w = Len(b.m_buffer) - b.m_writerIndex
    <2>1. w = Len(b.m_buffer) - b.m_writerIndex
      BY Zenon, <1>1 DEF writableBytes
    <2>2. /\ Len(b.m_buffer) \in Nat /\ b.m_writerIndex \in Nat
          /\ b.m_writerIndex <= Len(b.m_buffer)
      BY Zenon, BufferParts
    <2>3. n \in Nat
      BY <1>1
    <2>4. QED
      BY SMT, <2>1, <2>2, <2>3
  <1>3. CASE n <= w
    <2>1. d = [b EXCEPT !.m_buffer = CopyTo(@, b.m_writerIndex, data),
                        !.m_writerIndex = @ + Len(data)]
      BY Zenon, <1>1, <1>3 DEF readFd
    <2>2. Len(data) <= writableBytes(b)
      BY Zenon, <1>1, <1>3
    <2>3. d \in Buffers /\ Contents(d) = Contents(b) \o data
      BY Zenon, <2>1, <2>2, Filled
    <2>4. QED
      BY Zenon, <2>3, <1>1
  <1>4. CASE ~(n <= w)
    <2>1. PICK p, q : p = SubSeq(data, 1, w) /\ q = SubSeq(data, w + 1, Len(data))
      OBVIOUS
    <2>2. w \in 0..Len(data)
      BY SMT, <1>1, <1>2, <1>4
    <2>3. p \in Seq(Byte) /\ Len(p) = w /\ q \in Seq(Byte)
      BY SMT, <2>1, <2>2
    <2>4. p \o q = data
      BY Zenon, <2>1, <2>2, CutJoin
    <2>5. PICK f : f = [b EXCEPT !.m_buffer = CopyTo(@, b.m_writerIndex, p),
                                 !.m_writerIndex = Len(b.m_buffer)]
      OBVIOUS
    <2>6. d = append(f, q)
      BY Zenon, <1>1, <1>4, <2>1, <2>5 DEF readFd
    <2>7. b.m_writerIndex + Len(p) = Len(b.m_buffer)
      <3>1. Len(b.m_buffer) \in Nat /\ b.m_writerIndex \in Nat
        BY Zenon, BufferParts
      <3>2. QED
        BY SMT, <3>1, <2>3, <1>2
    <2>8. f = [b EXCEPT !.m_buffer = CopyTo(@, b.m_writerIndex, p),
                        !.m_writerIndex = @ + Len(p)]
      BY <2>5, <2>7
    <2>9. Len(p) <= writableBytes(b)
      BY SMT, <2>3, <1>1, <1>2
    <2>10. f \in Buffers /\ Contents(f) = Contents(b) \o p
      BY Zenon, <2>3, <2>8, <2>9, Filled
    <2>11. d \in Buffers /\ Contents(d) = Contents(f) \o q
      BY Zenon, <2>3, <2>6, <2>10, BufferAppends
    <2>12. Contents(b) \in Seq(Byte)
      BY BufferContents
    <2>13. (Contents(b) \o p) \o q = Contents(b) \o (p \o q)
      BY <2>3, <2>12, Associative
    <2>14. QED
      BY Zenon, <1>1, <2>4, <2>10, <2>11, <2>13
  <1>5. QED
    BY Zenon, <1>3, <1>4

-----------------------------------------------------------------------------
(***************************************************************************)
(* The sending side                                                        *)
(***************************************************************************)
Frames == {Frame(m) : m \in Message}

\* What is sent is a string of bytes, never empty.
LEMMA FrameTyped ==
    ASSUME NEW data \in Frames
    PROVE  data \in Seq(Byte) /\ Len(data) \in Nat /\ Len(data) > 0
  <1>1. PICK m \in Message : data = Frame(m)
    BY Zenon DEF Frames
  <1>2. PICK b : b = WritePackage(m)
    OBVIOUS
  <1>3. b \in Seq(Byte) /\ Len(b) \in Nat
    BY <1>2, PackageInverse
  <1>4. PICK h : h = HostOrder(Len(b))
    OBVIOUS
  <1>5. h \in Seq(Byte) /\ Len(h) = 4
    <2>1. Len(b) \in Int
      BY <1>3
    <2>2. QED
      BY Zenon, <2>1, <1>4, HtonlBytes
  <1>6. data = h \o b
    BY Zenon, <1>1, <1>2, <1>4 DEF Frame
  <1>7. data \in Seq(Byte) /\ Len(data) = Len(h) + Len(b)
    BY <1>3, <1>5, <1>6, Joined
  <1>8. QED
    BY SMT, <1>3, <1>5, <1>7

\* Four bytes make an int32_t.
LEMMA NtohlTyped ==
    ASSUME NEW s, s[1] \in Byte, s[2] \in Byte, s[3] \in Byte, s[4] \in Byte
    PROVE  ntohl(s) \in Int32
  <1>1. PICK a, b, c, d : a = s[1] /\ b = s[2] /\ c = s[3] /\ d = s[4]
    OBVIOUS
  <1>2. a \in 0..255 /\ b \in 0..255 /\ c \in 0..255 /\ d \in 0..255
    BY Zenon, <1>1 DEF Byte
  <1>3. ntohl(s) = (IF a >= 128 THEN a - 256 ELSE a) * 16777216 + b * 65536 + c * 256 + d
    BY SMT, <1>1 DEF ntohl
  <1>4. QED
    BY SMT, <1>2, <1>3 DEF Int32

\* What process() makes of a package it does not refuse.
LEMMA ReadingParsed ==
    ASSUME NEW s \in Seq(Byte), NEW r \in Readings(s), r.ok
    PROVE  Enough(s, Reserved, 8) /\ \E data : r = Parsed(s, data)
  <1>1. Refused.ok = FALSE
    BY DEF Refused
  <1>2. r # Refused
    BY Zenon, <1>1
  <1>3. CASE PackageOverruns(s)
    <2>1. \E data : r = Parsed(s, data)
      BY Zenon, <1>2, <1>3 DEF Readings
    <2>2. At(s, (Reserved + 8) + 1) >= 128
      <3>1. 1 \in 1..5
        BY SMT
      <3>2. QED
        BY Zenon, <3>1, <1>3 DEF PackageOverruns, Overruns
    <2>3. Enough(s, Reserved, 8)
      BY SMT, <2>2 DEF At, Enough, Reserved
    <2>4. QED
      BY Zenon, <2>1, <2>3
  <1>4. CASE ~PackageOverruns(s)
    <2>1. r = ReadPackage(s)
      BY Zenon, <1>4 DEF Readings
    <2>2. Enough(s, Reserved, 8)
      BY Zenon, <2>1, <1>2 DEF ReadPackage
    <2>3. QED
      BY Zenon, <2>1, <2>2, <1>2 DEF ReadPackage
  <1>5. QED
    BY Zenon, <1>3, <1>4

\* The answer to whatever process() could read is a message.
LEMMA AnswerTyped ==
    ASSUME NEW s \in Seq(Byte), NEW r \in Readings(s), r.ok
    PROVE  Answer(r.msg) \in Message
  <1>2. Enough(s, Reserved, 8)
    BY Zenon, ReadingParsed
  <1>3. PICK data : r = Parsed(s, data)
    BY Zenon, ReadingParsed
  <1>5. PICK c, q : /\ c = ntohl(SubSeq(s, Reserved + 1, Reserved + 4))
                    /\ q = ntohl(SubSeq(s, Reserved + 5, Reserved + 8))
    OBVIOUS
  <1>6. r = [ok |-> TRUE, msg |-> [cmd |-> c, seq |-> q, data |-> data]]
    BY Zenon, <1>3, <1>5 DEF Parsed
  <1>7. r.msg = [cmd |-> c, seq |-> q, data |-> data]
    BY <1>6
  <1>8. c \in Int32 /\ q \in Int32
    <2>1. 14 <= Len(s)
      BY SMT, <1>2 DEF Enough, Reserved
    <2>2. PICK x, y : x = SubSeq(s, 7, 10) /\ y = SubSeq(s, 11, 14)
      OBVIOUS
    <2>3. x[1] \in Byte /\ x[2] \in Byte /\ x[3] \in Byte /\ x[4] \in Byte
      BY SMT, <2>1, <2>2
    <2>4. y[1] \in Byte /\ y[2] \in Byte /\ y[3] \in Byte /\ y[4] \in Byte
      BY SMT, <2>1, <2>2
    <2>5. Reserved + 1 = 7 /\ Reserved + 4 = 10 /\ Reserved + 5 = 11 /\ Reserved + 8 = 14
      BY SMT DEF Reserved
    <2>6. c = ntohl(x) /\ q = ntohl(y)
      BY Zenon, <2>2, <2>5, <1>5
    <2>7. QED
      BY Zenon, <2>3, <2>4, <2>6, NtohlTyped
  <1>9. Answer(r.msg) = [cmd |-> c, seq |-> q, data |-> NotLogin]
    <2>1. PICK m : m = r.msg
      OBVIOUS
    <2>2. m = [cmd |-> c, seq |-> q, data |-> data]
      BY Zenon, <2>1, <1>7
    <2>3. m.cmd = c /\ m.seq = q
      BY <2>2
    <2>4. QED
      BY Zenon, <2>1, <2>3 DEF Answer
  <1>10. NotLogin \in {d \in Seq(Byte) : Len(d) <= MaxString}
    BY Zenon, MessagesAssumption
  <1>11. QED
    BY <1>8, <1>9, <1>10 DEF Message

\* The names OrderedStream has for the state: as in SessionStream's Pipe, with
\* every frame allowed as a message.
Stream == INSTANCE OrderedStream WITH
            Messages <- Frames,
            delivered <- socket,
            queue <- Contents(outBuf),
            closing <- m_state # "kConnected",
            broken <- gone

Functors == [name : {"sendInLoop"}, data : Frames]
            \cup [name : {"shutdownInLoop", "forceCloseInLoop"}, data : {<<>>}]

StreamTyped ==
  /\ inBuf \in Buffers /\ outBuf \in Buffers
  /\ toSend \in Seq(Byte) /\ socket \in Seq(Byte)
  /\ m_state \in {"kConnected", "kDisconnecting", "kDisconnected"}
  /\ writing \in BOOLEAN /\ reading \in BOOLEAN /\ fin \in BOOLEAN /\ aborted \in BOOLEAN
  /\ functors \in Seq(Functors) /\ batch \in Seq(Functors)
  /\ sender \in OtherMessages \cup {Nobody}

\* The channel watches for room exactly while bytes wait, as long as it is there.
WritingHasBytes == writing => Contents(outBuf) # <<>>
IdleIsEmpty == reading /\ ~writing => Contents(outBuf) = <<>>

\* The end of the stream comes after the test of m_state and after the last byte.
FinIsLast == fin => m_state # "kConnected" /\ (reading => ~writing)

Shuts(q) == \E i \in 1..Len(q) : q[i].name = "shutdownInLoop"

\* shutdown sets m_state before it queues shutdownInLoop.
StopMeansClosing ==
  stopper = "set" \/ Shuts(functors) \/ Shuts(batch) => m_state # "kConnected"

StreamInv == /\ StreamTyped
             /\ WritingHasBytes /\ IdleIsEmpty /\ FinIsLast /\ StopMeansClosing

\* A buffer without readable bytes.
LEMMA EmptyBuffer ==
    ASSUME NEW b \in Buffers
    PROVE  readableBytes(b) = 0 <=> Contents(b) = <<>>
  <1>1. PICK c, n : c = Contents(b) /\ n = readableBytes(b)
    OBVIOUS
  <1>2. c \in Seq(Byte) /\ Len(c) = n
    BY Zenon, <1>1, BufferContents
  <1>3. n = 0 <=> c = <<>>
    BY SMT, <1>2
  <1>4. QED
    BY Zenon, <1>1, <1>3

\* The bytes of a message put behind the ones before it, some of them delivered,
\* are a Send of OrderedStream.
LEMMA SendStep ==
    ASSUME StreamTyped, NEW data \in Frames, NEW d2 \in Seq(Byte), NEW q2 \in Seq(Byte),
           d2 = socket', q2 = Contents(outBuf)',
           d2 \o q2 = (socket \o Contents(outBuf)) \o data, Len(socket) <= Len(d2),
           ~fin \/ gone, fin => UNCHANGED socket, UNCHANGED <<m_state, fin, gone>>
    PROVE  Stream!Next
  <1>1. PICK d, q, all : d = socket /\ q = Contents(outBuf) /\ all = (d \o q) \o data
    OBVIOUS
  <1>2. d \in Seq(Byte) /\ q \in Seq(Byte) /\ data \in Seq(Byte)
    BY Zenon, <1>1, FrameTyped, BufferContents DEF StreamTyped
  <1>3. PICK x : x = d \o q
    OBVIOUS
  <1>4. x \in Seq(Byte) /\ Len(x) = Len(d) + Len(q)
    BY Zenon, <1>2, <1>3, Joined
  <1>5. all \in Seq(Byte) /\ Len(all) = Len(x) + Len(data)
    <2>1. all = x \o data
      BY Zenon, <1>1, <1>3
    <2>2. QED
      BY Zenon, <2>1, <1>2, <1>4, Joined
  <1>6. d2 \o q2 = all
    BY Zenon, <1>1
  <1>7. /\ d2 = SubSeq(all, 1, Len(d2)) /\ q2 = SubSeq(all, Len(d2) + 1, Len(all))
        /\ Len(d2) \in Nat /\ Len(q2) \in Nat /\ Len(all) = Len(d2) + Len(q2)
    BY ZenonT(40), <1>5, <1>6, SplitMade
  <1>8. Len(d2) \in Len(d)..(Len(d) + Len(q) + Len(data))
    <2>1. PICK i, j, k, l, m, n : /\ i = Len(d) /\ j = Len(q) /\ k = Len(data) /\ l = Len(d2)
                                  /\ m = Len(q2) /\ n = Len(x)
      OBVIOUS
    <2>2. /\ i \in Nat /\ j \in Nat /\ k \in Nat /\ l \in Nat /\ m \in Nat /\ i <= l
      BY <2>1, <1>1, <1>2, <1>7
    <2>3. n = i + j /\ n + k = l + m
      BY Zenon, <2>1, <1>4, <1>5, <1>7
    <2>4. l \in i..(i + j + k)
      BY SMT, <2>2, <2>3
    <2>5. QED
      BY Zenon, <2>1, <2>4
  <1>9. Stream!Send(data)
    BY Zenon, <1>1, <1>7, <1>8 DEF Stream!Send, Stream!Split
  <1>10. QED
    BY Zenon, <1>9 DEF Stream!Next

\* Waiting bytes the socket takes are a Deliver of OrderedStream, the end of the
\* stream with the last of them included.
LEMMA DeliverStep ==
    ASSUME StreamTyped, NEW d2 \in Seq(Byte), NEW q2 \in Seq(Byte),
           d2 = socket', q2 = Contents(outBuf)',
           d2 \o q2 = socket \o Contents(outBuf), Len(socket) < Len(d2),
           ~fin, fin' \in BOOLEAN, fin' = TRUE => m_state # "kConnected" /\ q2 = <<>>,
           UNCHANGED <<m_state, gone>>
    PROVE  Stream!Next
  <1>1. PICK d, q, all : d = socket /\ q = Contents(outBuf) /\ all = d \o q
    OBVIOUS
  <1>2. d \in Seq(Byte) /\ q \in Seq(Byte)
    BY Zenon, <1>1, BufferContents DEF StreamTyped
  <1>3. all \in Seq(Byte) /\ Len(all) = Len(d) + Len(q)
    BY Zenon, <1>1, <1>2, Joined
  <1>4. d2 \o q2 = all
    BY Zenon, <1>1
  <1>5. /\ d2 = SubSeq(all, 1, Len(d2)) /\ q2 = SubSeq(all, Len(d2) + 1, Len(all))
        /\ Len(d2) \in Nat /\ Len(q2) \in Nat /\ Len(all) = Len(d2) + Len(q2)
    BY ZenonT(40), <1>3, <1>4, SplitMade
  <1>6. Len(d2) \in (Len(d) + 1)..(Len(d) + Len(q)) /\ q # <<>>
    <2>1. PICK i, j, l, m : i = Len(d) /\ j = Len(q) /\ l = Len(d2) /\ m = Len(q2)
      OBVIOUS
    <2>2. /\ i \in Nat /\ j \in Nat /\ l \in Nat /\ m \in Nat /\ i < l
      BY <2>1, <1>1, <1>2, <1>5
    <2>3. i + j = l + m
      BY Zenon, <2>1, <1>3, <1>5
    <2>4. l \in (i + 1)..(i + j) /\ j # 0
      BY SMT, <2>2, <2>3
    <2>5. q # <<>>
      BY SMT, <2>1, <2>4, <1>2
    <2>6. QED
      BY Zenon, <2>1, <2>4, <2>5
  <1>7. Stream!Deliver
    BY Zenon, <1>1, <1>5, <1>6 DEF Stream!Deliver, Stream!Split
  <1>8. QED
    BY Zenon, <1>7 DEF Stream!Next

\* A step that moves no bytes may ask for the end of the stream or break the
\* connection, and does not take either back.
LEMMA EndStep ==
    ASSUME UNCHANGED <<socket, outBuf, fin>>, gone => gone',
           m_state # "kConnected" => m_state' # "kConnected"
    PROVE  [Stream!Next]_Stream!abstractVars
  <1>1. socket' = socket /\ fin' = fin /\ Contents(outBuf)' = Contents(outBuf)
    BY Zenon DEF Contents
  <1>2. CASE ~gone /\ gone'
    <2>1. gone' = TRUE
      BY Zenon, <1>2
    <2>2. (m_state # "kConnected")' \in {m_state # "kConnected", TRUE}
      BY Zenon
    <2>3. Stream!Break
      BY Zenon, <1>1, <1>2, <2>1, <2>2 DEF Stream!Break
    <2>4. QED
      BY Zenon, <2>3 DEF Stream!Next
  <1>3. CASE gone' <=> gone
    <2>1. gone' = gone
      BY Zenon, <1>3 DEF gone
    <2>2. CASE m_state = "kConnected" /\ m_state' # "kConnected"
      <3>1. Stream!Shutdown
        BY Zenon, <1>1, <2>1, <2>2 DEF Stream!Shutdown
      <3>2. QED
        BY Zenon, <3>1 DEF Stream!Next
    <2>3. CASE (m_state # "kConnected")' <=> (m_state # "kConnected")
      <3>1. (m_state # "kConnected")' = (m_state # "kConnected")
        BY Zenon, <2>3
      <3>2. QED
        BY Zenon, <1>1, <2>1, <3>1 DEF Stream!abstractVars
    <2>4. QED
      BY Zenon, <2>2, <2>3
  <1>4. QED
    BY Zenon, <1>2, <1>3

\* sendInLoop accepts a message whole or not at all, and keeps the order.
LEMMA SendInLoopSteps ==
    ASSUME StreamInv, NEW data \in Frames, sendInLoop(data),
           UNCHANGED <<m_state, reading, fin, peer, aborted>>
    PROVE  /\ [Stream!Next]_Stream!abstractVars
           /\ outBuf' \in Buffers /\ socket' \in Seq(Byte) /\ writing' \in BOOLEAN
           /\ WritingHasBytes' /\ IdleIsEmpty' /\ FinIsLast'
  <1>1. /\ StreamTyped /\ WritingHasBytes /\ IdleIsEmpty /\ FinIsLast
        /\ outBuf \in Buffers /\ socket \in Seq(Byte) /\ writing \in BOOLEAN
    BY Zenon DEF StreamInv, StreamTyped
  <1>2. /\ data \in Seq(Byte) /\ Len(data) \in Nat /\ Len(data) > 0
    BY Zenon, FrameTyped
  <1>3. PICK q : q = Contents(outBuf)
    OBVIOUS
  <1>4. q \in Seq(Byte) /\ (readableBytes(outBuf) = 0 <=> q = <<>>)
    BY Zenon, <1>1, <1>3, BufferContents, EmptyBuffer
  <1>5. UNCHANGED <<m_state, fin, gone>>
    BY Zenon DEF gone
  <1>6. CASE UNCHANGED <<socket, outBuf, writing>>
    <2>1. [Stream!Next]_Stream!abstractVars
      BY Zenon, <1>5, <1>6, EndStep
    <2>2. WritingHasBytes' /\ IdleIsEmpty' /\ FinIsLast'
      BY Zenon, <1>1, <1>6 DEF WritingHasBytes, IdleIsEmpty, FinIsLast, Contents
    <2>3. QED
      BY Zenon, <2>1, <2>2, <1>1, <1>6
  <1>7. CASE /\ writing \/ q # <<>>
             /\ outBuf' = append(outBuf, data) /\ writing' = TRUE /\ UNCHANGED socket
    <2>1. PICK b2, q2 : b2 = append(outBuf, data) /\ q2 = Contents(b2)
      OBVIOUS
    <2>2. b2 \in Buffers /\ q2 = q \o data /\ q2 \in Seq(Byte)
      BY Zenon, <2>1, <1>1, <1>2, <1>3, BufferAppends, BufferContents
    <2>3. outBuf' = b2 /\ Contents(outBuf)' = q2
      BY Zenon, <2>1, <1>7 DEF Contents
    <2>4. q2 # <<>>
      BY SMT, <2>2, <1>2, <1>4
    <2>5. ~(fin /\ reading)
      BY Zenon, <1>1, <1>3, <1>7 DEF FinIsLast, IdleIsEmpty
    <2>6. ~fin \/ gone
      BY Zenon, <2>5 DEF gone
    <2>7. (socket \o q) \o data = socket \o (q \o data)
      BY Zenon, <1>1, <1>2, <1>4, Associative
    <2>8. Len(socket) <= Len(socket)
      <3>1. Len(socket) \in Nat
        BY <1>1
      <3>2. QED
        BY SMT, <3>1
    <2>9. PICK d2 : d2 = socket
      OBVIOUS
    <2>10. Stream!Next
      <3>1. d2 \in Seq(Byte) /\ d2 = socket' /\ q2 = Contents(outBuf)'
        BY Zenon, <2>3, <2>9, <1>1, <1>7
      <3>2. d2 \o q2 = (socket \o Contents(outBuf)) \o data /\ Len(socket) <= Len(d2)
        BY Zenon, <2>2, <2>7, <2>8, <2>9, <1>3
      <3>3. QED
        BY Zenon, <3>1, <3>2, <2>2, <2>6, <1>1, <1>5, <1>7, SendStep
    <2>11. WritingHasBytes' /\ IdleIsEmpty' /\ FinIsLast'
      BY Zenon, <1>1, <1>7, <2>3, <2>4, <2>5 DEF WritingHasBytes, IdleIsEmpty, FinIsLast
    <2>12. QED
      BY Zenon, <1>1, <1>7, <2>2, <2>3, <2>10, <2>11
  <1>8. CASE /\ ~(writing \/ q # <<>>) /\ ~Unwritable
             /\ \E k \in {0} \cup Moved(Len(data)) :
                  LET rest == SubSeq(data, k + 1, Len(data)) IN
                  /\ socket' = socket \o SubSeq(data, 1, k)
                  /\ outBuf' = IF rest = <<>> THEN outBuf ELSE append(outBuf, rest)
                  /\ writing' = (rest # <<>>)
    <2>1. PICK k \in {0} \cup Moved(Len(data)) :
                  LET rest == SubSeq(data, k + 1, Len(data)) IN
                  /\ socket' = socket \o SubSeq(data, 1, k)
                  /\ outBuf' = IF rest = <<>> THEN outBuf ELSE append(outBuf, rest)
                  /\ writing' = (rest # <<>>)
      BY Zenon, <1>8
    <2>2. k \in 0..Len(data)
      BY SMT, <1>2, StreamAssumption DEF Moved
    <2>3. PICK sent, rest : sent = SubSeq(data, 1, k) /\ rest = SubSeq(data, k + 1, Len(data))
      OBVIOUS
    <2>4. sent \in Seq(Byte) /\ rest \in Seq(Byte)
      BY SMT, <1>2, <2>2, <2>3
    <2>5. sent \o rest = data
      BY Zenon, <1>2, <2>2, <2>3, CutJoin
    <2>6. q = <<>> /\ ~writing /\ ~fin
      BY Zenon, <1>8 DEF Unwritable
    <2>7. PICK d2, b2 : d2 = socket \o sent
                        /\ b2 = IF rest = <<>> THEN outBuf ELSE append(outBuf, rest)
      OBVIOUS
    <2>8. socket' = d2 /\ outBuf' = b2 /\ writing' = (rest # <<>>)
      BY Zenon, <2>1, <2>3, <2>7
    <2>9. b2 \in Buffers /\ Contents(b2) = rest
      <3>1. CASE rest = <<>>
        BY Zenon, <3>1, <2>6, <2>7, <1>1, <1>3
      <3>2. CASE rest # <<>>
        <4>1. b2 = append(outBuf, rest)
          BY Zenon, <3>2, <2>7
        <4>2. b2 \in Buffers /\ Contents(b2) = q \o rest
          BY Zenon, <4>1, <2>4, <1>1, <1>3, BufferAppends
        <4>3. q \o rest = rest
          BY SMT, <2>4, <2>6
        <4>4. QED
          BY Zenon, <4>2, <4>3
      <3>3. QED
        BY Zenon, <3>1, <3>2
    <2>10. Contents(outBuf)' = rest
      BY Zenon, <2>8, <2>9 DEF Contents
    <2>11. d2 \in Seq(Byte) /\ Len(d2) = Len(socket) + Len(sent)
      BY Zenon, <2>4, <2>7, <1>1, Joined
    <2>12. Len(socket) <= Len(d2)
      <3>1. Len(socket) \in Nat /\ Len(sent) \in Nat
        BY <1>1, <2>4
      <3>2. QED
        BY SMT, <3>1, <2>11
    <2>13. d2 \o rest = (socket \o Contents(outBuf)) \o data
      <3>1. (socket \o sent) \o rest = socket \o (sent \o rest)
        BY Zenon, <2>4, <1>1, Associative
      <3>2. socket \o q = socket
        BY SMT, <2>6, <1>1
      <3>3. QED
        BY Zenon, <3>1, <3>2, <2>5, <2>7, <1>3
    <2>14. Stream!Next
      BY Zenon, <2>4, <2>6, <2>8, <2>10, <2>11, <2>12, <2>13, <1>1, <1>5, SendStep
    <2>15. writing' \in BOOLEAN /\ (writing' <=> rest # <<>>)
      BY Zenon, <2>8
    <2>16. WritingHasBytes' /\ IdleIsEmpty' /\ FinIsLast'
      BY Zenon, <2>6, <2>10, <2>15 DEF WritingHasBytes, IdleIsEmpty, FinIsLast
    <2>17. QED
      BY Zenon, <2>8, <2>9, <2>11, <2>14, <2>15, <2>16
  <1>9. QED
    BY Zenon, <1>3, <1>4, <1>6, <1>7, <1>8 DEF sendInLoop

\* handleClose ends the connection, whatever waits in the output buffer.
LEMMA HandleCloseSteps ==
    ASSUME StreamInv, handleClose, UNCHANGED <<socket, outBuf, fin, peer, aborted>>
    PROVE  /\ [Stream!Next]_Stream!abstractVars
           /\ m_state' \in {"kConnected", "kDisconnecting", "kDisconnected"}
           /\ m_state # "kConnected" => m_state' # "kConnected"
           /\ writing' \in BOOLEAN /\ reading' \in BOOLEAN
           /\ WritingHasBytes' /\ IdleIsEmpty' /\ FinIsLast'
  <1>1. /\ WritingHasBytes /\ IdleIsEmpty /\ FinIsLast
        /\ m_state \in {"kConnected", "kDisconnecting", "kDisconnected"}
        /\ writing \in BOOLEAN /\ reading \in BOOLEAN
    BY Zenon DEF StreamInv, StreamTyped
  <1>2. CASE UNCHANGED <<m_state, writing, reading>>
    <2>1. gone => gone'
      BY Zenon, <1>2 DEF gone
    <2>2. [Stream!Next]_Stream!abstractVars
      BY Zenon, <1>2, <2>1, EndStep
    <2>3. WritingHasBytes' /\ IdleIsEmpty' /\ FinIsLast'
      BY Zenon, <1>1, <1>2 DEF WritingHasBytes, IdleIsEmpty, FinIsLast, Contents
    <2>4. QED
      BY Zenon, <1>1, <1>2, <2>2, <2>3
  <1>3. CASE m_state' = "kDisconnected" /\ writing' = FALSE /\ reading' = FALSE
    <2>1. gone'
      BY Zenon, <1>3 DEF gone
    <2>2. m_state' # "kConnected"
      BY <1>3
    <2>3. [Stream!Next]_Stream!abstractVars
      BY Zenon, <2>1, <2>2, EndStep
    <2>4. WritingHasBytes' /\ IdleIsEmpty' /\ FinIsLast'
      BY Zenon, <1>3, <2>2 DEF WritingHasBytes, IdleIsEmpty, FinIsLast
    <2>5. QED
      BY Zenon, <1>3, <2>2, <2>3, <2>4
  <1>4. QED
    BY Zenon, <1>2, <1>3 DEF handleClose

\* A functor at the end of a queue.
LEMMA FunctorQueued ==
    ASSUME NEW q \in Seq(Functors), NEW f \in Functors
    PROVE  /\ Append(q, f) \in Seq(Functors)
           /\ Shuts(Append(q, f)) => Shuts(q) \/ f.name = "shutdownInLoop"
  <1>1. PICK r : r = Append(q, f)
    OBVIOUS
  <1>2. /\ r \in Seq(Functors) /\ Len(r) = Len(q) + 1 /\ Len(q) \in Nat
        /\ r[Len(q) + 1] = f
        /\ \A i \in 1..Len(q) : r[i] = q[i]
    BY SMT, <1>1
  <1>3. ASSUME NEW i \in 1..Len(r), r[i].name = "shutdownInLoop"
        PROVE  Shuts(q) \/ f.name = "shutdownInLoop"
    <2>1. i \in 1..Len(q) \/ i = Len(q) + 1
      BY SMT, <1>2
    <2>2. QED
      BY Zenon, <2>1, <1>2, <1>3 DEF Shuts
  <1>4. QED
    BY Zenon, <1>1, <1>2, <1>3 DEF Shuts

\* The first functor and the others.
LEMMA FunctorTaken ==
    ASSUME NEW q \in Seq(Functors), q # <<>>
    PROVE  /\ Head(q) \in Functors /\ Tail(q) \in Seq(Functors)
           /\ Shuts(Tail(q)) => Shuts(q)
           /\ Head(q).name = "shutdownInLoop" => Shuts(q)
  <1>1. PICK r, h : r = Tail(q) /\ h = Head(q)
    OBVIOUS
  <1>2. /\ r \in Seq(Functors) /\ Len(r) = Len(q) - 1 /\ Len(q) \in Nat /\ Len(q) > 0
        /\ h = q[1] /\ h \in Functors
        /\ \A i \in 1..Len(r) : r[i] = q[i + 1]
    BY SMT, <1>1
  <1>3. 1 \in 1..Len(q) /\ \A i \in 1..Len(r) : i + 1 \in 1..Len(q)
    BY SMT, <1>2
  <1>4. QED
    BY Zenon, <1>1, <1>2, <1>3 DEF Shuts

\* The functors the model queues.
LEMMA FunctorTyped ==
    /\ \A data \in Frames : /\ Functor("sendInLoop", data) \in Functors
                            /\ Functor("sendInLoop", data).name # "shutdownInLoop"
    /\ Functor("shutdownInLoop", <<>>) \in Functors
    /\ Functor("forceCloseInLoop", <<>>) \in Functors
    /\ Functor("forceCloseInLoop", <<>>).name # "shutdownInLoop"
  BY DEF Functor, Functors

\* forceClose sets the state and leaves the closing to the loop.
LEMMA ForceCloseSteps ==
    ASSUME StreamInv, forceClose
    PROVE  /\ m_state' \in {"kConnected", "kDisconnecting", "kDisconnected"}
           /\ m_state # "kConnected" => m_state' # "kConnected"
           /\ functors' \in Seq(Functors)
           /\ Shuts(functors)' => Shuts(functors)
  <1>1. /\ m_state \in {"kConnected", "kDisconnecting", "kDisconnected"}
        /\ functors \in Seq(Functors)
    BY Zenon DEF StreamInv, StreamTyped
  <1>2. CASE UNCHANGED <<m_state, functors>>
    BY Zenon, <1>1, <1>2 DEF Shuts
  <1>3. CASE /\ m_state' = "kDisconnecting"
             /\ functors' = Append(functors, Functor("forceCloseInLoop", <<>>))
    <2>1. PICK q, f : q = functors /\ f = Functor("forceCloseInLoop", <<>>)
      OBVIOUS
    <2>2. q \in Seq(Functors) /\ f \in Functors /\ f.name # "shutdownInLoop"
      BY Zenon, <2>1, <1>1, FunctorTyped
    <2>3. PICK r : r = Append(q, f)
      OBVIOUS
    <2>4. r \in Seq(Functors) /\ (Shuts(r) => Shuts(q))
      BY Zenon, <2>2, <2>3, FunctorQueued
    <2>5. functors' = r
      BY Zenon, <1>3, <2>1, <2>3
    <2>6. Shuts(functors)' => Shuts(functors)
      BY Zenon, <2>1, <2>4, <2>5 DEF Shuts
    <2>7. m_state' # "kConnected"
      BY <1>3
    <2>8. QED
      BY Zenon, <1>3, <2>4, <2>5, <2>6, <2>7
  <1>4. QED
    BY Zenon, <1>2, <1>3 DEF forceClose

\* A step that leaves the output and its channel alone.
LEMMA QuietStep ==
    ASSUME StreamInv, UNCHANGED <<socket, outBuf, fin, writing, reading>>,
           m_state' \in {"kConnected", "kDisconnecting", "kDisconnected"},
           m_state # "kConnected" => m_state' # "kConnected",
           inBuf' \in Buffers, toSend' \in Seq(Byte), aborted' \in BOOLEAN,
           aborted => aborted', peer = "reset" => peer' = "reset",
           functors' \in Seq(Functors), batch' \in Seq(Functors),
           sender' \in OtherMessages \cup {Nobody}, StopMeansClosing'
    PROVE  StreamInv' /\ [Stream!Next]_Stream!abstractVars
  <1>1. gone => gone'
    BY Zenon DEF gone
  <1>2. [Stream!Next]_Stream!abstractVars
    BY Zenon, <1>1, EndStep
  <1>3. StreamTyped'
    BY Zenon DEF StreamInv, StreamTyped
  <1>4. WritingHasBytes' /\ IdleIsEmpty' /\ FinIsLast'
    BY Zenon DEF StreamInv, WritingHasBytes, IdleIsEmpty, FinIsLast, Contents
  <1>5. QED
    BY Zenon, <1>2, <1>3, <1>4 DEF StreamInv

\* What a read takes is there to be taken.
LEMMA ReadTaken ==
    ASSUME NEW b \in Buffers, NEW t \in Seq(Byte),
           NEW k \in Moved(IF Len(t) < Capacity(b) THEN Len(t) ELSE Capacity(b))
    PROVE  k \in 0..Len(t)
  <1>1. PICK n, c : n = Len(t) /\ c = Capacity(b)
    OBVIOUS
  <1>2. n \in Nat
    BY <1>1
  <1>3. PICK w : w = writableBytes(b)
    OBVIOUS
  <1>4. w \in Nat
    <2>1. PICK l, i : l = Len(b.m_buffer) /\ i = b.m_writerIndex
      OBVIOUS
    <2>2. l \in Nat /\ i \in Nat /\ i <= l
      BY Zenon, <2>1, BufferParts
    <2>3. w = l - i
      BY Zenon, <2>1, <1>3 DEF writableBytes
    <2>4. QED
      BY SMT, <2>2, <2>3
  <1>5. c = IF w < ExtraSize THEN w + ExtraSize ELSE w
    BY Zenon, <1>1, <1>3 DEF Capacity
  <1>6. c \in Nat
    BY SMT, <1>4, <1>5, SizesAssumption
  <1>7. PICK m : m = IF n < c THEN n ELSE c
    OBVIOUS
  <1>8. m \in Nat /\ m <= n
    BY SMT, <1>2, <1>6, <1>7
  <1>9. k \in Moved(m)
    BY Zenon, <1>1, <1>7
  <1>10. k \in 0..n
    BY SMT, <1>2, <1>8, <1>9, StreamAssumption DEF Moved
  <1>11. QED
    BY Zenon, <1>1, <1>10

\* The header of the next package is an int32_t, whatever the client sent.
LEMMA HeaderTyped ==
    ASSUME inBuf \in Buffers, Len(Waiting) >= HeaderSize
    PROVE  Waiting \in Seq(Byte) /\ originsize \in Int
  <1>1. PICK w : w = Waiting
    OBVIOUS
  <1>2. w \in Seq(Byte)
    BY Zenon, <1>1, BufferContents DEF Waiting
  <1>3. w[1] \in Byte /\ w[2] \in Byte /\ w[3] \in Byte /\ w[4] \in Byte
    <2>1. Len(w) >= 4
      BY <1>1 DEF HeaderSize
    <2>2. QED
      BY SMT, <2>1, <1>2
  <1>4. PICK t : t = <<w[4], w[3], w[2], w[1]>>
    OBVIOUS
  <1>5. t[1] = w[4] /\ t[2] = w[3] /\ t[3] = w[2] /\ t[4] = w[1]
    BY SMT, <1>4
  <1>6. ntohl(t) \in Int32
    BY Zenon, <1>3, <1>5, NtohlTyped
  <1>7. originsize = ntohl(t)
    BY Zenon, <1>1, <1>4 DEF originsize, FromHostOrder
  <1>8. ntohl(t) \in Int
    BY SMT, <1>6 DEF Int32
  <1>9. QED
    BY Zenon, <1>1, <1>2, <1>7, <1>8

\* onRead cuts a package out of the readable bytes and leaves the others.
LEMMA PackageCut ==
    ASSUME inBuf \in Buffers, Len(Waiting) >= HeaderSize, Complete, originsize >= 0
    PROVE  /\ Package \in Buffers /\ Body \in Seq(Byte)
           /\ Contents(Package) = SubSeq(Waiting, HeaderSize + originsize + 1, Len(Waiting))
  <1>1. PICK w, n, l, b : w = Waiting /\ n = originsize /\ l = Len(w) /\ b = retrieve(inBuf, HeaderSize)
    OBVIOUS
  <1>2. w \in Seq(Byte) /\ n \in Int
    BY Zenon, <1>1, HeaderTyped
  <1>3. /\ l \in Nat /\ n \in Nat /\ HeaderSize = 4 /\ n + 4 <= l
    <2>1. l \in Nat
      BY <1>1, <1>2
    <2>2. n >= 0 /\ n + HeaderSize <= l
      BY Zenon, <1>1 DEF Complete
    <2>3. QED
      BY SMT, <2>1, <2>2, <1>2 DEF HeaderSize
  <1>4. HeaderSize \in 0..Len(Contents(inBuf))
    <2>1. 4 \in 0..l
      BY SMT, <1>3
    <2>2. QED
      BY Zenon, <2>1, <1>1, <1>3 DEF Waiting
  <1>5. b \in Buffers /\ Contents(b) = SubSeq(w, HeaderSize + 1, l)
    BY Zenon, <1>1, <1>4, Retrieved DEF Waiting
  <1>6. PICK c : c = Contents(b)
    OBVIOUS
  <1>7. c \in Seq(Byte) /\ Len(c) = l - 4 /\ \A i \in 1..(l - 4) : c[i] = w[4 + i]
    <2>1. c = SubSeq(w, 4 + 1, l)
      BY Zenon, <1>3, <1>5, <1>6
    <2>2. 4 \in Nat /\ 4 <= l /\ l <= Len(w)
      <3>1. l <= l
        BY SMT, <1>3
      <3>2. 4 \in Nat /\ 4 <= l
        BY SMT, <1>3
      <3>3. QED
        BY Zenon, <3>1, <3>2, <1>1
    <2>3. QED
      BY Zenon, <2>1, <2>2, <1>2, <1>3, Piece
  <1>8. n \in 0..Len(c)
    BY SMT, <1>3, <1>7
  <1>9. /\ Package \in Buffers
        /\ Contents(Package) = SubSeq(c, n + 1, Len(c))
    BY Zenon, <1>1, <1>5, <1>6, <1>8, Retrieved DEF Package
  <1>10. SubSeq(c, n + 1, Len(c)) = SubSeq(w, HeaderSize + n + 1, l)
    <2>1. PICK x, y : x = SubSeq(c, n + 1, Len(c)) /\ y = SubSeq(w, (4 + n) + 1, l)
      OBVIOUS
    <2>2. n <= Len(c) /\ Len(c) <= Len(c) /\ Len(c) \in Nat /\ 4 + n \in Nat /\ 4 + n <= l
      BY SMT, <1>3, <1>7
    <2>3. /\ x \in Seq(Byte) /\ Len(x) = Len(c) - n
          /\ \A i \in 1..(Len(c) - n) : x[i] = c[n + i]
      BY Zenon, <2>1, <2>2, <1>3, <1>7, Piece
    <2>a. l <= Len(w)
      <3>1. l <= l
        BY SMT, <1>3
      <3>2. QED
        BY Zenon, <3>1, <1>1
    <2>4. /\ y \in Seq(Byte) /\ Len(y) = l - (4 + n)
          /\ \A i \in 1..(l - (4 + n)) : y[i] = w[(4 + n) + i]
      BY Zenon, <2>1, <2>2, <2>a, <1>2, <1>3, Piece
    <2>5. Len(c) - n = l - (4 + n)
      BY SMT, <1>3, <1>7
    <2>6. ASSUME NEW i \in 1..(Len(c) - n) PROVE x[i] = y[i]
      <3>1. n + i \in 1..(l - 4) /\ 4 + (n + i) = (4 + n) + i
        BY SMT, <1>3, <1>7
      <3>2. x[i] = c[n + i] /\ c[n + i] = w[4 + (n + i)] /\ y[i] = w[(4 + n) + i]
        BY Zenon, <3>1, <2>3, <2>4, <2>5, <1>7
      <3>3. QED
        BY Zenon, <3>1, <3>2
    <2>7. x = y
      BY <2>3, <2>4, <2>5, <2>6, SameBytes
    <2>8. QED
      BY Zenon, <2>1, <2>7, <1>3
  <1>11. Body \in Seq(Byte)
    <2>1. PICK y : y = SubSeq(w, 4 + 1, 4 + n)
      OBVIOUS
    <2>2. y \in Seq(Byte)
      BY SMT, <2>1, <1>1, <1>2, <1>3
    <2>3. QED
      BY Zenon, <2>1, <2>2, <1>1, <1>3 DEF Body
  <1>12. QED
    BY Zenon, <1>1, <1>9, <1>10, <1>11

\* The parts of the invariant.
LEMMA InvParts ==
    ASSUME StreamInv
    PROVE  /\ StreamTyped /\ WritingHasBytes /\ IdleIsEmpty /\ FinIsLast /\ StopMeansClosing
           /\ inBuf \in Buffers /\ outBuf \in Buffers
           /\ toSend \in Seq(Byte) /\ socket \in Seq(Byte)
           /\ m_state \in {"kConnected", "kDisconnecting", "kDisconnected"}
           /\ writing \in BOOLEAN /\ reading \in BOOLEAN /\ fin \in BOOLEAN /\ aborted \in BOOLEAN
           /\ functors \in Seq(Functors) /\ batch \in Seq(Functors)
           /\ sender \in OtherMessages \cup {Nobody}
  BY Zenon DEF StreamInv, StreamTyped

\* The requests to stop stay behind the change of m_state.
LEMMA StopKept ==
    ASSUME StreamInv, m_state # "kConnected" => m_state' # "kConnected",
           Shuts(functors)' => Shuts(functors) \/ Shuts(batch) \/ stopper = "set",
           Shuts(batch)' => Shuts(functors) \/ Shuts(batch) \/ stopper = "set",
           stopper' = "set" => stopper = "set"
    PROVE  StopMeansClosing'
  BY Zenon DEF StreamInv, StopMeansClosing

\* The actions that leave the output alone.
LEMMA QuietActions ==
    ASSUME StreamInv,
           \/ Poll \/ onReadWaits \/ onReadRefusesHeader \/ onReadThrows \/ BeginTasks
           \/ (\E m \in OtherMessages : OtherSend(m)) \/ OtherQueues
           \/ shutdown \/ ShutdownSets \/ ShutdownQueues \/ PeerEnds \/ UNCHANGED vars
    PROVE  StreamInv' /\ [Stream!Next]_Stream!abstractVars
  <1> USE InvParts
  <1>1. CASE Poll
    <2>1. /\ UNCHANGED <<socket, outBuf, fin, writing, reading, m_state, inBuf, toSend, aborted>>
          /\ UNCHANGED <<peer, functors, batch, sender, stopper>>
      BY Zenon, <1>1 DEF Poll, Polled, buffers, otherVars
    <2>2. StopMeansClosing'
      BY Zenon, <2>1, StopKept DEF Shuts
    <2>3. QED
      BY Zenon, <2>1, <2>2, QuietStep
  <1>2. CASE onReadWaits
    <2>1. /\ UNCHANGED <<socket, outBuf, fin, writing, reading, m_state, inBuf, toSend, aborted>>
          /\ UNCHANGED <<peer, functors, batch, sender, stopper>>
      BY Zenon, <1>2 DEF onReadWaits, buffers, otherVars
    <2>2. StopMeansClosing'
      BY Zenon, <2>1, StopKept DEF Shuts
    <2>3. QED
      BY Zenon, <2>1, <2>2, QuietStep
  <1>3. CASE onReadRefusesHeader
    <2>1. /\ UNCHANGED <<socket, outBuf, fin, writing, reading, inBuf, toSend, aborted>>
          /\ UNCHANGED <<peer, batch, sender, stopper>> /\ forceClose
      BY Zenon, <1>3 DEF onReadRefusesHeader, buffers, otherVars
    <2>2. /\ m_state' \in {"kConnected", "kDisconnecting", "kDisconnected"}
          /\ m_state # "kConnected" => m_state' # "kConnected"
          /\ functors' \in Seq(Functors)
          /\ Shuts(functors)' => Shuts(functors)
      BY Zenon, <2>1, ForceCloseSteps
    <2>3. Shuts(batch)' => Shuts(batch)
      BY Zenon, <2>1 DEF Shuts
    <2>4. StopMeansClosing'
      BY Zenon, <2>1, <2>2, <2>3, StopKept
    <2>5. QED
      BY Zenon, <2>1, <2>2, <2>4, QuietStep
  <1>4. CASE onReadThrows
    <2>1. /\ UNCHANGED <<socket, outBuf, fin, writing, reading, m_state, toSend>>
          /\ UNCHANGED <<peer, functors, batch, sender, stopper>>
          /\ aborted' = TRUE /\ inBuf' = retrieve(inBuf, HeaderSize)
          /\ Len(Waiting) >= HeaderSize
      BY Zenon, <1>4 DEF onReadThrows, otherVars
    <2>2. HeaderSize \in 0..Len(Contents(inBuf))
      <3>1. PICK n : n = Len(Contents(inBuf))
        OBVIOUS
      <3>2. n \in Nat
        BY Zenon, <3>1, BufferContents
      <3>3. n >= HeaderSize
        BY Zenon, <3>1, <2>1 DEF Waiting
      <3>4. HeaderSize \in 0..n
        BY SMT, <3>2, <3>3 DEF HeaderSize
      <3>5. QED
        BY Zenon, <3>1, <3>4
    <2>3. inBuf' \in Buffers
      BY Zenon, <2>1, <2>2, Retrieved
    <2>4. StopMeansClosing'
      BY Zenon, <2>1, StopKept DEF Shuts
    <2>5. QED
      BY Zenon, <2>1, <2>3, <2>4, QuietStep
  <1>5. CASE BeginTasks
    <2>1. /\ UNCHANGED <<socket, outBuf, fin, writing, reading, m_state, inBuf, toSend, aborted>>
          /\ UNCHANGED <<peer, sender, stopper>> /\ batch' = functors /\ functors' = <<>>
      BY Zenon, <1>5 DEF BeginTasks, buffers, otherVars
    <2>2. <<>> \in Seq(Functors) /\ ~Shuts(<<>>)
      BY SMT DEF Shuts
    <2>3. /\ Shuts(functors)' => Shuts(<<>>)
          /\ Shuts(batch)' => Shuts(functors)
      BY Zenon, <2>1 DEF Shuts
    <2>4. StopMeansClosing'
      BY Zenon, <2>1, <2>2, <2>3, StopKept
    <2>5. QED
      BY Zenon, <2>1, <2>2, <2>4, QuietStep
  <1>6. CASE \E m \in OtherMessages : OtherSend(m)
    <2>1. /\ UNCHANGED <<socket, outBuf, fin, writing, reading, m_state, inBuf, toSend, aborted>>
          /\ UNCHANGED <<peer, functors, batch, stopper>> /\ sender' \in OtherMessages
      BY Zenon, <1>6 DEF OtherSend, buffers, loopVars
    <2>2. StopMeansClosing'
      BY Zenon, <2>1, StopKept DEF Shuts
    <2>3. QED
      BY Zenon, <2>1, <2>2, QuietStep
  <1>7. CASE OtherQueues
    <2>1. /\ UNCHANGED <<socket, outBuf, fin, writing, reading, m_state, inBuf, toSend, aborted>>
          /\ UNCHANGED <<peer, batch, stopper>> /\ sender # Nobody /\ sender' = Nobody
          /\ functors' = Append(functors, Functor("sendInLoop", Frame(sender)))
      BY Zenon, <1>7 DEF OtherQueues, buffers, loopVars
    <2>2. Frame(sender) \in Frames
      BY Zenon, <2>1, MessagesAssumption DEF Frames
    <2>3. PICK q, f : q = functors /\ f = Functor("sendInLoop", Frame(sender))
      OBVIOUS
    <2>4. q \in Seq(Functors) /\ f \in Functors /\ f.name # "shutdownInLoop"
      BY Zenon, <2>2, <2>3, FunctorTyped
    <2>5. PICK r : r = Append(q, f)
      OBVIOUS
    <2>6. r \in Seq(Functors) /\ (Shuts(r) => Shuts(q))
      BY Zenon, <2>4, <2>5, FunctorQueued
    <2>7. functors' = r
      BY Zenon, <2>1, <2>3, <2>5
    <2>8. (Shuts(functors)' => Shuts(functors)) /\ (Shuts(batch)' => Shuts(batch))
      BY Zenon, <2>1, <2>3, <2>6, <2>7 DEF Shuts
    <2>9. StopMeansClosing'
      BY Zenon, <2>1, <2>8, StopKept
    <2>10. QED
      BY Zenon, <2>1, <2>6, <2>7, <2>9, QuietStep
  <1>8. CASE shutdown
    <2>1. /\ UNCHANGED <<socket, outBuf, fin, writing, reading, m_state, inBuf, toSend, aborted>>
          /\ UNCHANGED <<peer, functors, batch, sender>> /\ stopper' = "tested"
      BY Zenon, <1>8 DEF shutdown, buffers, loopVars
    <2>2. stopper' # "set"
      BY <2>1
    <2>3. StopMeansClosing'
      BY Zenon, <2>1, <2>2, StopKept DEF Shuts
    <2>4. QED
      BY Zenon, <2>1, <2>3, QuietStep
  <1>9. CASE ShutdownSets
    <2>1. /\ UNCHANGED <<socket, outBuf, fin, writing, reading, inBuf, toSend, aborted>>
          /\ UNCHANGED <<peer, functors, batch, sender>> /\ m_state' = "kDisconnecting"
      BY Zenon, <1>9 DEF ShutdownSets, buffers, loopVars
    <2>2. m_state' # "kConnected" /\ m_state' \in {"kConnected", "kDisconnecting", "kDisconnected"}
      BY <2>1
    <2>3. StopMeansClosing'
      BY Zenon, <2>2 DEF StopMeansClosing
    <2>4. QED
      BY Zenon, <2>1, <2>2, <2>3, QuietStep
  <1>10. CASE ShutdownQueues
    <2>1. /\ UNCHANGED <<socket, outBuf, fin, writing, reading, m_state, inBuf, toSend, aborted>>
          /\ UNCHANGED <<peer, batch, sender>> /\ stopper = "set"
          /\ functors' = Append(functors, Functor("shutdownInLoop", <<>>))
      BY Zenon, <1>10 DEF ShutdownQueues, buffers, loopVars
    <2>2. PICK q, f, r : /\ q = functors /\ f = Functor("shutdownInLoop", <<>>)
                         /\ r = Append(q, f)
      OBVIOUS
    <2>3. q \in Seq(Functors) /\ f \in Functors
      BY Zenon, <2>2, FunctorTyped
    <2>4. r \in Seq(Functors)
      BY Zenon, <2>2, <2>3, FunctorQueued
    <2>5. functors' \in Seq(Functors)
      BY Zenon, <2>1, <2>2, <2>4
    <2>6. StopMeansClosing'
      BY Zenon, <2>1, StopKept
    <2>7. QED
      BY Zenon, <2>1, <2>5, <2>6, QuietStep
  <1>11. CASE PeerEnds
    <2>1. /\ UNCHANGED <<socket, outBuf, fin, writing, reading, m_state, inBuf, toSend, aborted>>
          /\ UNCHANGED <<functors, batch, sender, stopper>> /\ peer = "open"
      BY Zenon, <1>11 DEF PeerEnds, buffers, loopVars, otherVars
    <2>2. peer # "reset"
      BY <2>1
    <2>3. StopMeansClosing'
      BY Zenon, <2>1, StopKept DEF Shuts
    <2>4. QED
      BY Zenon, <2>1, <2>2, <2>3, QuietStep
  <1>12. CASE UNCHANGED vars
    <2>1. /\ UNCHANGED <<socket, outBuf, fin, writing, reading, m_state, inBuf, toSend, aborted>>
          /\ UNCHANGED <<peer, functors, batch, sender, stopper>>
      BY Zenon, <1>12 DEF vars
    <2>2. StopMeansClosing'
      BY Zenon, <2>1, StopKept DEF Shuts
    <2>3. QED
      BY Zenon, <2>1, <2>2, QuietStep
  <1>13. QED
    BY Zenon, <1>1, <1>2, <1>3, <1>4, <1>5, <1>6, <1>7, <1>8, <1>9, <1>10, <1>11, <1>12

\* A step of the loop that is done with the output, put together.
LEMMA OutputStep ==
    ASSUME StreamInv,
           m_state' \in {"kConnected", "kDisconnecting", "kDisconnected"},
           m_state # "kConnected" => m_state' # "kConnected",
           inBuf' \in Buffers, outBuf' \in Buffers, toSend' \in Seq(Byte), socket' \in Seq(Byte),
           writing' \in BOOLEAN, reading' \in BOOLEAN, fin' \in BOOLEAN,
           batch' \in Seq(Functors), Shuts(batch)' => Shuts(batch),
           UNCHANGED <<functors, sender, stopper, aborted>>,
           WritingHasBytes', IdleIsEmpty', FinIsLast'
    PROVE  StreamInv'
  <1>1. Shuts(functors)' => Shuts(functors)
    BY Zenon DEF Shuts
  <1>2. StopMeansClosing'
    BY Zenon, <1>1, StopKept
  <1>3. StreamTyped'
    BY Zenon, InvParts DEF StreamTyped
  <1>4. QED
    BY Zenon, <1>2, <1>3 DEF StreamInv

\* A hangup closes the connection: what was accepted stays as it was.
LEMMA HandleHupSteps ==
    ASSUME StreamInv, HandleHup
    PROVE  StreamInv' /\ [Stream!Next]_Stream!abstractVars
  <1> USE InvParts
  <1>1. /\ UNCHANGED <<socket, outBuf, fin, inBuf, toSend, aborted>>
        /\ UNCHANGED <<peer, functors, batch, sender, stopper>> /\ handleClose
    BY Zenon DEF HandleHup, buffers, otherVars
  <1>2. Shuts(batch)' => Shuts(batch)
    BY Zenon, <1>1 DEF Shuts
  <1>3. QED
    BY Zenon, <1>1, <1>2, HandleCloseSteps, OutputStep

\* handleRead fills the input buffer or closes; the output is not touched.
LEMMA HandleReadSteps ==
    ASSUME StreamInv, HandleRead
    PROVE  StreamInv' /\ [Stream!Next]_Stream!abstractVars
  <1> USE InvParts
  <1>1. /\ UNCHANGED <<socket, outBuf, fin, aborted>>
        /\ UNCHANGED <<peer, functors, batch, sender, stopper>>
    BY Zenon DEF HandleRead, otherVars
  <1>2. Shuts(batch)' => Shuts(batch)
    BY Zenon, <1>1 DEF Shuts
  <1>3. CASE handleClose /\ UNCHANGED <<inBuf, toSend, pc>>
    BY Zenon, <1>1, <1>2, <1>3, HandleCloseSteps, OutputStep
  <1>4. CASE /\ \E k \in Moved(IF Len(toSend) < Capacity(inBuf) THEN Len(toSend)
                                ELSE Capacity(inBuf)) :
                  /\ inBuf' = readFd(inBuf, SubSeq(toSend, 1, k))
                  /\ toSend' = SubSeq(toSend, k + 1, Len(toSend))
             /\ UNCHANGED <<m_state, writing, reading>>
    <2>1. PICK k \in Moved(IF Len(toSend) < Capacity(inBuf) THEN Len(toSend)
                           ELSE Capacity(inBuf)) :
                  /\ inBuf' = readFd(inBuf, SubSeq(toSend, 1, k))
                  /\ toSend' = SubSeq(toSend, k + 1, Len(toSend))
      BY Zenon, <1>4
    <2>2. PICK t : t = toSend
      OBVIOUS
    <2>3. t \in Seq(Byte) /\ k \in 0..Len(t)
      BY Zenon, <2>2, ReadTaken
    <2>4. SubSeq(t, 1, k) \in Seq(Byte) /\ SubSeq(t, k + 1, Len(t)) \in Seq(Byte)
      BY SMT, <2>3
    <2>5. inBuf' \in Buffers /\ toSend' \in Seq(Byte)
      BY Zenon, <2>1, <2>2, <2>4, BufferReads
    <2>6. StopMeansClosing'
      BY Zenon, <1>1, <1>4, StopKept DEF Shuts
    <2>7. QED
      BY Zenon, <1>1, <1>4, <2>5, <2>6, QuietStep
  <1>5. QED
    BY Zenon, <1>3, <1>4 DEF HandleRead

\* handleWrite moves the first bytes of the queue to the socket, and with the
\* last of them ends a stream that is being shut down.
LEMMA HandleWriteSteps ==
    ASSUME StreamInv, HandleWrite
    PROVE  StreamInv' /\ [Stream!Next]_Stream!abstractVars
  <1> USE InvParts
  <1>1. /\ UNCHANGED <<inBuf, toSend, aborted>>
        /\ UNCHANGED <<peer, functors, batch, sender, stopper>>
    BY Zenon DEF HandleWrite, otherVars
  <1>2. Shuts(batch)' => Shuts(batch)
    BY Zenon, <1>1 DEF Shuts
  <1>3. CASE UNCHANGED <<socket, outBuf, writing, reading, fin, m_state>>
    <2>1. StopMeansClosing'
      BY Zenon, <1>1, <1>3, StopKept DEF Shuts
    <2>2. QED
      BY Zenon, <1>1, <1>3, <2>1, QuietStep
  <1>4. CASE handleClose /\ UNCHANGED <<socket, outBuf, fin>>
    BY Zenon, <1>1, <1>2, <1>4, HandleCloseSteps, OutputStep
  <1>5. CASE /\ writing /\ ~Unwritable
             /\ \E k \in Moved(readableBytes(outBuf)) :
                  /\ socket' = socket \o SubSeq(Contents(outBuf), 1, k)
                  /\ outBuf' = retrieve(outBuf, k)
                  /\ Drained(outBuf')
             /\ UNCHANGED <<m_state, reading>>
    <2>1. PICK k \in Moved(readableBytes(outBuf)) :
                  /\ socket' = socket \o SubSeq(Contents(outBuf), 1, k)
                  /\ outBuf' = retrieve(outBuf, k)
                  /\ Drained(outBuf')
      BY Zenon, <1>5
    <2>2. PICK q, sent, rest, b2, d2 :
                  /\ q = Contents(outBuf) /\ sent = SubSeq(q, 1, k)
                  /\ rest = SubSeq(q, k + 1, Len(q)) /\ b2 = retrieve(outBuf, k)
                  /\ d2 = socket \o sent
      OBVIOUS
    <2>3. q \in Seq(Byte) /\ q # <<>> /\ Len(q) = readableBytes(outBuf)
      BY Zenon, <2>2, <1>5, BufferContents DEF WritingHasBytes
    <2>4. k \in 0..Len(q) /\ k > 0
      <3>1. k \in Moved(Len(q))
        BY Zenon, <2>3
      <3>2. Len(q) \in Nat /\ Len(q) > 0
        BY SMT, <2>3
      <3>3. QED
        BY SMT, <3>1, <3>2, StreamAssumption DEF Moved
    <2>5. sent \in Seq(Byte) /\ rest \in Seq(Byte) /\ Len(sent) = k
      BY SMT, <2>2, <2>3, <2>4
    <2>6. sent \o rest = q
      BY Zenon, <2>2, <2>3, <2>4, CutJoin
    <2>7. b2 \in Buffers /\ Contents(b2) = rest
      BY Zenon, <2>2, <2>4, Retrieved
    <2>8. socket' = d2 /\ outBuf' = b2 /\ Contents(outBuf)' = rest
      BY Zenon, <2>1, <2>2, <2>7 DEF Contents
    <2>9. d2 \in Seq(Byte) /\ Len(d2) = Len(socket) + Len(sent)
      BY Zenon, <2>2, <2>5, Joined
    <2>10. Len(socket) < Len(d2)
      <3>1. Len(socket) \in Nat
        OBVIOUS
      <3>2. k \in Nat
        BY SMT, <2>3, <2>4
      <3>3. QED
        BY SMT, <3>1, <3>2, <2>4, <2>5, <2>9
    <2>11. d2 \o rest = socket \o Contents(outBuf)
      <3>1. (socket \o sent) \o rest = socket \o (sent \o rest)
        BY Zenon, <2>5, Associative
      <3>2. QED
        BY Zenon, <3>1, <2>2, <2>6
    <2>12. readableBytes(b2) = 0 <=> rest = <<>>
      BY Zenon, <2>7, EmptyBuffer
    <2>13. ~fin
      BY Zenon, <1>5 DEF Unwritable
    <2>14. /\ writing' \in BOOLEAN /\ (writing' <=> rest # <<>>)
           /\ fin' \in BOOLEAN /\ (fin' <=> rest = <<>> /\ m_state = "kDisconnecting")
      BY Zenon, <2>1, <2>8, <2>12, <2>13 DEF Drained
    <2>15. UNCHANGED <<m_state, gone>>
      BY Zenon, <1>1, <1>5 DEF gone
    <2>16. fin' = TRUE => m_state # "kConnected" /\ rest = <<>>
      <3>1. m_state = "kDisconnecting" => m_state # "kConnected"
        OBVIOUS
      <3>2. QED
        BY Zenon, <3>1, <2>14
    <2>17. Stream!Next
      BY Zenon, <2>5, <2>8, <2>9, <2>10, <2>11, <2>13, <2>14, <2>15, <2>16, DeliverStep
    <2>18. WritingHasBytes' /\ IdleIsEmpty' /\ FinIsLast'
      BY Zenon, <2>8, <2>14, <2>15, <2>16 DEF WritingHasBytes, IdleIsEmpty, FinIsLast
    <2>19. StreamInv'
      BY Zenon, <1>1, <1>2, <1>5, <2>7, <2>8, <2>9, <2>14, <2>18, OutputStep
    <2>20. QED
      BY Zenon, <2>17, <2>19
  <1>6. QED
    BY Zenon, <1>3, <1>4, <1>5 DEF HandleWrite

\* What onRead does with what process() made of a package.
ReadAs(r) ==
  \/ /\ r.ok /\ processed' = Append(processed, r.msg)
     /\ send(Answer(r.msg)) /\ pc' = AfterPackage /\ UNCHANGED <<m_state, functors>>
  \/ /\ ~r.ok /\ forceClose /\ pc' = "events"
     /\ UNCHANGED <<processed, socket, outBuf, writing>>

LEMMA PackageRead ==
    ASSUME onReadPackage
    PROVE  \E r \in Readings(Body) : ReadAs(r)
  BY Zenon DEF onReadPackage, ReadAs

\* A package that was cut out is answered, or makes the session close.
LEMMA OnReadPackageSteps ==
    ASSUME StreamInv, onReadPackage
    PROVE  StreamInv' /\ [Stream!Next]_Stream!abstractVars
  <1> USE InvParts
  <1>1. /\ UNCHANGED <<toSend, aborted, reading, fin>>
        /\ UNCHANGED <<peer, batch, sender, stopper>>
        /\ inBuf' = Package
        /\ Len(Waiting) >= HeaderSize /\ Complete /\ originsize >= 0
    BY Zenon DEF onReadPackage, otherVars
  <1>2. Shuts(batch)' => Shuts(batch)
    BY Zenon, <1>1 DEF Shuts
  <1>3. inBuf' \in Buffers /\ Body \in Seq(Byte)
    BY Zenon, <1>1, PackageCut
  <1>0. PICK r \in Readings(Body) : ReadAs(r)
    BY Zenon, PackageRead
  <1>4. CASE r.ok /\ send(Answer(r.msg)) /\ UNCHANGED <<m_state, functors>>
    <2>1. PICK data : data = Frame(Answer(r.msg))
      OBVIOUS
    <2>2. data \in Frames
      BY Zenon, <2>1, <1>3, <1>4, AnswerTyped DEF Frames
    <2>3. CASE sendInLoop(data)
      <3>1. /\ [Stream!Next]_Stream!abstractVars
            /\ outBuf' \in Buffers /\ socket' \in Seq(Byte) /\ writing' \in BOOLEAN
            /\ WritingHasBytes' /\ IdleIsEmpty' /\ FinIsLast'
        BY Zenon, <2>2, <2>3, <1>1, <1>4, SendInLoopSteps
      <3>2. QED
        BY Zenon, <3>1, <1>1, <1>2, <1>3, <1>4, OutputStep
    <2>4. CASE UNCHANGED <<socket, outBuf, writing>>
      <3>1. StopMeansClosing'
        BY Zenon, <1>1, <1>4, StopKept DEF Shuts
      <3>2. QED
        BY Zenon, <3>1, <2>4, <1>1, <1>3, <1>4, QuietStep
    <2>5. QED
      BY Zenon, <2>1, <2>3, <2>4, <1>4 DEF send
  <1>5. CASE forceClose /\ UNCHANGED <<socket, outBuf, writing>>
    <2>1. /\ m_state' \in {"kConnected", "kDisconnecting", "kDisconnected"}
          /\ m_state # "kConnected" => m_state' # "kConnected"
          /\ functors' \in Seq(Functors)
          /\ Shuts(functors)' => Shuts(functors)
      BY Zenon, <1>5, ForceCloseSteps
    <2>2. StopMeansClosing'
      BY Zenon, <1>1, <1>2, <2>1, StopKept
    <2>3. QED
      BY Zenon, <1>1, <1>3, <1>5, <2>1, <2>2, QuietStep
  <1>6. QED
    BY Zenon, <1>0, <1>4, <1>5 DEF ReadAs

\* What doOtherTasks runs: a queued send, the end of the stream, or a close.
LEMMA RunTaskSteps ==
    ASSUME StreamInv, RunTask
    PROVE  StreamInv' /\ [Stream!Next]_Stream!abstractVars
  <1> USE InvParts
  <1>1. /\ UNCHANGED <<toSend, aborted, inBuf>>
        /\ UNCHANGED <<peer, functors, sender, stopper>>
        /\ batch # <<>> /\ batch' = Tail(batch)
    BY Zenon DEF RunTask, otherVars
  <1>2. PICK q, f : q = batch /\ f = Head(batch)
    OBVIOUS
  <1>3. /\ f \in Functors /\ Tail(q) \in Seq(Functors)
        /\ Shuts(Tail(q)) => Shuts(q)
        /\ f.name = "shutdownInLoop" => Shuts(q)
    BY Zenon, <1>1, <1>2, FunctorTaken
  <1>4. /\ batch' \in Seq(Functors)
        /\ Shuts(batch)' => Shuts(batch)
    BY Zenon, <1>1, <1>2, <1>3 DEF Shuts
  <1>5. CASE /\ f.name = "sendInLoop" /\ sendInLoop(f.data)
             /\ UNCHANGED <<m_state, reading, fin>>
    <2>1. f.data \in Frames
      BY <1>3, <1>5 DEF Functors
    <2>2. PICK data : data = f.data
      OBVIOUS
    <2>3. data \in Frames /\ sendInLoop(data)
      BY Zenon, <2>1, <2>2, <1>5
    <2>4. /\ [Stream!Next]_Stream!abstractVars
          /\ outBuf' \in Buffers /\ socket' \in Seq(Byte) /\ writing' \in BOOLEAN
          /\ WritingHasBytes' /\ IdleIsEmpty' /\ FinIsLast'
      BY Zenon, <2>3, <1>1, <1>5, SendInLoopSteps
    <2>5. QED
      BY Zenon, <2>4, <1>1, <1>4, <1>5, OutputStep
  <1>6. CASE /\ f.name = "shutdownInLoop" /\ shutdownInLoop
             /\ UNCHANGED <<m_state, reading, socket, outBuf, writing>>
    <2>1. m_state # "kConnected"
      BY Zenon, <1>2, <1>3, <1>6 DEF StopMeansClosing
    <2>2. fin' \in BOOLEAN /\ (fin' <=> fin \/ (~writing /\ peer # "reset"))
      BY Zenon, <1>6 DEF shutdownInLoop
    <2>3. Contents(outBuf)' = Contents(outBuf)
      BY Zenon, <1>6 DEF Contents
    <2>4. FinIsLast'
      BY Zenon, <1>6, <2>1, <2>2 DEF FinIsLast
    <2>5. WritingHasBytes' /\ IdleIsEmpty'
      BY Zenon, <1>6, <2>3 DEF WritingHasBytes, IdleIsEmpty
    <2>6. StreamInv'
      BY Zenon, <1>1, <1>4, <1>6, <2>2, <2>4, <2>5, OutputStep
    <2>7. UNCHANGED <<m_state, gone>>
      BY Zenon, <1>1, <1>6 DEF gone
    <2>8. CASE fin' = fin
      BY Zenon, <2>6, <2>7, <2>8, <1>6, EndStep
    <2>9. CASE ~fin /\ fin'
      <3>1. ~writing /\ fin' = TRUE
        BY Zenon, <2>2, <2>9
      <3>2. Contents(outBuf) = <<>> \/ gone
        BY Zenon, <3>1 DEF IdleIsEmpty, gone
      <3>3. Stream!Fin
        BY Zenon, <3>1, <3>2, <2>1, <2>3, <2>7, <2>9, <1>6 DEF Stream!Fin
      <3>4. QED
        BY Zenon, <3>3, <2>6 DEF Stream!Next
    <2>10. QED
      BY Zenon, <2>2, <2>6, <2>8, <2>9
  <1>7. CASE handleClose /\ UNCHANGED <<socket, outBuf, fin>>
    BY Zenon, <1>1, <1>4, <1>7, HandleCloseSteps, OutputStep
  <1>8. QED
    BY Zenon, <1>2, <1>5, <1>6, <1>7 DEF RunTask

\* A new connection: empty buffers, nothing sent, nobody asking to stop.
LEMMA InitStream == Init => StreamInv /\ Stream!Init
  <1> SUFFICES ASSUME Init
               PROVE  StreamInv /\ Stream!Init
    OBVIOUS
  <1>1. /\ inBuf = NewBuffer /\ outBuf = NewBuffer /\ socket = <<>>
        /\ functors = <<>> /\ batch = <<>> /\ toSend = Concat(script) /\ script \in Scripts
        /\ sender = Nobody
    BY Zenon DEF Init
  <1>2. inBuf \in Buffers /\ outBuf \in Buffers /\ Contents(outBuf) = <<>>
    BY Zenon, <1>1, NewEmpty
  <1>3. toSend \in Seq(Byte)
    BY Zenon, <1>1, StreamTypedOf
  <1>4. <<>> \in Seq(Byte) /\ <<>> \in Seq(Functors) /\ ~Shuts(<<>>)
    BY SMT DEF Shuts
  <1>5. /\ m_state = "kConnected" /\ writing = FALSE /\ reading = TRUE /\ fin = FALSE
        /\ aborted = FALSE /\ peer = "open" /\ stopper = "idle"
    BY Zenon DEF Init
  <1>6. StreamTyped
    BY Zenon, <1>1, <1>2, <1>3, <1>4, <1>5 DEF StreamTyped
  <1>7. WritingHasBytes /\ IdleIsEmpty /\ FinIsLast
    BY Zenon, <1>2, <1>5 DEF WritingHasBytes, IdleIsEmpty, FinIsLast
  <1>8. stopper # "set" /\ peer # "reset"
    BY <1>5
  <1>9. StopMeansClosing
    BY Zenon, <1>1, <1>4, <1>8 DEF StopMeansClosing
  <1>10. gone = FALSE /\ (m_state # "kConnected") = FALSE
    BY Zenon, <1>5, <1>8 DEF gone
  <1>11. Stream!Init
    BY Zenon, <1>1, <1>2, <1>5, <1>10 DEF Stream!Init
  <1>12. QED
    BY Zenon, <1>6, <1>7, <1>9, <1>11 DEF StreamInv

\* Every step of the connection keeps the invariant and is a step of the stream.
LEMMA StreamStep == StreamInv /\ [Next]_vars => StreamInv' /\ [Stream!Next]_Stream!abstractVars
  <1> SUFFICES ASSUME StreamInv, [Next]_vars
               PROVE  StreamInv' /\ [Stream!Next]_Stream!abstractVars
    OBVIOUS
  <1>1. CASE HandleHup
    BY Zenon, <1>1, HandleHupSteps
  <1>2. CASE HandleRead
    BY Zenon, <1>2, HandleReadSteps
  <1>3. CASE HandleWrite
    BY Zenon, <1>3, HandleWriteSteps
  <1>4. CASE onReadPackage
    BY Zenon, <1>4, OnReadPackageSteps
  <1>5. CASE RunTask
    BY Zenon, <1>5, RunTaskSteps
  <1>6. CASE \/ Poll \/ onReadWaits \/ onReadRefusesHeader \/ onReadThrows \/ BeginTasks
             \/ (\E m \in OtherMessages : OtherSend(m)) \/ OtherQueues
             \/ shutdown \/ ShutdownSets \/ ShutdownQueues \/ PeerEnds \/ UNCHANGED vars
    BY Zenon, <1>6, QuietActions
  <1>7. QED
    BY Zenon, <1>1, <1>2, <1>3, <1>4, <1>5, <1>6 DEF Next, Loop

\* TcpConnection's sending side is an ordered stream of whole messages, whatever
\* the threads, the buffer sizes and the pieces the kernel takes: sendInLoop
\* appends a frame as a whole, handleWrite and a direct write move a prefix of
\* what was accepted to the socket, nothing is written after shutdownWrite, and
\* shutdownWrite comes when everything accepted is out or the connection broken.
THEOREM StreamImplements == Spec => Stream!Init /\ [][Stream!Next]_Stream!abstractVars
  <1>1. Init => StreamInv /\ Stream!Init
    BY InitStream
  <1>2. StreamInv /\ [Next]_vars => StreamInv' /\ [Stream!Next]_Stream!abstractVars
    BY StreamStep
  <1>3. QED
    BY <1>1, <1>2, PTL DEF Spec

(***************************************************************************)
(* The receiving side                                                      *)
(***************************************************************************)
\* What onRead has taken, what waits in the buffer and what is still to be read
\* are together what the client sends.
InputInv == \E taken \in Seq(Byte) : taken \o (Waiting \o toSend) = Concat(script)

\* Bytes taken from the front of those that wait go behind the ones taken before.
LEMMA TakenMore ==
    ASSUME NEW taken \in Seq(Byte), NEW w \in Seq(Byte), NEW t \in Seq(Byte), NEW k \in 0..Len(w)
    PROVE  \E more \in Seq(Byte) :
             more \o (SubSeq(w, k + 1, Len(w)) \o t) = taken \o (w \o t)
  <1>1. PICK x, y : x = SubSeq(w, 1, k) /\ y = SubSeq(w, k + 1, Len(w))
    OBVIOUS
  <1>2. x \in Seq(Byte) /\ y \in Seq(Byte)
    BY SMT, <1>1
  <1>3. x \o y = w
    BY Zenon, <1>1, CutJoin
  <1>4. y \o t \in Seq(Byte) /\ taken \o x \in Seq(Byte)
    BY Zenon, <1>2, Joined
  <1>5. (x \o y) \o t = x \o (y \o t)
    BY ZenonT(40), <1>2, Associative
  <1>6. (taken \o x) \o (y \o t) = taken \o (x \o (y \o t))
    BY ZenonT(40), <1>2, <1>4, Associative
  <1>7. (taken \o x) \o (y \o t) = taken \o (w \o t)
    BY Zenon, <1>3, <1>5, <1>6
  <1>8. QED
    BY Zenon, <1>1, <1>4, <1>7

\* Bytes that are read go from the front of the stream to the end of the buffer.
LEMMA ReadMoves ==
    ASSUME NEW w \in Seq(Byte), NEW t \in Seq(Byte), NEW k \in 0..Len(t)
    PROVE  (w \o SubSeq(t, 1, k)) \o SubSeq(t, k + 1, Len(t)) = w \o t
  <1>1. PICK x, y : x = SubSeq(t, 1, k) /\ y = SubSeq(t, k + 1, Len(t))
    OBVIOUS
  <1>2. x \in Seq(Byte) /\ y \in Seq(Byte)
    BY SMT, <1>1
  <1>3. x \o y = t
    BY Zenon, <1>1, CutJoin
  <1>4. (w \o x) \o y = w \o (x \o y)
    BY Zenon, <1>2, Associative
  <1>5. QED
    BY Zenon, <1>1, <1>3, <1>4

\* A step that touches neither the buffer nor the bytes to be read.
LEMMA InputUntouched ==
    ASSUME InputInv, UNCHANGED <<script, toSend, inBuf>>
    PROVE  InputInv'
  <1>1. Waiting' = Waiting
    BY Zenon DEF Waiting, Contents
  <1>2. Concat(script)' = Concat(script)
    BY Zenon DEF Concat
  <1>3. QED
    BY Zenon, <1>1, <1>2 DEF InputInv

\* A step that takes bytes from the front of the buffer.
LEMMA InputTaken ==
    ASSUME StreamInv, InputInv, UNCHANGED <<script, toSend>>,
           NEW k \in 0..Len(Waiting), Waiting' = SubSeq(Waiting, k + 1, Len(Waiting))
    PROVE  InputInv'
  <1>1. Waiting \in Seq(Byte) /\ toSend \in Seq(Byte)
    BY Zenon, InvParts, BufferContents DEF Waiting
  <1>2. PICK taken \in Seq(Byte) : taken \o (Waiting \o toSend) = Concat(script)
    BY Zenon DEF InputInv
  <1>3. \E more \in Seq(Byte) :
          more \o (SubSeq(Waiting, k + 1, Len(Waiting)) \o toSend) = taken \o (Waiting \o toSend)
    BY Zenon, <1>1, TakenMore
  <1>4. Concat(script)' = Concat(script)
    BY Zenon DEF Concat
  <1>5. QED
    BY Zenon, <1>2, <1>3, <1>4 DEF InputInv

\* Every step of the connection keeps the client's bytes together.
LEMMA InputStep ==
    ASSUME StreamInv, InputInv, [Next]_vars
    PROVE  InputInv'
  <1> USE InvParts
  <1>1. CASE HandleRead
    <2>1. script' = script /\ Concat(script)' = Concat(script)
      BY Zenon, <1>1 DEF HandleRead, Concat
    <2>2. CASE UNCHANGED <<inBuf, toSend>>
      BY Zenon, <2>1, <2>2, InputUntouched
    <2>3. CASE \E k \in Moved(IF Len(toSend) < Capacity(inBuf) THEN Len(toSend)
                              ELSE Capacity(inBuf)) :
                  /\ inBuf' = readFd(inBuf, SubSeq(toSend, 1, k))
                  /\ toSend' = SubSeq(toSend, k + 1, Len(toSend))
      <3>1. PICK k \in Moved(IF Len(toSend) < Capacity(inBuf) THEN Len(toSend)
                             ELSE Capacity(inBuf)) :
                  /\ inBuf' = readFd(inBuf, SubSeq(toSend, 1, k))
                  /\ toSend' = SubSeq(toSend, k + 1, Len(toSend))
        BY Zenon, <2>3
      <3>2. PICK t, w, d : t = toSend /\ w = Contents(inBuf) /\ d = SubSeq(t, 1, k)
        OBVIOUS
      <3>3. t \in Seq(Byte) /\ k \in 0..Len(t) /\ w \in Seq(Byte)
        BY Zenon, <3>2, ReadTaken, BufferContents
      <3>4. d \in Seq(Byte)
        BY SMT, <3>2, <3>3
      <3>5. Contents(readFd(inBuf, d)) = w \o d
        BY Zenon, <3>2, <3>4, BufferReads
      <3>6. Waiting' = w \o d /\ toSend' = SubSeq(t, k + 1, Len(t))
        BY Zenon, <3>1, <3>2, <3>5 DEF Waiting, Contents
      <3>7. (w \o SubSeq(t, 1, k)) \o SubSeq(t, k + 1, Len(t)) = w \o t
        BY Zenon, <3>3, ReadMoves
      <3>8. Waiting' \o toSend' = Waiting \o toSend
        BY Zenon, <3>2, <3>6, <3>7 DEF Waiting
      <3>9. QED
        BY Zenon, <3>8, <2>1 DEF InputInv
    <2>4. QED
      BY Zenon, <1>1, <2>2, <2>3 DEF HandleRead
  <1>2. CASE onReadThrows
    <2>1. /\ UNCHANGED <<script, toSend>> /\ inBuf' = retrieve(inBuf, HeaderSize)
          /\ Len(Waiting) >= HeaderSize
      BY Zenon, <1>2 DEF onReadThrows
    <2>2. PICK n : n = Len(Waiting)
      OBVIOUS
    <2>3. n \in Nat
      BY Zenon, <2>2, BufferContents DEF Waiting
    <2>4. HeaderSize \in 0..n
      BY SMT, <2>1, <2>2, <2>3 DEF HeaderSize
    <2>5. Waiting' = SubSeq(Waiting, HeaderSize + 1, Len(Waiting))
      BY Zenon, <2>1, <2>2, <2>4, Retrieved DEF Waiting, Contents
    <2>6. QED
      BY Zenon, <2>1, <2>2, <2>4, <2>5, InputTaken
  <1>3. CASE onReadPackage
    <2>1. /\ UNCHANGED <<script, toSend>> /\ inBuf' = Package
          /\ Len(Waiting) >= HeaderSize /\ Complete /\ originsize >= 0
      BY Zenon, <1>3 DEF onReadPackage
    <2>2. PICK n, o : n = Len(Waiting) /\ o = HeaderSize + originsize
      OBVIOUS
    <2>3. n \in Nat /\ originsize \in Int
      BY Zenon, <2>1, <2>2, BufferContents, HeaderTyped DEF Waiting
    <2>4. o \in 0..n
      <3>1. originsize + HeaderSize <= n
        BY Zenon, <2>1, <2>2 DEF Complete
      <3>2. PICK z : z = originsize
        OBVIOUS
      <3>3. z \in Int /\ z >= 0 /\ z + HeaderSize <= n /\ o = HeaderSize + z
        BY Zenon, <3>1, <3>2, <2>1, <2>2, <2>3
      <3>4. QED
        BY SMT, <3>3, <2>3 DEF HeaderSize
    <2>5. Waiting' = Contents(Package)
      BY Zenon, <2>1 DEF Waiting, Contents
    <2>6. Waiting' = SubSeq(Waiting, o + 1, Len(Waiting))
      BY Zenon, <2>1, <2>2, <2>5, PackageCut
    <2>7. QED
      BY Zenon, <2>1, <2>2, <2>4, <2>6, InputTaken
  <1>4. CASE UNCHANGED <<script, toSend, inBuf>>
    BY Zenon, <1>4, InputUntouched
  <1>5. CASE HandleHup \/ HandleWrite \/ RunTask \/ BeginTasks \/ onReadWaits \/ onReadRefusesHeader
    BY Zenon, <1>4, <1>5 DEF HandleHup, HandleWrite, RunTask, BeginTasks, onReadWaits,
                             onReadRefusesHeader, buffers
  <1>6. CASE Poll \/ OtherQueues \/ shutdown \/ ShutdownSets \/ ShutdownQueues \/ PeerEnds
             \/ \E m \in OtherMessages : OtherSend(m)
    BY Zenon, <1>4, <1>6 DEF Poll, Polled, OtherQueues, shutdown, ShutdownSets, ShutdownQueues,
                             PeerEnds, OtherSend, buffers
  <1>7. CASE UNCHANGED vars
    BY Zenon, <1>4, <1>7 DEF vars
  <1>8. QED
    BY Zenon, <1>1, <1>2, <1>3, <1>5, <1>6, <1>7 DEF Next, Loop

\* The invariant gives the property: what is left is the end of the whole.
LEMMA InputRest ==
    ASSUME StreamInv, InputInv
    PROVE  InputIntact
  <1>1. PICK w, t, all : w = Waiting /\ t = toSend /\ all = Concat(script)
    OBVIOUS
  <1>2. w \in Seq(Byte) /\ t \in Seq(Byte)
    BY Zenon, <1>1, InvParts, BufferContents DEF Waiting
  <1>3. PICK a : a = w \o t
    OBVIOUS
  <1>4. a \in Seq(Byte)
    BY Zenon, <1>2, <1>3, Joined
  <1>5. PICK taken \in Seq(Byte) : taken \o a = all
    BY Zenon, <1>1, <1>3 DEF InputInv
  <1>6. /\ SubSeq(all, Len(taken) + 1, Len(all)) = a
        /\ Len(all) = Len(taken) + Len(a)
    BY Zenon, <1>4, <1>5, JoinCut, Joined
  <1>7. PICK m, n, l : m = Len(taken) /\ n = Len(a) /\ l = Len(all)
    OBVIOUS
  <1>8. m \in Nat /\ n \in Nat
    BY SMT, <1>4, <1>7
  <1>9. m = l - n
    BY SMT, <1>6, <1>7, <1>8
  <1>10. a = SubSeq(all, Len(all) - Len(a) + 1, Len(all))
    BY Zenon, <1>6, <1>7, <1>9
  <1>11. QED
    BY Zenon, <1>1, <1>3, <1>10 DEF InputIntact

\* Nothing is taken from a new connection.
LEMMA InitInput == Init => InputInv
  <1> SUFFICES ASSUME Init
               PROVE  InputInv
    OBVIOUS
  <1>1. inBuf = NewBuffer /\ toSend = Concat(script) /\ script \in Scripts
    BY Zenon DEF Init
  <1>2. Waiting = <<>>
    BY Zenon, <1>1, NewEmpty DEF Waiting
  <1>3. PICK t : t = toSend
    OBVIOUS
  <1>4. t \in Seq(Byte)
    BY Zenon, <1>1, <1>3, StreamTypedOf
  <1>5. <<>> \in Seq(Byte) /\ <<>> \o (<<>> \o t) = t
    BY SMT, <1>4
  <1>6. QED
    BY Zenon, <1>1, <1>2, <1>3, <1>5 DEF InputInv

\* Whatever the client sends, and however the kernel cuts it into reads, the
\* input buffer holds the next of its bytes and no others: handleRead appends
\* what readFd got, through extrabuf or not, and onRead only takes from the front.
THEOREM InputIsIntact == Spec => []InputIntact
  <1>1. Init => StreamInv /\ InputInv
    BY InitStream, InitInput
  <1>2. StreamInv /\ InputInv /\ [Next]_vars => StreamInv' /\ InputInv'
    BY StreamStep, InputStep
  <1>3. StreamInv /\ InputInv => InputIntact
    BY InputRest
  <1>4. QED
    BY <1>1, <1>2, <1>3, PTL DEF Spec

-----------------------------------------------------------------------------
(***************************************************************************)
(* The requests                                                            *)
(***************************************************************************)

\* The front of a joined string.
LEMMA Front ==
    ASSUME NEW w \in Seq(Byte), NEW t \in Seq(Byte), NEW i \in Nat, NEW j \in Nat,
           i <= j, j <= Len(w)
    PROVE  SubSeq(w \o t, i + 1, j) = SubSeq(w, i + 1, j)
  <1>1. PICK r, x, y : r = w \o t /\ x = SubSeq(r, i + 1, j) /\ y = SubSeq(w, i + 1, j)
    OBVIOUS
  <1>2. /\ r \in Seq(Byte) /\ Len(r) = Len(w) + Len(t)
        /\ \A k \in 1..Len(w) : r[k] = w[k]
    BY Zenon, <1>1, Joined
  <1>3. j <= Len(r)
    BY SMT, <1>2
  <1>4. /\ x \in Seq(Byte) /\ Len(x) = j - i
        /\ \A k \in 1..(j - i) : x[k] = r[i + k]
    BY Zenon, <1>1, <1>2, <1>3, Piece
  <1>5. /\ y \in Seq(Byte) /\ Len(y) = j - i
        /\ \A k \in 1..(j - i) : y[k] = w[i + k]
    BY Zenon, <1>1, Piece
  <1>6. ASSUME NEW k \in 1..(j - i) PROVE x[k] = y[k]
    <2>1. Len(w) \in Nat
      OBVIOUS
    <2>2. i + k \in 1..Len(w)
      BY SMT, <2>1
    <2>3. QED
      BY Zenon, <2>2, <1>2, <1>4, <1>5
  <1>7. x = y
    BY Zenon, <1>4, <1>5, <1>6, SameBytes
  <1>8. QED
    BY Zenon, <1>1, <1>7

\* The header is read from the first four bytes.
LEMMA SameHeader ==
    ASSUME NEW w \in Seq(Byte), NEW t \in Seq(Byte), Len(w) >= HeaderSize
    PROVE  FromHostOrder(w \o t) = FromHostOrder(w)
  <1>1. PICK r : r = w \o t
    OBVIOUS
  <1>2. \A k \in 1..Len(w) : r[k] = w[k]
    BY Zenon, <1>1, Joined
  <1>3. Len(w) \in Nat
    OBVIOUS
  <1>4. 1 \in 1..Len(w) /\ 2 \in 1..Len(w) /\ 3 \in 1..Len(w) /\ 4 \in 1..Len(w)
    BY SMT, <1>3 DEF HeaderSize
  <1>5. r[1] = w[1] /\ r[2] = w[2] /\ r[3] = w[3] /\ r[4] = w[4]
    BY Zenon, <1>2, <1>4
  <1>6. QED
    BY Zenon, <1>1, <1>5 DEF FromHostOrder

\* Behind the first n packages lie the bytes of the others.
LEMMA Ahead ==
    ASSUME NEW s \in Scripts, NEW n \in 0..Len(s), NEW a \in Seq(Byte),
           Concat(SubSeq(s, 1, n)) \o a = Concat(s)
    PROVE  a = Concat(SubSeq(s, n + 1, Len(s)))
  <1>1. PICK c, r, all : /\ c = Concat(SubSeq(s, 1, n)) /\ all = Concat(s)
                         /\ r = Concat(SubSeq(s, n + 1, Len(s)))
    OBVIOUS
  <1>2. c \in Seq(Byte) /\ r \in Seq(Byte) /\ all \in Seq(Byte) /\ c \o r = all
    BY Zenon, <1>1, Streams
  <1>3. c \o a = all
    BY Zenon, <1>1
  <1>4. r = SubSeq(all, Len(c) + 1, Len(all))
    BY Zenon, <1>2, SplitMade
  <1>5. a = SubSeq(all, Len(c) + 1, Len(all))
    BY Zenon, <1>2, <1>3, SplitMade
  <1>6. QED
    BY Zenon, <1>1, <1>4, <1>5

\* Behind the last package nothing waits.
LEMMA NothingNext ==
    ASSUME NEW s \in Scripts, NEW w \in Seq(Byte), NEW t \in Seq(Byte), Len(s) \in 0..Len(s),
           Concat(SubSeq(s, 1, Len(s))) \o (w \o t) = Concat(s)
    PROVE  ~(Len(w) >= HeaderSize)
  <1>1. PICK a : a = w \o t
    OBVIOUS
  <1>2. a \in Seq(Byte) /\ Len(a) = Len(w) + Len(t)
    BY Zenon, <1>1, Joined
  <1>3. a = Concat(SubSeq(s, Len(s) + 1, Len(s)))
    BY Zenon, <1>1, <1>2, Ahead
  <1>4. a = <<>>
    BY Zenon, <1>3, Streams
  <1>5. Len(a) = 0
    BY SMT, <1>4
  <1>6. Len(w) \in Nat /\ Len(t) \in Nat
    OBVIOUS
  <1>7. QED
    BY SMT, <1>2, <1>5, <1>6 DEF HeaderSize

\* In front of package n + 1 of the script s: w waits, t is still to be read.
Before(s, n, w, t) ==
  /\ s \in Scripts /\ n \in 0..Len(s) /\ n < Len(s)
  /\ w \in Seq(Byte) /\ t \in Seq(Byte)
  /\ Concat(SubSeq(s, 1, n)) \o (w \o t) = Concat(s)

\* A package whose length overruns the buffer is not one process() reads.
LEMMA OverrunRefused ==
    ASSUME NEW s, PackageOverruns(s)
    PROVE  ~ReadPackage(s).ok
  <1>1. Refused.ok = FALSE
    BY DEF Refused
  <1>2. ReadString(s, Reserved + 8) = Refused
    BY Zenon DEF PackageOverruns, ReadString
  <1>3. ReadPackage(s) = Refused
    BY Zenon, <1>1, <1>2 DEF ReadPackage
  <1>4. QED
    BY Zenon, <1>1, <1>3

\* Where a package is illegal, what onRead cuts out cannot be read, or overruns.
LEMMA IllegalNext ==
    ASSUME NEW s, NEW n, NEW w, NEW t, Before(s, n, w, t), ~s[n + 1].legal,
           Len(w) >= HeaderSize, NEW size, size = FromHostOrder(w),
           size \in Nat, size <= MAX_PACKAGE_SIZE, HeaderSize + size <= Len(w)
    PROVE  /\ ~ReadPackage(SubSeq(w, HeaderSize + 1, HeaderSize + size)).ok
           /\ PackageOverruns(SubSeq(w, HeaderSize + 1, HeaderSize + size))
                => StartsOverrun(Concat(SubSeq(s, n + 1, Len(s))))
  <1>0. /\ s \in Scripts /\ n \in 0..Len(s) /\ n < Len(s)
        /\ w \in Seq(Byte) /\ t \in Seq(Byte)
        /\ Concat(SubSeq(s, 1, n)) \o (w \o t) = Concat(s)
    BY Zenon DEF Before
  <1>1. PICK a : a = w \o t
    OBVIOUS
  <1>2. a \in Seq(Byte) /\ Len(a) = Len(w) + Len(t)
    BY Zenon, <1>0, <1>1, Joined
  <1>3. a = Concat(SubSeq(s, n + 1, Len(s)))
    BY Zenon, <1>0, <1>1, <1>2, Ahead
  <1>4. ~StartsLegal(a)
    <2>1. Len(s) \in Nat
      BY Zenon, <1>0, ScriptTyped
    <2>2. n + 1 \in 1..Len(s)
      BY SMT, <1>0, <2>1
    <2>3. QED
      BY Zenon, <1>0, <2>2, <1>3, ScriptsAssumption
  <1>5. FromHostOrder(a) = size
    BY Zenon, <1>0, <1>1, SameHeader
  <1>6. /\ Len(a) >= HeaderSize /\ 0 <= size /\ HeaderSize + size <= Len(a)
        /\ HeaderSize \in Nat /\ HeaderSize + size \in Nat /\ HeaderSize <= HeaderSize + size
    <2>1. PICK x, y, z : x = Len(w) /\ y = Len(t) /\ z = Len(a)
      OBVIOUS
    <2>2. x \in Nat /\ y \in Nat /\ z = x + y /\ x >= HeaderSize /\ HeaderSize + size <= x
      BY <2>1, <1>2
    <2>3. /\ z >= HeaderSize /\ 0 <= size /\ HeaderSize + size <= z
          /\ HeaderSize \in Nat /\ HeaderSize + size \in Nat /\ HeaderSize <= HeaderSize + size
      BY SMT, <1>0, <2>2 DEF HeaderSize
    <2>4. QED
      BY Zenon, <1>0, <2>1, <2>3
  <1>7. SubSeq(a, HeaderSize + 1, HeaderSize + size) = SubSeq(w, HeaderSize + 1, HeaderSize + size)
    BY ZenonT(60), <1>0, <1>1, <1>6, Front
  <1>8. StartsWhole(a) /\ FirstBody(a) = SubSeq(w, HeaderSize + 1, HeaderSize + size)
    BY Zenon, <1>5, <1>6, <1>7 DEF StartsWhole, FirstBody
  <1>9. QED
    BY Zenon, <1>3, <1>4, <1>8 DEF StartsLegal, StartsOverrun

\* A package of this size is the next one, and what follows it is left.
Takes(s, n, w, t, size) ==
  /\ ReadPackage(SubSeq(w, HeaderSize + 1, HeaderSize + size)).msg = s[n + 1].msg
  /\ ReadPackage(SubSeq(w, HeaderSize + 1, HeaderSize + size)).ok
  /\ Concat(SubSeq(s, 1, n + 1)) \o (SubSeq(w, HeaderSize + size + 1, Len(w)) \o t) = Concat(s)

\* Where a package is legal, onRead finds its length, and when it is whole cuts
\* out exactly it and reads its message.
LEMMA LegalNext ==
    ASSUME NEW s, NEW n, NEW w, NEW t, Before(s, n, w, t), s[n + 1].legal,
           Len(w) >= HeaderSize, NEW size, size = FromHostOrder(w)
    PROVE  /\ size \in Nat /\ size <= MAX_PACKAGE_SIZE
           /\ Len(s[n + 1].bytes) = HeaderSize + size
           /\ HeaderSize + size <= Len(w) => Takes(s, n, w, t, size)
  <1>0. /\ s \in Scripts /\ n \in 0..Len(s) /\ n < Len(s)
        /\ w \in Seq(Byte) /\ t \in Seq(Byte)
        /\ Concat(SubSeq(s, 1, n)) \o (w \o t) = Concat(s)
    BY Zenon DEF Before
  <1>1. PICK a, b, p, c : /\ a = w \o t /\ b = s[n + 1].bytes /\ p = s[n + 1]
                          /\ c = Concat(SubSeq(s, 1, n))
    OBVIOUS
  <1>2. a \in Seq(Byte) /\ Len(a) = Len(w) + Len(t)
    BY Zenon, <1>0, <1>1, Joined
  <1>3. a = Concat(SubSeq(s, n + 1, Len(s)))
    BY Zenon, <1>0, <1>1, <1>2, Ahead
  <1>4. n + 1 \in 1..Len(s)
    <2>1. Len(s) \in Nat
      BY Zenon, <1>0, ScriptTyped
    <2>2. QED
      BY SMT, <1>0, <2>1
  <1>5. b \in Seq(Byte) /\ IsRequest(p)
    BY Zenon, <1>0, <1>1, <1>4, ScriptsAssumption
  <1>6. PICK rest \in Seq(Byte) : a = b \o rest
    BY Zenon, <1>0, <1>1, <1>3, Streams
  <1>7. /\ StartsLegal(b) /\ Len(b) = HeaderSize + FromHostOrder(b)
        /\ ReadPackage(SubSeq(b, HeaderSize + 1, Len(b))).msg = p.msg
    BY Zenon, <1>0, <1>1, <1>5 DEF IsRequest
  <1>8. /\ Len(b) >= HeaderSize /\ 0 <= FromHostOrder(b)
        /\ FromHostOrder(b) <= MAX_PACKAGE_SIZE
        /\ ReadPackage(SubSeq(b, HeaderSize + 1, HeaderSize + FromHostOrder(b))).ok
    BY Zenon, <1>0, <1>7 DEF StartsLegal, StartsWhole, FirstBody
  <1>9. FromHostOrder(b) = size
    <2>1. FromHostOrder(b \o rest) = FromHostOrder(b)
      BY Zenon, <1>0, <1>5, <1>8, SameHeader
    <2>2. FromHostOrder(w \o t) = FromHostOrder(w)
      BY Zenon, <1>0, SameHeader
    <2>3. QED
      BY Zenon, <1>0, <2>1, <2>2, <1>1, <1>6
  <1>10. Len(b) = HeaderSize + size /\ size <= MAX_PACKAGE_SIZE
    BY Zenon, <1>0, <1>7, <1>8, <1>9
  <1>11. size \in Nat /\ HeaderSize \in Nat /\ Len(b) \in Nat /\ HeaderSize <= Len(b)
         /\ Len(b) <= Len(b) /\ 0 <= Len(b) /\ 0 \in Nat /\ 0 + 1 = 1
    <2>1. PICK x, y : x = FromHostOrder(b) /\ y = Len(b)
      OBVIOUS
    <2>2. y \in Nat
      BY <2>1, <1>5
    <2>3. y = HeaderSize + size /\ 0 <= size /\ size = x
      BY Zenon, <1>0, <2>1, <1>8, <1>9, <1>10
    <2>4. size \in Int
      <3>1. b[1] \in Byte /\ b[2] \in Byte /\ b[3] \in Byte /\ b[4] \in Byte
        <4>1. y >= HeaderSize
          BY Zenon, <1>0, <2>1, <1>8
        <4>2. 1 \in 1..y /\ 2 \in 1..y /\ 3 \in 1..y /\ 4 \in 1..y
          BY SMT, <1>0, <4>1, <2>2 DEF HeaderSize
        <4>3. QED
          BY SMT, <1>0, <4>2, <2>1, <1>5
      <3>2. PICK u : u = <<b[4], b[3], b[2], b[1]>>
        OBVIOUS
      <3>3. u[1] = b[4] /\ u[2] = b[3] /\ u[3] = b[2] /\ u[4] = b[1]
        BY SMT, <1>0, <3>2
      <3>4. ntohl(u) \in Int32
        BY Zenon, <1>0, <3>1, <3>3, NtohlTyped
      <3>5. size = ntohl(u)
        BY Zenon, <1>0, <3>2, <1>9 DEF FromHostOrder
      <3>6. ntohl(u) \in Int
        BY SMT, <1>0, <3>4 DEF Int32
      <3>7. QED
        BY Zenon, <1>0, <3>5, <3>6
    <2>5. size \in Nat /\ HeaderSize \in Nat /\ HeaderSize <= y /\ y <= y /\ 0 <= y
      BY SMT, <1>0, <2>2, <2>3, <2>4 DEF HeaderSize
    <2>6. 0 \in Nat /\ 0 + 1 = 1
      BY SMT, <1>0
    <2>7. QED
      BY Zenon, <1>0, <2>1, <2>2, <2>5, <2>6
  <1>12. ASSUME HeaderSize + size <= Len(w)
         PROVE  /\ ReadPackage(SubSeq(w, HeaderSize + 1, HeaderSize + size)).msg = p.msg
                /\ ReadPackage(SubSeq(w, HeaderSize + 1, HeaderSize + size)).ok
                /\ Concat(SubSeq(s, 1, n + 1)) \o (SubSeq(w, HeaderSize + size + 1, Len(w)) \o t)
                     = Concat(s)
    <2>1. Len(b) <= Len(w)
      BY Zenon, <1>0, <1>10, <1>12
    <2>a. PICK k, h, o : k = Len(b) /\ h = HeaderSize /\ o = 0
      OBVIOUS
    <2>b. /\ h \in Nat /\ k \in Nat /\ h <= k /\ k <= Len(w) /\ k <= Len(b)
          /\ o \in Nat /\ o <= k /\ o + 1 = 1
      BY Zenon, <1>0, <2>a, <2>1, <1>11
    <2>2. SubSeq(w, HeaderSize + 1, Len(b)) = SubSeq(b, HeaderSize + 1, Len(b))
      <3>1. SubSeq(w \o t, h + 1, k) = SubSeq(w, h + 1, k)
        BY ZenonT(60), <1>0, <2>b, Front
      <3>2. SubSeq(b \o rest, h + 1, k) = SubSeq(b, h + 1, k)
        BY ZenonT(60), <1>0, <2>b, <1>5, Front
      <3>3. QED
        BY Zenon, <1>0, <3>1, <3>2, <2>a, <1>1, <1>6
    <2>3. SubSeq(w, 1, Len(b)) = b
      <3>1. SubSeq(w \o t, o + 1, k) = SubSeq(w, o + 1, k)
        BY ZenonT(60), <1>0, <2>b, Front
      <3>2. SubSeq(b \o rest, 1, Len(b)) = b
        BY Zenon, <1>0, <1>5, JoinCut
      <3>3. QED
        BY Zenon, <1>0, <3>1, <3>2, <2>a, <2>b, <1>1, <1>6
    <2>4. PICK v : v = SubSeq(w, Len(b) + 1, Len(w))
      OBVIOUS
    <2>5. Len(b) \in 0..Len(w) /\ v \in Seq(Byte)
      BY SMT, <1>0, <2>1, <2>4, <1>11
    <2>6. b \o v = w
      BY Zenon, <1>0, <2>3, <2>4, <2>5, CutJoin
    <2>7. c \in Seq(Byte) /\ Concat(SubSeq(s, 1, n + 1)) = c \o b
      BY Zenon, <1>0, <1>1, Streams
    <2>8. v \o t \in Seq(Byte)
      BY Zenon, <1>0, <2>5, Joined
    <2>9. (c \o b) \o (v \o t) = c \o (b \o (v \o t))
      BY Zenon, <1>0, <2>7, <2>8, <1>5, Associative
    <2>10. (b \o v) \o t = b \o (v \o t)
      BY Zenon, <1>0, <2>5, <1>5, Associative
    <2>11. Concat(SubSeq(s, 1, n + 1)) \o (v \o t) = Concat(s)
      BY Zenon, <1>0, <2>6, <2>7, <2>9, <2>10, <1>1
    <2>12. QED
      BY Zenon, <1>0, <2>2, <2>4, <2>11, <1>7, <1>8, <1>9, <1>10
  <1>13. HeaderSize + size <= Len(w) => Takes(s, n, w, t, size)
    BY Zenon, <1>1, <1>12 DEF Takes
  <1>14. QED
    BY Zenon, <1>1, <1>10, <1>11, <1>13

\* The first n packages are what onRead has taken.
InPlace(n) == Concat(SubSeq(script, 1, n)) \o (Waiting \o toSend) = Concat(script)

Closes(q) == \E i \in 1..Len(q) : q[i].name = "forceCloseInLoop"

\* Nothing more will be read: the connection is closed, or will be before the
\* next poll.
Closing ==
  \/ ~reading
  \/ pc = "events" /\ "in" \notin events /\ Closes(functors)
  \/ pc = "tasks" /\ Closes(batch)

\* No whole package waits.
NoneWhole ==
  LET n == Len(processed) IN n = Len(script) \/ ~script[n + 1].legal \/ ~Whole(n + 1)

Requests == {script[i].msg : i \in 1..Len(script)}

OnlyRequests ==
  /\ script \in Scripts /\ processed \in Seq(Requests)
  /\ Len(processed) <= Len(script) /\ Whole(Len(processed))
  /\ \A i \in 1..Len(processed) : script[i].legal /\ processed[i] = script[i].msg

InStep == aborted \/ Closing \/ InPlace(Len(processed))
NoneLeft == ~aborted /\ pc # "parse" /\ reading => NoneWhole

\* A channel that is not read any more is read only when the peer is gone.
EventsFollow ==
  /\ pc = "tasks" => events = {}
  /\ pc = "parse" => "in" \notin events /\ reading
  /\ "hup" \in events => peer = "reset"
  /\ "in" \in events /\ ~reading => peer = "reset"

ClosedIsDeaf == m_state = "kDisconnected" => ~reading

RequestsInv == OnlyRequests /\ InStep /\ NoneLeft /\ EventsFollow /\ ClosedIsDeaf

\* While onRead runs it stands behind the packages it has handed on.
LEMMA ParseInPlace ==
    ASSUME RequestsInv, ~aborted, pc = "parse"
    PROVE  /\ InPlace(Len(processed)) /\ ~Closing
           /\ reading /\ "in" \notin events /\ m_state # "kDisconnected"
  <1>1. reading /\ "in" \notin events /\ m_state # "kDisconnected"
    BY Zenon DEF RequestsInv, EventsFollow, ClosedIsDeaf
  <1>2. ~(pc = "events") /\ ~(pc = "tasks")
    OBVIOUS
  <1>3. ~Closing
    BY Zenon, <1>1, <1>2 DEF Closing
  <1>4. QED
    BY Zenon, <1>1, <1>3 DEF RequestsInv, InStep

\* A step that leaves the input and the requests alone.
LEMMA RequestsKept ==
    ASSUME RequestsInv, UNCHANGED <<script, toSend, inBuf, processed, aborted>>,
           Closing => Closing',
           ~aborted /\ pc' # "parse" /\ reading' => (pc # "parse" /\ reading) \/ NoneWhole,
           EventsFollow', ClosedIsDeaf'
    PROVE  RequestsInv'
  <1>1. Waiting' = Waiting
    BY Zenon DEF Waiting, Contents
  <1>2. OnlyRequests'
    BY Zenon DEF RequestsInv, OnlyRequests, Requests, Whole
  <1>3. InPlace(Len(processed))' <=> InPlace(Len(processed))
    BY Zenon, <1>1 DEF InPlace
  <1>4. InStep'
    BY Zenon, <1>3 DEF RequestsInv, InStep
  <1>5. NoneWhole' <=> NoneWhole
    BY Zenon DEF NoneWhole, Whole
  <1>6. NoneLeft'
    BY Zenon, <1>5 DEF RequestsInv, NoneLeft
  <1>7. QED
    BY Zenon, <1>2, <1>4, <1>6 DEF RequestsInv

\* A connection that is being closed is not read any more.
LEMMA CloseDeafens ==
    ASSUME RequestsInv, handleClose
    PROVE  ~reading' /\ Closing' /\ ClosedIsDeaf'
  <1>1. ~reading'
    BY Zenon DEF RequestsInv, ClosedIsDeaf, handleClose
  <1>2. QED
    BY Zenon, <1>1 DEF Closing, ClosedIsDeaf

\* A functor queued behind others, and one taken from the front.
LEMMA CloseQueued ==
    ASSUME NEW q \in Seq(Functors), NEW f
    PROVE  /\ Closes(q) => Closes(Append(q, f))
           /\ f.name = "forceCloseInLoop" => Closes(Append(q, f))
           /\ q # <<>> /\ Closes(q) => Head(q).name = "forceCloseInLoop" \/ Closes(Tail(q))
  <1>1. Len(q) \in Nat
    OBVIOUS
  <1>2. PICK a : a = Append(q, f)
    OBVIOUS
  <1>3. Len(a) = Len(q) + 1 /\ a[Len(q) + 1] = f /\ \A i \in 1..Len(q) : a[i] = q[i]
    BY SMT, <1>1, <1>2
  <1>4. Len(q) + 1 \in 1..Len(a) /\ \A i \in 1..Len(q) : i \in 1..Len(a)
    BY SMT, <1>1, <1>3
  <1>5. ASSUME q # <<>>, Closes(q), ~(Head(q).name = "forceCloseInLoop") PROVE Closes(Tail(q))
    <2>1. PICK i \in 1..Len(q) : q[i].name = "forceCloseInLoop"
      BY Zenon, <1>5 DEF Closes
    <2>2. PICK t : t = Tail(q)
      OBVIOUS
    <2>3. Len(t) = Len(q) - 1 /\ \A k \in 1..(Len(q) - 1) : t[k] = q[k + 1]
      BY SMT, <2>2, <1>5
    <2>4. Head(q) = q[1]
      BY SMT, <1>5
    <2>5. i # 1
      BY Zenon, <2>1, <2>4, <1>5
    <2>6. i - 1 \in 1..(Len(q) - 1) /\ (i - 1) + 1 = i
      BY SMT, <2>1, <2>5, <1>1
    <2>7. QED
      BY Zenon, <2>1, <2>2, <2>3, <2>6 DEF Closes
  <1>6. QED
    BY Zenon, <1>2, <1>3, <1>4, <1>5 DEF Closes

\* The parts of the invariant.
LEMMA RequestsParts ==
    ASSUME RequestsInv
    PROVE  /\ OnlyRequests /\ InStep /\ NoneLeft /\ EventsFollow /\ ClosedIsDeaf
           /\ script \in Scripts /\ processed \in Seq(Requests)
           /\ Len(processed) <= Len(script) /\ Len(processed) \in Nat /\ Len(script) \in Nat
           /\ Len(processed) \in 0..Len(script)
  <1>1. PICK n, l : n = Len(processed) /\ l = Len(script)
    OBVIOUS
  <1>2. /\ OnlyRequests /\ InStep /\ NoneLeft /\ EventsFollow /\ ClosedIsDeaf
        /\ script \in Scripts /\ processed \in Seq(Requests) /\ n <= l
    BY Zenon, <1>1 DEF RequestsInv, OnlyRequests
  <1>3. l \in Nat
    BY Zenon, <1>1, <1>2, ScriptTyped
  <1>4. n \in Nat
    BY SMT, <1>1, <1>2
  <1>5. n \in 0..l
    BY SMT, <1>2, <1>3, <1>4
  <1>6. QED
    BY Zenon, <1>1, <1>2, <1>3, <1>4, <1>5

\* The other threads, the client and the poll leave the requests as they are.
LEMMA RequestsQuiet ==
    ASSUME StreamInv, RequestsInv,
           \/ Poll \/ BeginTasks
           \/ (\E m \in OtherMessages : OtherSend(m)) \/ OtherQueues
           \/ shutdown \/ ShutdownSets \/ ShutdownQueues \/ PeerEnds \/ UNCHANGED vars
    PROVE  RequestsInv'
  <1>a. EventsFollow /\ ClosedIsDeaf /\ functors \in Seq(Functors) /\ batch \in Seq(Functors)
    BY Zenon, InvParts, RequestsParts
  <1>1. CASE Poll
    <2>1. PICK ready \in SUBSET Ready : Polled(ready)
      BY Zenon, <1>1 DEF Poll
    <2>2. /\ UNCHANGED <<script, toSend, inBuf, processed, aborted, m_state, reading, peer>>
          /\ pc = "tasks" /\ batch = <<>> /\ pc' = "events" /\ events' = ready
      BY Zenon, <2>1 DEF Polled, buffers
    <2>3. pc' # "tasks" /\ pc' # "parse" /\ pc # "events" /\ pc # "parse"
      BY <2>2
    <2>4. /\ "in" \in ready => reading
          /\ "hup" \in ready => peer = "reset"
      <3>1. "in" \in Ready => reading
        BY DEF Ready
      <3>2. "hup" \in Ready => peer = "reset"
        BY DEF Ready
      <3>3. QED
        BY Zenon, <3>1, <3>2, <2>1
    <2>5. EventsFollow' /\ ClosedIsDeaf'
      BY Zenon, <2>2, <2>3, <2>4, <1>a DEF EventsFollow, ClosedIsDeaf
    <2>6. ~Closes(<<>>)
      BY SMT DEF Closes
    <2>7. Closing => Closing'
      BY Zenon, <2>2, <2>3, <2>6 DEF Closing
    <2>8. QED
      BY Zenon, <2>2, <2>3, <2>5, <2>7, RequestsKept
  <1>2. CASE BeginTasks
    <2>1. /\ UNCHANGED <<script, toSend, inBuf, processed, aborted, m_state, reading, peer, events>>
          /\ pc = "events" /\ events = {} /\ pc' = "tasks" /\ batch' = functors
      BY Zenon, <1>2 DEF BeginTasks, buffers
    <2>2. pc' # "parse" /\ pc # "tasks" /\ pc # "parse" /\ "in" \notin {} /\ "hup" \notin {}
      BY <2>1
    <2>3. EventsFollow' /\ ClosedIsDeaf'
      BY Zenon, <2>1, <2>2, <1>a DEF EventsFollow, ClosedIsDeaf
    <2>4. Closing => Closing'
      BY Zenon, <2>1, <2>2 DEF Closing, Closes
    <2>5. QED
      BY Zenon, <2>1, <2>2, <2>3, <2>4, RequestsKept
  <1>3. CASE (\E m \in OtherMessages : OtherSend(m)) \/ shutdown \/ ShutdownSets \/ UNCHANGED vars
    <2>1. /\ UNCHANGED <<script, toSend, inBuf, processed, aborted, reading, peer, events, pc>>
          /\ UNCHANGED <<functors, batch>>
          /\ m_state' = m_state \/ m_state' = "kDisconnecting"
      BY Zenon, <1>3 DEF OtherSend, shutdown, ShutdownSets, vars, buffers, loopVars
    <2>2. EventsFollow' /\ ClosedIsDeaf'
      <3>1. "kDisconnecting" # "kDisconnected"
        OBVIOUS
      <3>2. QED
        BY Zenon, <2>1, <3>1, <1>a DEF EventsFollow, ClosedIsDeaf
    <2>3. Closing => Closing'
      BY Zenon, <2>1 DEF Closing, Closes
    <2>4. QED
      BY Zenon, <2>1, <2>2, <2>3, RequestsKept
  <1>4. CASE OtherQueues \/ ShutdownQueues
    <2>1. PICK f :
          /\ UNCHANGED <<script, toSend, inBuf, processed, aborted, m_state, reading, peer>>
          /\ UNCHANGED <<events, pc, batch>> /\ functors' = Append(functors, f)
      BY Zenon, <1>4 DEF OtherQueues, ShutdownQueues, buffers, loopVars
    <2>2. EventsFollow' /\ ClosedIsDeaf'
      BY Zenon, <2>1, <1>a DEF EventsFollow, ClosedIsDeaf
    <2>3. Closes(functors) => Closes(functors')
      BY Zenon, <2>1, <1>a, CloseQueued
    <2>4. Closing => Closing'
      BY Zenon, <2>1, <2>3 DEF Closing, Closes
    <2>5. QED
      BY Zenon, <2>1, <2>2, <2>4, RequestsKept
  <1>5. CASE PeerEnds
    <2>1. /\ UNCHANGED <<script, toSend, inBuf, processed, aborted, m_state, reading>>
          /\ UNCHANGED <<events, pc, batch, functors>> /\ peer = "open"
      BY Zenon, <1>5 DEF PeerEnds, buffers, loopVars
    <2>2. peer # "reset"
      BY <2>1
    <2>3. EventsFollow' /\ ClosedIsDeaf'
      BY Zenon, <2>1, <2>2, <1>a DEF EventsFollow, ClosedIsDeaf
    <2>4. Closing => Closing'
      BY Zenon, <2>1 DEF Closing, Closes
    <2>5. QED
      BY Zenon, <2>1, <2>3, <2>4, RequestsKept
  <1>6. QED
    BY Zenon, <1>1, <1>2, <1>3, <1>4, <1>5

\* Closing, writing and running what was queued do not touch the requests.
LEMMA RequestsWritten ==
    ASSUME StreamInv, RequestsInv, HandleHup \/ HandleWrite \/ RunTask
    PROVE  RequestsInv'
  <1>a. EventsFollow /\ ClosedIsDeaf /\ functors \in Seq(Functors) /\ batch \in Seq(Functors)
    BY Zenon, InvParts, RequestsParts
  <1>1. CASE HandleHup
    <2>1. /\ UNCHANGED <<script, toSend, inBuf, processed, aborted, peer, pc>>
          /\ pc = "events" /\ "hup" \in events /\ events' = events \ {"hup"} /\ handleClose
      BY Zenon, <1>1 DEF HandleHup, buffers
    <2>2. ~reading' /\ Closing' /\ ClosedIsDeaf' /\ pc # "parse" /\ pc # "tasks"
      BY CloseDeafens, <2>1
    <2>3. peer = "reset"
      BY Zenon, <2>1, <1>a DEF EventsFollow
    <2>4. EventsFollow'
      BY Zenon, <2>1, <2>2, <2>3 DEF EventsFollow
    <2>5. QED
      BY Zenon, <2>1, <2>2, <2>4, RequestsKept
  <1>2. CASE HandleWrite
    <2>1. /\ UNCHANGED <<script, toSend, inBuf, processed, aborted, peer, pc, functors, batch>>
          /\ pc = "events" /\ events' = {}
          /\ handleClose \/ UNCHANGED <<m_state, reading>>
      BY Zenon, <1>2 DEF HandleWrite
    <2>2. pc # "parse" /\ pc # "tasks" /\ "in" \notin {} /\ "hup" \notin {}
      BY <2>1
    <2>3. EventsFollow'
      BY Zenon, <2>1, <2>2 DEF EventsFollow
    <2>4. CASE handleClose
      <3>1. ~reading' /\ Closing' /\ ClosedIsDeaf'
        BY Zenon, <2>4, CloseDeafens
      <3>2. QED
        BY Zenon, <3>1, <2>1, <2>3, RequestsKept
    <2>5. CASE UNCHANGED <<m_state, reading>>
      <3>1. ClosedIsDeaf'
        BY Zenon, <2>5, <1>a DEF ClosedIsDeaf
      <3>2. Closing => Closing'
        BY Zenon, <2>1, <2>2, <2>5 DEF Closing, Closes
      <3>3. QED
        BY Zenon, <3>1, <3>2, <2>1, <2>2, <2>3, <2>5, RequestsKept
    <2>6. QED
      BY Zenon, <2>1, <2>4, <2>5
  <1>3. CASE RunTask
    <2>1. /\ UNCHANGED <<script, toSend, inBuf, processed, aborted, peer, pc, functors, events>>
          /\ pc = "tasks" /\ batch # <<>> /\ batch' = Tail(batch)
          /\ \/ handleClose
             \/ Head(batch).name \in {"sendInLoop", "shutdownInLoop"} /\ UNCHANGED <<m_state, reading>>
      BY Zenon, <1>3 DEF RunTask
    <2>2. pc # "parse" /\ pc # "events" /\ "in" \notin {} /\ "hup" \notin {}
      BY <2>1
    <2>3. EventsFollow'
      BY Zenon, <2>1, <2>2, <1>a DEF EventsFollow
    <2>4. CASE handleClose
      <3>1. ~reading' /\ Closing' /\ ClosedIsDeaf'
        BY Zenon, <2>4, CloseDeafens
      <3>2. QED
        BY Zenon, <3>1, <2>1, <2>3, RequestsKept
    <2>5. CASE Head(batch).name \in {"sendInLoop", "shutdownInLoop"} /\ UNCHANGED <<m_state, reading>>
      <3>1. ClosedIsDeaf'
        BY Zenon, <2>5, <1>a DEF ClosedIsDeaf
      <3>2. Head(batch).name # "forceCloseInLoop"
        BY <2>5
      <3>3. Closes(batch) => Closes(Tail(batch))
        BY Zenon, <3>2, <2>1, <1>a, CloseQueued
      <3>4. Closing => Closing'
        BY Zenon, <3>3, <2>1, <2>2, <2>5 DEF Closing, Closes
      <3>5. QED
        BY Zenon, <3>1, <3>4, <2>1, <2>2, <2>3, <2>5, RequestsKept
    <2>6. QED
      BY Zenon, <2>1, <2>4, <2>5
  <1>4. QED
    BY Zenon, <1>1, <1>2, <1>3

\* What lies behind the packages already taken: which of them are whole.
LEMMA WholeWhen ==
    ASSUME NEW s \in Scripts, NEW n \in 0..Len(s), NEW w \in Seq(Byte), NEW t \in Seq(Byte),
           Concat(SubSeq(s, 1, n)) \o (w \o t) = Concat(s)
    PROVE  /\ Len(Concat(SubSeq(s, 1, n))) <= Len(Concat(s)) - Len(t)
           /\ n < Len(s) =>
                (Len(Concat(SubSeq(s, 1, n + 1))) <= Len(Concat(s)) - Len(t)
                   <=> Len(s[n + 1].bytes) <= Len(w))
  <1>1. PICK c, a, all : c = Concat(SubSeq(s, 1, n)) /\ a = w \o t /\ all = Concat(s)
    OBVIOUS
  <1>2. a \in Seq(Byte) /\ Len(a) = Len(w) + Len(t)
    BY Zenon, <1>1, Joined
  <1>3. c \in Seq(Byte) /\ c \o a = all
    BY Zenon, <1>1, Streams
  <1>4. Len(all) = Len(c) + Len(a)
    BY Zenon, <1>2, <1>3, Joined
  <1>5. Len(c) \in Nat /\ Len(w) \in Nat /\ Len(t) \in Nat
    BY SMT, <1>3
  <1>6. PICK x, y, z, u : x = Len(c) /\ y = Len(w) /\ z = Len(t) /\ u = Len(all)
    OBVIOUS
  <1>7. x \in Nat /\ y \in Nat /\ z \in Nat /\ u = x + (y + z)
    BY Zenon, <1>2, <1>4, <1>5, <1>6
  <1>8. x <= u - z
    BY SMT, <1>7
  <1>9. ASSUME n < Len(s)
        PROVE  Len(Concat(SubSeq(s, 1, n + 1))) <= u - z <=> Len(s[n + 1].bytes) <= y
    <2>1. PICK b : b = s[n + 1].bytes
      OBVIOUS
    <2>2. b \in Seq(Byte)
      <3>1. Len(s) \in Nat
        BY Zenon, ScriptTyped
      <3>2. n + 1 \in 1..Len(s)
        BY SMT, <3>1, <1>9
      <3>3. QED
        BY Zenon, <2>1, <3>2, ScriptTyped
    <2>3. Concat(SubSeq(s, 1, n + 1)) = c \o b
      BY Zenon, <2>1, <1>1, <1>9, Streams
    <2>4. Len(c \o b) = x + Len(b)
      BY Zenon, <2>2, <1>3, <1>6, Joined
    <2>5. PICK l : l = Len(b)
      OBVIOUS
    <2>6. l \in Nat
      BY SMT, <2>2, <2>5
    <2>7. x + l <= u - z <=> l <= y
      BY SMT, <2>6, <1>7
    <2>8. QED
      BY Zenon, <2>1, <2>3, <2>4, <2>5, <2>7
  <1>10. QED
    BY Zenon, <1>1, <1>6, <1>8, <1>9

\* handleRead moves bytes from the stream to the buffer: the packages handed on
\* stay the same, and it does not happen to a connection that is being closed.
LEMMA RequestsRead ==
    ASSUME StreamInv, RequestsInv, HandleRead
    PROVE  RequestsInv'
  <1> USE InvParts
  <1>a. /\ OnlyRequests /\ InStep /\ EventsFollow /\ ClosedIsDeaf
        /\ script \in Scripts /\ Len(processed) \in 0..Len(script)
    BY Zenon, RequestsParts
  <1>1. /\ UNCHANGED <<script, processed, aborted, peer, functors, batch>>
        /\ ~aborted /\ pc = "events" /\ "in" \in events /\ events' = events \ {"in"}
    BY Zenon DEF HandleRead
  <1>b. pc # "parse" /\ pc # "tasks"
    BY <1>1
  <1>2. CASE handleClose /\ UNCHANGED <<inBuf, toSend, pc>>
    <2>1. ~reading' /\ Closing' /\ ClosedIsDeaf'
      BY Zenon, <1>2, CloseDeafens
    <2>2. EventsFollow'
      BY Zenon, <2>1, <1>1, <1>2, <1>a, <1>b DEF EventsFollow
    <2>3. QED
      BY Zenon, <2>1, <2>2, <1>1, <1>2, <1>b, RequestsKept
  <1>3. CASE /\ peer # "reset" /\ pc' = "parse" /\ UNCHANGED <<m_state, writing, reading>>
             /\ \E k \in Moved(IF Len(toSend) < Capacity(inBuf) THEN Len(toSend)
                               ELSE Capacity(inBuf)) :
                  /\ inBuf' = readFd(inBuf, SubSeq(toSend, 1, k))
                  /\ toSend' = SubSeq(toSend, k + 1, Len(toSend))
    <2>1. PICK k \in Moved(IF Len(toSend) < Capacity(inBuf) THEN Len(toSend)
                           ELSE Capacity(inBuf)) :
                  /\ inBuf' = readFd(inBuf, SubSeq(toSend, 1, k))
                  /\ toSend' = SubSeq(toSend, k + 1, Len(toSend))
      BY Zenon, <1>3
    <2>2. PICK t, w, d : t = toSend /\ w = Contents(inBuf) /\ d = SubSeq(t, 1, k)
      OBVIOUS
    <2>3. t \in Seq(Byte) /\ k \in 0..Len(t) /\ w \in Seq(Byte)
      BY Zenon, <2>2, ReadTaken, BufferContents
    <2>4. d \in Seq(Byte)
      BY SMT, <2>2, <2>3
    <2>5. Contents(readFd(inBuf, d)) = w \o d
      BY Zenon, <2>2, <2>4, BufferReads
    <2>6. Waiting' = w \o d /\ toSend' = SubSeq(t, k + 1, Len(t))
      BY Zenon, <2>1, <2>2, <2>5 DEF Waiting, Contents
    <2>7. (w \o SubSeq(t, 1, k)) \o SubSeq(t, k + 1, Len(t)) = w \o t
      BY Zenon, <2>3, ReadMoves
    <2>8. Waiting' \o toSend' = Waiting \o toSend
      BY Zenon, <2>2, <2>6, <2>7 DEF Waiting
    <2>9. reading
      BY Zenon, <1>1, <1>3, <1>a DEF EventsFollow
    <2>10. ~Closing
      BY Zenon, <2>9, <1>1, <1>b DEF Closing
    <2>11. InPlace(Len(processed))
      BY Zenon, <2>10, <1>1, <1>a DEF InStep
    <2>12. InPlace(Len(processed))'
      BY Zenon, <2>8, <2>11, <1>1 DEF InPlace
    <2>13. Whole(Len(processed))'
      <3>1. PICK v, u : v = w \o d /\ u = SubSeq(t, k + 1, Len(t))
        OBVIOUS
      <3>2. v \in Seq(Byte) /\ u \in Seq(Byte)
        <4>1. u \in Seq(Byte)
          BY SMT, <3>1, <2>3
        <4>2. QED
          BY Zenon, <4>1, <3>1, <2>3, <2>4, Joined
      <3>3. Concat(SubSeq(script, 1, Len(processed))) \o (v \o u) = Concat(script)
        BY Zenon, <3>1, <2>6, <2>12, <1>1 DEF InPlace
      <3>4. Len(Concat(SubSeq(script, 1, Len(processed)))) <= Len(Concat(script)) - Len(u)
        BY Zenon, <3>2, <3>3, <1>a, WholeWhen
      <3>5. QED
        BY Zenon, <3>1, <3>4, <2>6, <1>1 DEF Whole
    <2>14. OnlyRequests'
      BY Zenon, <2>13, <1>1, <1>a DEF OnlyRequests, Requests
    <2>15. "parse" # "tasks" /\ "in" \notin events' /\ ("hup" \in events' => "hup" \in events)
      BY Zenon, <1>1
    <2>16. EventsFollow' /\ ClosedIsDeaf'
      BY Zenon, <2>9, <2>15, <1>1, <1>3, <1>a DEF EventsFollow, ClosedIsDeaf
    <2>17. QED
      BY Zenon, <2>12, <2>14, <2>16, <1>1, <1>3 DEF RequestsInv, InStep, NoneLeft
  <1>4. QED
    BY Zenon, <1>2, <1>3 DEF HandleRead

\* What onRead sees in front of it.
LEMMA AtPackage ==
    ASSUME StreamInv, RequestsInv, ~aborted, pc = "parse"
    PROVE  /\ Waiting \in Seq(Byte) /\ toSend \in Seq(Byte) /\ script \in Scripts
           /\ Len(processed) \in Nat /\ Len(script) \in Nat /\ Len(Waiting) \in Nat
           /\ Len(processed) \in 0..Len(script) /\ Len(script) \in 0..Len(script)
           /\ Concat(SubSeq(script, 1, Len(processed))) \o (Waiting \o toSend) = Concat(script)
           /\ Len(processed) # Len(script) => Len(processed) < Len(script)
           /\ Len(processed) = Len(script) => ~(Len(Waiting) >= HeaderSize)
  <1>1. PICK n, l, w : n = Len(processed) /\ l = Len(script) /\ w = Waiting
    OBVIOUS
  <1>2. w \in Seq(Byte) /\ toSend \in Seq(Byte)
    BY Zenon, <1>1, InvParts, BufferContents DEF Waiting
  <1>3. script \in Scripts /\ n \in Nat /\ l \in Nat /\ n \in 0..l /\ n <= l
    BY Zenon, <1>1, RequestsParts
  <1>4. Concat(SubSeq(script, 1, n)) \o (w \o toSend) = Concat(script)
    BY Zenon, <1>1, ParseInPlace DEF InPlace
  <1>5. l \in 0..l /\ (n # l => n < l)
    BY SMT, <1>3
  <1>6. Len(w) \in Nat
    BY SMT, <1>2
  <1>7. n = l => ~(Len(w) >= HeaderSize)
    BY Zenon, <1>1, <1>2, <1>3, <1>4, <1>5, NothingNext
  <1>8. QED
    BY Zenon, <1>1, <1>2, <1>3, <1>4, <1>5, <1>6, <1>7

\* A step of onRead that takes nothing: no whole package may be left.
LEMMA RequestsWait ==
    ASSUME StreamInv, RequestsInv, onReadWaits \/ onReadRefusesHeader
    PROVE  RequestsInv'
  <1>a. /\ UNCHANGED <<script, toSend, inBuf, processed, aborted, peer, reading, events>>
        /\ ~aborted /\ pc = "parse" /\ pc' = "events"
        /\ Len(Waiting) >= HeaderSize => HeaderWrong \/ ~Complete
    BY Zenon DEF onReadWaits, onReadRefusesHeader, buffers
  <1>b. pc' # "parse" /\ pc' # "tasks"
    BY <1>a
  <1>c. reading /\ "in" \notin events /\ m_state # "kDisconnected" /\ ~Closing /\ EventsFollow
    BY Zenon, <1>a, ParseInPlace, RequestsParts
  <1>d. m_state' # "kDisconnected"
    <2>1. m_state' = m_state \/ m_state' = "kDisconnecting"
      BY Zenon DEF onReadWaits, onReadRefusesHeader, forceClose
    <2>2. QED
      BY <2>1, <1>c
  <1>1. EventsFollow' /\ ClosedIsDeaf'
    BY Zenon, <1>a, <1>b, <1>c, <1>d DEF EventsFollow, ClosedIsDeaf
  <1>2. NoneWhole
    <2>1. PICK n, w, s : n = Len(processed) /\ w = Waiting /\ s = script
      OBVIOUS
    <2>2. /\ w \in Seq(Byte) /\ toSend \in Seq(Byte) /\ s \in Scripts /\ n \in 0..Len(s)
          /\ Concat(SubSeq(s, 1, n)) \o (w \o toSend) = Concat(s)
          /\ Len(w) \in Nat /\ (n # Len(s) => n < Len(s))
      BY Zenon, <2>1, <1>a, AtPackage
    <2>3. SUFFICES ASSUME n # Len(s), s[n + 1].legal
                   PROVE  ~Whole(n + 1)
      BY Zenon, <2>1 DEF NoneWhole
    <2>4. n < Len(s)
      BY Zenon, <2>2, <2>3
    <2>5. ~(Len(s[n + 1].bytes) <= Len(w))
      <3>1. CASE Len(w) >= HeaderSize
        <4>1. PICK size : size = FromHostOrder(w)
          OBVIOUS
        <4>2. /\ size \in Nat /\ size <= MAX_PACKAGE_SIZE
              /\ Len(s[n + 1].bytes) = HeaderSize + size
          <5>1. Before(s, n, w, toSend)
            BY Zenon, <2>2, <2>4 DEF Before
          <5>2. QED
            BY Zenon, <5>1, <4>1, <3>1, <2>3, LegalNext
        <4>3. HeaderWrong \/ ~Complete
          BY Zenon, <3>1, <2>1, <1>a
        <4>4. size > MAX_PACKAGE_SIZE \/ ~(0 <= size + HeaderSize /\ size + HeaderSize <= Len(w))
          BY Zenon, <4>1, <4>3, <2>1 DEF HeaderWrong, Complete, originsize
        <4>5. PICK l, k : l = Len(w) /\ k = Len(s[n + 1].bytes)
          OBVIOUS
        <4>6. l \in Nat /\ k = HeaderSize + size
              /\ (size > MAX_PACKAGE_SIZE \/ ~(0 <= size + HeaderSize /\ size + HeaderSize <= l))
          BY Zenon, <4>2, <4>4, <4>5, <2>2
        <4>7. ~(k <= l)
          BY SMT, <4>2, <4>6, StreamAssumption DEF HeaderSize
        <4>8. QED
          BY Zenon, <4>5, <4>7
      <3>2. CASE ~(Len(w) >= HeaderSize)
        <4>1. PICK k, l : k = Len(s[n + 1].bytes) /\ l = Len(w)
          OBVIOUS
        <4>2. k >= HeaderSize /\ k \in Nat
          <5>1. Len(s) \in Nat
            BY Zenon, <2>2, ScriptTyped
          <5>2. n + 1 \in 1..Len(s)
            BY SMT, <5>1, <2>2, <2>4
          <5>3. IsRequest(s[n + 1]) /\ s[n + 1].bytes \in Seq(Byte)
            BY Zenon, <5>2, <2>2, <2>3, ScriptsAssumption
          <5>4. k >= HeaderSize
            BY Zenon, <4>1, <5>3 DEF IsRequest, StartsLegal, StartsWhole
          <5>5. QED
            BY SMT, <4>1, <5>3, <5>4
        <4>3. ~(l >= HeaderSize) /\ l \in Nat
          BY Zenon, <4>1, <3>2, <2>2
        <4>4. ~(k <= l)
          BY SMT, <4>2, <4>3 DEF HeaderSize
        <4>5. QED
          BY Zenon, <4>1, <4>4
      <3>3. QED
        BY Zenon, <3>1, <3>2
    <2>6. QED
      BY Zenon, <2>1, <2>2, <2>4, <2>5, WholeWhen DEF Whole
  <1>3. QED
    BY Zenon, <1>1, <1>2, <1>a, <1>c, RequestsKept

\* An exception ends the program with the requests as they are.
LEMMA RequestsThrown ==
    ASSUME StreamInv, RequestsInv, onReadThrows
    PROVE  RequestsInv'
  <1>1. /\ UNCHANGED <<script, toSend, processed, peer, reading, events, pc, m_state>>
        /\ aborted' = TRUE
    BY Zenon DEF onReadThrows
  <1>2. OnlyRequests' /\ EventsFollow' /\ ClosedIsDeaf'
    BY Zenon, <1>1, RequestsParts DEF OnlyRequests, Requests, Whole, EventsFollow, ClosedIsDeaf
  <1>3. QED
    BY Zenon, <1>1, <1>2 DEF RequestsInv, InStep, NoneLeft

\* The requests are a sequence.
Recorded == script \in Scripts /\ \E R : processed \in Seq(R)

LEMMA Appended ==
    ASSUME NEW R, NEW p \in Seq(R), NEW x
    PROVE  /\ Append(p, x) \in Seq(R \cup {x}) /\ Len(p) \in Nat /\ Len(Append(p, x)) = Len(p) + 1
           /\ Append(p, x)[Len(p) + 1] = x
           /\ \A i \in 1..Len(p) : Append(p, x)[i] = p[i]
  <1>1. p \in Seq(R \cup {x}) /\ x \in R \cup {x}
    BY SMT
  <1>2. QED
    BY SMT, <1>1

\* It only grows, and what is still to be read only shrinks.
Grows ==
  /\ Len(processed) \in Nat /\ Len(processed') \in Nat /\ Len(processed) <= Len(processed')
  /\ \A i \in 1..Len(processed) : processed'[i] = processed[i]
  /\ script' = script
  /\ toSend \in Seq(Byte) /\ toSend' \in Seq(Byte) /\ Len(toSend') <= Len(toSend)

LEMMA Grown ==
    ASSUME StreamInv, Recorded, [Next]_vars
    PROVE  Recorded' /\ Grows
  <1>1. PICK R, n, t : processed \in Seq(R) /\ n = Len(processed) /\ t = toSend
    BY Zenon DEF Recorded
  <1>2. n \in Nat /\ n <= n
    BY SMT, <1>1
  <1>3. t \in Seq(Byte) /\ Len(t) \in Nat
    BY Zenon, <1>1, InvParts, BytesCounted
  <1>4. Len(t) <= Len(t)
    BY SMT, <1>3
  <1>5. CASE onReadPackage
    <2>1. script' = script /\ toSend' = toSend
      BY Zenon, <1>5 DEF onReadPackage
    <2>2. PICK r \in Readings(Body) : ReadAs(r)
      BY Zenon, <1>5, PackageRead
    <2>3. CASE processed' = processed
      BY Zenon, <2>1, <2>3, <1>1, <1>2, <1>3, <1>4 DEF Recorded, Grows
    <2>4. CASE processed' = Append(processed, r.msg)
      <3>1. PICK q, x : q = Append(processed, x) /\ x = r.msg
        OBVIOUS
      <3>2. /\ q \in Seq(R \cup {x}) /\ Len(q) = n + 1
            /\ \A i \in 1..n : q[i] = processed[i]
        <4>1. /\ Append(processed, x) \in Seq(R \cup {x})
              /\ Len(Append(processed, x)) = Len(processed) + 1
              /\ \A i \in 1..Len(processed) : Append(processed, x)[i] = processed[i]
          BY SMT, <1>1, Appended
        <4>2. QED
          BY Zenon, <4>1, <3>1, <1>1
      <3>3. Len(q) \in Nat /\ n <= Len(q)
        <4>1. n + 1 \in Nat /\ n <= n + 1
          BY SMT, <1>2
        <4>2. QED
          BY Zenon, <4>1, <3>2
      <3>4. processed' = q
        BY Zenon, <3>1, <2>4
      <3>5. QED
        BY Zenon, <3>2, <3>3, <3>4, <2>1, <1>1, <1>2, <1>3, <1>4 DEF Recorded, Grows
    <2>5. QED
      BY Zenon, <2>2, <2>3, <2>4 DEF ReadAs
  <1>6. CASE HandleRead
    <2>1. UNCHANGED <<script, processed>>
      BY Zenon, <1>6 DEF HandleRead
    <2>2. CASE toSend' = toSend
      BY Zenon, <2>1, <2>2, <1>1, <1>2, <1>3, <1>4 DEF Recorded, Grows
    <2>3. CASE \E k \in Moved(IF Len(toSend) < Capacity(inBuf) THEN Len(toSend)
                               ELSE Capacity(inBuf)) :
                 toSend' = SubSeq(toSend, k + 1, Len(toSend))
      <3>1. PICK k \in Moved(IF Len(toSend) < Capacity(inBuf) THEN Len(toSend)
                             ELSE Capacity(inBuf)) : toSend' = SubSeq(toSend, k + 1, Len(toSend))
        BY Zenon, <2>3
      <3>2. PICK u : u = SubSeq(t, k + 1, Len(t))
        OBVIOUS
      <3>3. k \in 0..Len(t)
        BY Zenon, <3>1, <1>1, <1>3, InvParts, ReadTaken
      <3>4. u \in Seq(Byte) /\ Len(u) <= Len(t)
        BY SMT, <3>2, <3>3, <1>3
      <3>5. toSend' = u
        BY Zenon, <3>1, <3>2, <1>1
      <3>6. QED
        BY Zenon, <3>4, <3>5, <2>1, <1>1, <1>2, <1>3, <1>4 DEF Recorded, Grows
    <2>4. QED
      BY Zenon, <2>2, <2>3, <1>6 DEF HandleRead
  <1>7. CASE UNCHANGED <<script, processed, toSend>>
    BY Zenon, <1>7, <1>1, <1>2, <1>3, <1>4 DEF Recorded, Grows
  <1>8. QED
    <2>1. CASE HandleHup \/ HandleWrite \/ onReadWaits \/ onReadRefusesHeader \/ onReadThrows
      BY Zenon, <2>1, <1>7 DEF HandleHup, HandleWrite, onReadWaits, onReadRefusesHeader, onReadThrows
    <2>2. CASE Poll \/ BeginTasks \/ RunTask \/ PeerEnds \/ UNCHANGED vars
      BY Zenon, <2>2, <1>7 DEF Poll, Polled, BeginTasks, RunTask, PeerEnds, vars
    <2>3. CASE \/ (\E m \in OtherMessages : OtherSend(m)) \/ OtherQueues
               \/ shutdown \/ ShutdownSets \/ ShutdownQueues
      BY Zenon, <2>3, <1>7 DEF OtherSend, OtherQueues, shutdown, ShutdownSets, ShutdownQueues
    <2>4. QED
      BY Zenon, <2>1, <2>2, <2>3, <1>5, <1>6 DEF Next, Loop

\* Requests that were the client's packages still are.
LEMMA ExactStays ==
    ASSUME Recorded, Grows, NEW k \in 0..Len(script), k <= Len(processed), Exact(k)
    PROVE  Exact(k)'
  <1>1. script \in Scripts /\ script' = script /\ k <= Len(script) /\ Whole(k)
    BY Zenon DEF Recorded, Grows, Exact
  <1>2. \A i \in 1..k : script[i].legal /\ processed'[i] = script[i].msg
    <2>1. PICK n, l : n = Len(processed) /\ l = Len(script)
      OBVIOUS
    <2>2. n \in Nat /\ l \in Nat /\ k \in 0..l /\ k <= n
      BY Zenon, <2>1, <1>1, ScriptTyped DEF Grows
    <2>3. \A i \in 1..k : i \in 1..n
      BY SMT, <2>2
    <2>4. QED
      BY Zenon, <2>1, <2>3 DEF Grows, Exact
  <1>3. Whole(k)'
    <2>1. PICK a, b, t, u : /\ a = Len(Concat(SubSeq(script, 1, k))) /\ b = Len(Concat(script))
                            /\ t = Len(toSend) /\ u = Len(toSend')
      OBVIOUS
    <2>2. Concat(SubSeq(script, 1, k)) \in Seq(Byte) /\ Concat(script) \in Seq(Byte)
      BY Zenon, <1>1, Streams
    <2>3. a \in Nat /\ b \in Nat /\ t \in Nat /\ u \in Nat /\ u <= t
      BY Zenon, <2>1, <2>2, BytesCounted DEF Grows
    <2>4. a <= b - t
      BY Zenon, <2>1, <1>1 DEF Whole
    <2>5. a <= b - u
      BY SMT, <2>3, <2>4
    <2>6. QED
      BY Zenon, <2>1, <2>5, <1>1 DEF Whole
  <1>4. QED
    BY Zenon, <1>1, <1>2, <1>3 DEF Exact

\* A package that overran the buffer was taken, and so it stays.
Past == \E k \in 0..Len(script) : PastOverrun(k) /\ Exact(k)

LEMMA PastStays ==
    ASSUME Recorded, Grows, Past
    PROVE  Past'
  <1>1. PICK k \in 0..Len(script) : PastOverrun(k) /\ Exact(k)
    BY Zenon DEF Past
  <1>2. script' = script /\ script \in Scripts
    BY Zenon DEF Grows, Recorded
  <1>3. k <= Len(processed) /\ k < Len(processed')
    <2>1. PICK n, m, l : n = Len(processed) /\ m = Len(processed') /\ l = Len(script)
      OBVIOUS
    <2>2. n \in Nat /\ m \in Nat /\ n <= m /\ k < n /\ l \in Nat /\ k \in 0..l
      BY Zenon, <2>1, <1>1, <1>2, ScriptTyped DEF Grows, PastOverrun
    <2>3. k <= n /\ k < m
      BY SMT, <2>2
    <2>4. QED
      BY Zenon, <2>1, <2>3
  <1>4. Exact(k)'
    BY Zenon, <1>1, <1>3, ExactStays
  <1>5. QED
    BY Zenon, <1>1, <1>2, <1>3, <1>4 DEF Past, PastOverrun

\* onRead cuts out the next package: a legal one, which it hands on, or one it
\* cannot read, after which the connection closes before anything else is read,
\* unless its length overran the buffer and was not found to be too long.
LEMMA RequestsPackage ==
    ASSUME StreamInv, Recorded, RequestsInv, onReadPackage
    PROVE  RequestsInv' \/ Past'
  <1>1. /\ UNCHANGED <<script, toSend, aborted, peer, reading, events, batch>>
        /\ inBuf' = Package /\ ~aborted /\ pc = "parse"
        /\ Len(Waiting) >= HeaderSize /\ ~HeaderWrong /\ Complete /\ originsize >= 0
    BY Zenon DEF onReadPackage
  <1>2. PICK s, n, w, t, size : /\ s = script /\ n = Len(processed) /\ w = Waiting /\ t = toSend
                                /\ size = FromHostOrder(w)
    OBVIOUS
  <1>3. /\ s \in Scripts /\ n \in 0..Len(s) /\ w \in Seq(Byte) /\ t \in Seq(Byte)
        /\ Concat(SubSeq(s, 1, n)) \o (w \o t) = Concat(s)
        /\ n \in Nat /\ Len(s) \in Nat /\ Len(w) \in Nat
    BY Zenon, <1>1, <1>2, AtPackage
  <1>4. n < Len(s)
    BY Zenon, <1>1, <1>2, AtPackage
  <1>5. Before(s, n, w, t)
    BY Zenon, <1>3, <1>4 DEF Before
  <1>6. /\ Len(w) >= HeaderSize /\ size \in Nat /\ size <= MAX_PACKAGE_SIZE
        /\ HeaderSize + size <= Len(w)
    <2>1. inBuf \in Buffers
      BY Zenon, InvParts
    <2>2. originsize = size /\ originsize \in Int
      BY Zenon, <2>1, <1>1, <1>2, HeaderTyped DEF originsize
    <2>3. PICK l : l = Len(w)
      OBVIOUS
    <2>4. /\ size \in Int /\ size >= 0 /\ ~(size > MAX_PACKAGE_SIZE) /\ size + HeaderSize <= l
          /\ l \in Nat
      BY Zenon, <2>2, <2>3, <1>1, <1>2, <1>3 DEF HeaderWrong, Complete
    <2>5. size \in Nat /\ size <= MAX_PACKAGE_SIZE /\ HeaderSize + size <= l
      BY SMT, <2>4, StreamAssumption DEF HeaderSize
    <2>6. QED
      BY Zenon, <2>3, <2>5, <1>1, <1>2
  <1>7. Body = SubSeq(w, HeaderSize + 1, HeaderSize + size)
    BY Zenon, <1>2 DEF Body, originsize
  <1>8. Waiting' = SubSeq(w, HeaderSize + size + 1, Len(w))
    <2>1. Waiting' = Contents(Package)
      BY Zenon, <1>1 DEF Waiting, Contents
    <2>2. Contents(Package) = SubSeq(Waiting, HeaderSize + originsize + 1, Len(Waiting))
      BY Zenon, <1>1, InvParts, PackageCut
    <2>3. QED
      BY Zenon, <2>1, <2>2, <1>2 DEF originsize
  <1>9. /\ OnlyRequests /\ EventsFollow /\ ClosedIsDeaf /\ processed \in Seq(Requests)
        /\ reading /\ "in" \notin events /\ m_state # "kDisconnected"
    BY Zenon, <1>1, RequestsParts, ParseInPlace
  <1>10. CASE /\ ReadPackage(Body).ok /\ processed' = Append(processed, ReadPackage(Body).msg)
              /\ pc' = "parse" /\ UNCHANGED m_state
    <2>1. s[n + 1].legal
      <3>1. SUFFICES ASSUME ~s[n + 1].legal PROVE FALSE
        BY Zenon
      <3>2. ~ReadPackage(SubSeq(w, HeaderSize + 1, HeaderSize + size)).ok
        BY Zenon, <3>1, <1>2, <1>5, <1>6, IllegalNext
      <3>3. QED
        BY Zenon, <3>2, <1>7, <1>10
    <2>2. /\ ReadPackage(SubSeq(w, HeaderSize + 1, HeaderSize + size)).msg = s[n + 1].msg
          /\ Concat(SubSeq(s, 1, n + 1)) \o (SubSeq(w, HeaderSize + size + 1, Len(w)) \o t)
               = Concat(s)
      <3>1. Takes(s, n, w, t, size)
        BY Zenon, <2>1, <1>2, <1>5, <1>6, LegalNext
      <3>2. QED
        BY Zenon, <3>1 DEF Takes
    <2>3. PICK m : m = ReadPackage(Body).msg
      OBVIOUS
    <2>4. m = s[n + 1].msg
      BY Zenon, <2>2, <2>3, <1>7
    <2>5. n + 1 \in 1..Len(s) /\ n + 1 \in 0..Len(s) /\ n + 1 <= Len(s)
      BY SMT, <1>3, <1>4
    <2>6. m \in Requests
      BY Zenon, <2>4, <2>5, <1>2 DEF Requests
    <2>7. PICK p, R : p = processed /\ R = Requests
      OBVIOUS
    <2>8. /\ Append(p, m) \in Seq(R) /\ Len(Append(p, m)) = n + 1
          /\ Append(p, m)[n + 1] = m /\ \A i \in 1..n : Append(p, m)[i] = p[i]
      <3>1. p \in Seq(R) /\ m \in R /\ n = Len(p)
        BY Zenon, <2>6, <2>7, <1>2, <1>9
      <3>2. QED
        BY SMT, <3>1
    <2>9. processed' = Append(p, m) /\ Len(processed') = n + 1
      BY Zenon, <2>3, <2>7, <2>8, <1>10
    <2>10. \A i \in 1..(n + 1) : s[i].legal /\ Append(p, m)[i] = s[i].msg
      <3>1. \A i \in 1..n : s[i].legal /\ p[i] = s[i].msg
        BY Zenon, <2>7, <1>2, <1>9 DEF OnlyRequests
      <3>2. \A i \in 1..(n + 1) : i \in 1..n \/ i = n + 1
        BY SMT, <1>3
      <3>3. QED
        BY Zenon, <3>1, <3>2, <2>1, <2>4, <2>8
    <2>11. InPlace(Len(processed))'
      BY Zenon, <2>2, <2>9, <1>1, <1>2, <1>8 DEF InPlace
    <2>12. Whole(Len(processed))'
      <3>1. PICK v : v = SubSeq(w, HeaderSize + size + 1, Len(w))
        OBVIOUS
      <3>2. v \in Seq(Byte)
        <4>1. HeaderSize + size \in Nat /\ Len(w) <= Len(w)
          BY SMT, <1>3, <1>6 DEF HeaderSize
        <4>2. QED
          BY Zenon, <4>1, <3>1, <1>3, <1>6, Piece
      <3>3. Concat(SubSeq(s, 1, n + 1)) \o (v \o t) = Concat(s)
        BY Zenon, <3>1, <2>2
      <3>4. Len(Concat(SubSeq(s, 1, n + 1))) <= Len(Concat(s)) - Len(t)
        BY Zenon, <3>2, <3>3, <2>5, <1>3, WholeWhen
      <3>5. QED
        BY Zenon, <3>4, <2>9, <1>1, <1>2 DEF Whole
    <2>13. OnlyRequests'
      <3>1. script' = s /\ Requests' = R
        BY Zenon, <2>7, <1>1, <1>2 DEF Requests
      <3>2. QED
        BY Zenon, <3>1, <2>5, <2>8, <2>9, <2>10, <2>12, <1>3 DEF OnlyRequests
    <2>14. EventsFollow' /\ ClosedIsDeaf'
      BY Zenon, <1>1, <1>9, <1>10 DEF EventsFollow, ClosedIsDeaf
    <2>15. QED
      BY Zenon, <2>11, <2>13, <2>14, <1>10 DEF RequestsInv, InStep, NoneLeft
  <1>11. CASE ~ReadPackage(Body).ok /\ forceClose /\ pc' = "events" /\ UNCHANGED processed
    <2>1. m_state' = "kDisconnecting" /\ functors' = Append(functors, Functor("forceCloseInLoop", <<>>))
      BY Zenon, <1>9, <1>11 DEF forceClose
    <2>2. Closes(functors')
      <3>1. PICK f : f = Functor("forceCloseInLoop", <<>>)
        OBVIOUS
      <3>2. f.name = "forceCloseInLoop"
        BY <3>1 DEF Functor
      <3>3. functors \in Seq(Functors)
        BY Zenon, InvParts
      <3>4. QED
        BY Zenon, <3>1, <3>2, <3>3, <2>1, CloseQueued
    <2>3. Closing'
      BY Zenon, <2>2, <1>1, <1>9, <1>11 DEF Closing, Closes
    <2>4. NoneWhole'
      <3>1. ~s[n + 1].legal
        <4>1. SUFFICES ASSUME s[n + 1].legal PROVE FALSE
          BY Zenon
        <4>2. ReadPackage(SubSeq(w, HeaderSize + 1, HeaderSize + size)).ok
          BY Zenon, <4>1, <1>2, <1>5, <1>6, LegalNext DEF Takes
        <4>3. QED
          BY Zenon, <4>2, <1>7, <1>11
      <3>2. QED
        BY Zenon, <3>1, <1>1, <1>2, <1>11 DEF NoneWhole
    <2>5. OnlyRequests'
      BY Zenon, <1>1, <1>9, <1>11 DEF OnlyRequests, Requests, Whole
    <2>6. m_state' # "kDisconnected" /\ pc' # "parse" /\ pc' # "tasks"
      BY <2>1, <1>11
    <2>7. EventsFollow' /\ ClosedIsDeaf'
      BY Zenon, <2>6, <1>1, <1>9, <1>11 DEF EventsFollow, ClosedIsDeaf
    <2>8. QED
      BY Zenon, <2>3, <2>4, <2>5, <2>7 DEF RequestsInv, InStep, NoneLeft
  <1>12. PICK r \in Readings(Body) : ReadAs(r)
    BY Zenon, PackageRead
  <1>13. CASE ~PackageOverruns(Body)
    <2>1. r = ReadPackage(Body)
      BY Zenon, <1>13 DEF Readings
    <2>2. QED
      BY Zenon, <2>1, <1>10, <1>11, <1>12 DEF ReadAs, AfterPackage
  <1>14. CASE PackageOverruns(Body)
    <2>1. ~ReadPackage(Body).ok
      BY Zenon, <1>14, OverrunRefused
    <2>2. CASE ~r.ok
      BY Zenon, <2>1, <2>2, <1>11, <1>12 DEF ReadAs
    <2>3. CASE r.ok
      <3>1. ~s[n + 1].legal
        BY Zenon, <2>1, <1>2, <1>5, <1>6, <1>7, LegalNext DEF Takes
      <3>2. StartsOverrun(Concat(SubSeq(s, n + 1, Len(s))))
        BY Zenon, <3>1, <1>2, <1>5, <1>6, <1>7, <1>14, IllegalNext
      <3>3. Recorded' /\ Grows
        BY Zenon, Grown DEF Next, Loop
      <3>4. Exact(n) /\ n <= n
        <4>1. n <= n
          BY SMT, <1>3
        <4>2. QED
          BY Zenon, <4>1, <1>2, <1>9 DEF OnlyRequests, Exact
      <3>5. Exact(n)'
        BY Zenon, <3>3, <3>4, <1>2, <1>3, ExactStays
      <3>6. processed' = Append(processed, r.msg)
        BY Zenon, <2>3, <1>12 DEF ReadAs
      <3>7. Len(processed') = n + 1
        BY Zenon, <3>6, <1>2, <1>9, Appended
      <3>8. n < n + 1
        BY SMT, <1>3
      <3>9. PastOverrun(n)'
        BY Zenon, <3>2, <3>7, <3>8, <1>1, <1>2, <1>4 DEF PastOverrun
      <3>10. QED
        BY Zenon, <3>5, <3>9, <1>1, <1>2, <1>3 DEF Past
    <2>4. QED
      BY Zenon, <2>2, <2>3
  <1>15. QED
    BY Zenon, <1>13, <1>14

\* Every step keeps the requests exact.
LEMMA RequestsStep ==
    ASSUME StreamInv, Recorded, RequestsInv, [Next]_vars
    PROVE  RequestsInv' \/ Past'
  <1>1. CASE HandleRead
    BY Zenon, <1>1, RequestsRead
  <1>2. CASE HandleHup \/ HandleWrite \/ RunTask
    BY Zenon, <1>2, RequestsWritten
  <1>3. CASE onReadWaits \/ onReadRefusesHeader
    BY Zenon, <1>3, RequestsWait
  <1>4. CASE onReadThrows
    BY Zenon, <1>4, RequestsThrown
  <1>5. CASE onReadPackage
    BY Zenon, <1>5, RequestsPackage
  <1>6. CASE \/ Poll \/ BeginTasks
             \/ (\E m \in OtherMessages : OtherSend(m)) \/ OtherQueues
             \/ shutdown \/ ShutdownSets \/ ShutdownQueues \/ PeerEnds \/ UNCHANGED vars
    BY Zenon, <1>6, RequestsQuiet
  <1>7. QED
    BY Zenon, <1>1, <1>2, <1>3, <1>4, <1>5, <1>6 DEF Next, Loop

\* A new connection has no request, and none has arrived.
LEMMA InitRequests == Init => RequestsInv
  <1> SUFFICES ASSUME Init
               PROVE  RequestsInv
    OBVIOUS
  <1>1. /\ script \in Scripts /\ toSend = Concat(script) /\ inBuf = NewBuffer /\ processed = <<>>
        /\ m_state = "kConnected" /\ reading = TRUE /\ pc = "tasks" /\ events = {} /\ aborted = FALSE
    BY Zenon DEF Init
  <1>2. PICK s, w, t, n : s = script /\ w = Waiting /\ t = toSend /\ n = Len(processed)
    OBVIOUS
  <1>3. n = 0 /\ processed \in Seq(Requests) /\ \A i \in 1..n : FALSE
    BY SMT, <1>1, <1>2
  <1>4. s \in Scripts /\ Len(s) \in Nat
    BY Zenon, <1>1, <1>2, ScriptTyped
  <1>5. n \in 0..Len(s) /\ n <= Len(s) /\ (n # Len(s) => n < Len(s) /\ n + 1 \in 1..Len(s))
    BY SMT, <1>3, <1>4
  <1>6. w = <<>> /\ w \in Seq(Byte) /\ t \in Seq(Byte) /\ t = Concat(s)
    <2>1. w = <<>>
      BY Zenon, <1>1, <1>2, NewEmpty DEF Waiting
    <2>2. <<>> \in Seq(Byte)
      BY SMT
    <2>3. QED
      BY Zenon, <2>1, <2>2, <1>1, <1>2, <1>4, <1>5, Streams
  <1>7. Concat(SubSeq(s, 1, n)) \o (w \o t) = Concat(s)
    <2>1. Concat(SubSeq(s, 1, n)) = <<>>
      BY Zenon, <1>3, <1>4, <1>5, Streams
    <2>2. <<>> \o (<<>> \o t) = t
      BY SMT, <1>6
    <2>3. QED
      BY Zenon, <2>1, <2>2, <1>6
  <1>8. InPlace(Len(processed))
    BY Zenon, <1>2, <1>7 DEF InPlace
  <1>9. Whole(Len(processed))
    BY Zenon, <1>2, <1>4, <1>5, <1>6, <1>7, WholeWhen DEF Whole
  <1>10. NoneWhole
    <2>1. SUFFICES ASSUME n # Len(s), s[n + 1].legal PROVE ~Whole(n + 1)
      BY Zenon, <1>2 DEF NoneWhole
    <2>2. PICK k : k = Len(s[n + 1].bytes)
      OBVIOUS
    <2>3. IsRequest(s[n + 1]) /\ s[n + 1].bytes \in Seq(Byte) /\ n < Len(s)
      BY Zenon, <2>1, <1>4, <1>5, ScriptsAssumption
    <2>4. k >= HeaderSize /\ k \in Nat
      <3>1. k >= HeaderSize
        BY Zenon, <2>2, <2>3 DEF IsRequest, StartsLegal, StartsWhole
      <3>2. QED
        BY SMT, <2>2, <2>3, <3>1
    <2>5. Len(w) = 0
      BY SMT, <1>6
    <2>6. ~(k <= 0)
      BY SMT, <2>4 DEF HeaderSize
    <2>7. QED
      BY Zenon, <2>2, <2>3, <2>5, <2>6, <1>2, <1>4, <1>5, <1>6, <1>7, WholeWhen DEF Whole
  <1>11. OnlyRequests
    BY Zenon, <1>1, <1>2, <1>3, <1>5, <1>9 DEF OnlyRequests
  <1>12. EventsFollow /\ ClosedIsDeaf
    BY <1>1 DEF EventsFollow, ClosedIsDeaf
  <1>13. QED
    BY Zenon, <1>8, <1>10, <1>11, <1>12 DEF RequestsInv, InStep, NoneLeft

LEMMA InitRecorded == Init => Recorded
  <1>1. <<>> \in Seq({})
    BY SMT
  <1>2. QED
    BY Zenon, <1>1 DEF Init, Recorded

\* Whatever the client sends, however the kernel cuts it into reads and whatever
\* closes the connection meanwhile, process() gets the client's packages in
\* order and unchanged, each when it is whole and none behind an illegal one, and
\* onRead leaves no whole package in the buffer; what process() gets from a package
\* whose length overruns read7BitEncoded's buffer, and behind it, is left open.
THEOREM RequestsAreExact == Spec => []RequestsExact
  <1> DEFINE Inv == StreamInv /\ Recorded /\ (RequestsInv \/ Past)
  <1>1. Init => Inv
    BY InitStream, InitRequests, InitRecorded
  <1>2. Inv /\ [Next]_vars => Inv'
    <2> SUFFICES ASSUME Inv, [Next]_vars
                 PROVE  Inv'
      OBVIOUS
    <2>1. StreamInv' /\ Recorded' /\ Grows
      BY StreamStep, Grown
    <2>2. RequestsInv' \/ Past'
      BY Zenon, <2>1, RequestsStep, PastStays
    <2>3. QED
      BY <2>1, <2>2
  <1>3. Inv => RequestsExact
    <2>1. RequestsInv => RequestsExact
      BY Zenon DEF RequestsInv, OnlyRequests, NoneLeft, NoneWhole, RequestsExact, Exact
    <2>2. Past => RequestsExact
      BY Zenon DEF Past, RequestsExact
    <2>3. QED
      BY <2>1, <2>2
  <1> HIDE DEF Inv
  <1>4. QED
    BY <1>1, <1>2, <1>3, PTL DEF Spec

-----------------------------------------------------------------------------
(***************************************************************************)
(* The answers                                                             *)
(***************************************************************************)

\* What Packages does at offset i of a stream.
SizeAt(s, i) == FromHostOrder(SubSeq(s, i + 1, i + HeaderSize))
NextAt(s, i) == i + HeaderSize + SizeAt(s, i)
StopsAt(s, i) == i + HeaderSize > Len(s) \/ SizeAt(s, i) < 0 \/ NextAt(s, i) > Len(s)
ReadAt(s, i) ==
  LET r == ReadPackage(SubSeq(s, i + HeaderSize + 1, NextAt(s, i)))
  IN IF r.ok THEN r.msg ELSE Refused

\* g[i] are the packages from offset i on.
Unpacks(s, g, i) ==
  g[i] = IF StopsAt(s, i) THEN <<>> ELSE <<ReadAt(s, i)>> \o g[NextAt(s, i)]

\* The client moves on by at least a header.
LEMMA MovesOn ==
    ASSUME NEW s \in Seq(Byte), NEW i \in 0..Len(s), ~StopsAt(s, i)
    PROVE  NextAt(s, i) \in 0..Len(s) /\ NextAt(s, i) > i
  <1>1. PICK l : l = Len(s)
    OBVIOUS
  <1>2. l \in Nat /\ i \in Nat /\ i + 4 <= l
    <2>1. l \in Nat
      BY <1>1
    <2>2. i \in 0..l /\ ~(i + HeaderSize > l)
      BY Zenon, <1>1 DEF StopsAt
    <2>3. QED
      BY SMT, <2>1, <2>2 DEF HeaderSize
  <1>3. PICK h : h = SubSeq(s, i + 1, i + 4)
    OBVIOUS
  <1>4. h[1] \in Byte /\ h[2] \in Byte /\ h[3] \in Byte /\ h[4] \in Byte
    <2>1. PICK j : j = i + 4
      OBVIOUS
    <2>2. j \in Nat /\ i <= j /\ j <= Len(s) /\ j - i = 4
      BY SMT, <2>1, <1>1, <1>2
    <2>3. SubSeq(s, i + 1, j) \in Seq(Byte) /\ Len(SubSeq(s, i + 1, j)) = j - i
      BY Zenon, <2>2, <1>2, Piece
    <2>4. h \in Seq(Byte) /\ Len(h) = 4
      BY Zenon, <2>1, <2>2, <2>3, <1>3
    <2>5. \A k \in 1..Len(h) : h[k] \in Byte
      BY <2>4, ElementOfSeq
    <2>6. 1 \in 1..4 /\ 2 \in 1..4 /\ 3 \in 1..4 /\ 4 \in 1..4
      BY SMT
    <2>7. QED
      BY Zenon, <2>4, <2>5, <2>6
  <1>5. PICK t : t = <<h[4], h[3], h[2], h[1]>>
    OBVIOUS
  <1>6. t[1] = h[4] /\ t[2] = h[3] /\ t[3] = h[2] /\ t[4] = h[1]
    BY SMT, <1>5
  <1>7. ntohl(t) \in Int32
    BY Zenon, <1>4, <1>6, NtohlTyped
  <1>8. PICK z : z = ntohl(t)
    OBVIOUS
  <1>9. z \in Int
    BY SMT, <1>7, <1>8 DEF Int32
  <1>10. SizeAt(s, i) = z
    <2>1. HeaderSize = 4
      BY DEF HeaderSize
    <2>2. QED
      BY Zenon, <2>1, <1>3, <1>5, <1>8 DEF SizeAt, FromHostOrder
  <1>11. ~(z < 0) /\ ~(i + HeaderSize + z > l) /\ NextAt(s, i) = i + HeaderSize + z
    BY Zenon, <1>1, <1>10 DEF StopsAt, NextAt
  <1>12. i + HeaderSize + z \in 0..l /\ i + HeaderSize + z > i
    BY SMT, <1>2, <1>9, <1>11 DEF HeaderSize
  <1>13. QED
    BY Zenon, <1>1, <1>11, <1>12

\* The recursion of Packages has a solution: it is defined from the end.
LEMMA Unpacked ==
    ASSUME NEW s \in Seq(Byte)
    PROVE  \E g : g = [i \in 0..Len(s) |-> g[i]] /\ \A i \in 0..Len(s) : Unpacks(s, g, i)
  <1>1. PICK n : n = Len(s)
    OBVIOUS
  <1>2. n \in Nat
    BY SMT, <1>1
  <1> DEFINE From(k) == \E g : /\ g = [i \in 0..n |-> g[i]]
                               /\ \A i \in 0..n : i + k > n => Unpacks(s, g, i)
             T == {k \in Nat : k <= n + 1 => From(k)}
  <1>3. 0 \in T
    <2>1. PICK g : g = [i \in 0..n |-> <<>>]
      OBVIOUS
    <2>2. g = [i \in 0..n |-> g[i]]
      BY <2>1
    <2>3. \A i \in 0..n : ~(i + 0 > n)
      BY SMT, <1>2
    <2>4. From(0) /\ 0 \in Nat
      BY <2>2, <2>3
    <2>5. QED
      BY Zenon, <2>4
  <1>4. ASSUME NEW k \in Nat, k \in T PROVE k + 1 \in T
    <2>1. k + 1 \in Nat
      BY SMT
    <2>2. SUFFICES ASSUME k + 1 <= n + 1 PROVE From(k + 1)
      BY Zenon, <2>1
    <2>3. PICK j : j = n - k
      OBVIOUS
    <2>4. k <= n + 1 /\ j \in 0..n /\ \A i \in 0..n : i + (k + 1) > n => i = j \/ (i + k > n /\ i > j)
      BY SMT, <2>2, <2>3, <1>2
    <2>5. PICK g : g = [i \in 0..n |-> g[i]] /\ \A i \in 0..n : i + k > n => Unpacks(s, g, i)
      BY Zenon, <2>4, <1>4
    <2>6. PICK x : x = IF StopsAt(s, j) THEN <<>> ELSE <<ReadAt(s, j)>> \o g[NextAt(s, j)]
      OBVIOUS
    <2>7. PICK h : h = [i \in 0..n |-> IF i = j THEN x ELSE g[i]]
      OBVIOUS
    <2>8. h = [i \in 0..n |-> h[i]]
      BY <2>7
    <2>9. h[j] = x /\ \A i \in 0..n : i > j => h[i] = g[i]
      <3>1. \A i \in 0..n : i > j => i # j
        BY SMT, <2>4, <1>2
      <3>2. QED
        BY Zenon, <3>1, <2>4, <2>7
    <2>10. ASSUME NEW i \in 0..n, i = j \/ i > j, ~StopsAt(s, i)
           PROVE  h[NextAt(s, i)] = g[NextAt(s, i)]
      <3>1. PICK e : e = NextAt(s, i)
        OBVIOUS
      <3>2. e \in 0..n /\ e > i
        BY Zenon, <3>1, <2>10, <1>1, MovesOn
      <3>3. e > j
        BY SMT, <3>2, <2>4, <2>10, <1>2
      <3>4. QED
        BY Zenon, <3>1, <3>2, <3>3, <2>9
    <2>11. ASSUME NEW i \in 0..n, i + (k + 1) > n PROVE Unpacks(s, h, i)
      <3>1. CASE i = j
        BY Zenon, <3>1, <2>6, <2>9, <2>10 DEF Unpacks
      <3>2. CASE i + k > n /\ i > j
        <4>1. h[i] = g[i] /\ Unpacks(s, g, i)
          BY Zenon, <3>2, <2>5, <2>9
        <4>2. QED
          BY Zenon, <3>2, <4>1, <2>10 DEF Unpacks
      <3>3. QED
        BY Zenon, <3>1, <3>2, <2>4, <2>11
    <2>12. QED
      BY Zenon, <2>8, <2>11
  <1>5. n + 1 \in T
    <2> HIDE DEF T
    <2>1. n + 1 \in Nat
      BY SMT, <1>2
    <2>2. QED
      BY Zenon, <2>1, <1>3, <1>4, AllNat
  <1>6. n + 1 <= n + 1 /\ \A i \in 0..n : i + (n + 1) > n
    BY SMT, <1>2
  <1>7. From(n + 1)
    BY Zenon, <1>5, <1>6
  <1>8. QED
    BY Zenon, <1>1, <1>6, <1>7

\* Packages is that solution.
LEMMA PackagesFrom ==
    ASSUME NEW s \in Seq(Byte)
    PROVE  \E g : Packages(s) = g[0] /\ \A i \in 0..Len(s) : Unpacks(s, g, i)
  <1>1. PICK e : e = [i \in 0..Len(s) |-> e[i]] /\ \A i \in 0..Len(s) : Unpacks(s, e, i)
    BY Zenon, Unpacked
  <1> DEFINE size(i) == FromHostOrder(SubSeq(s, i + 1, i + HeaderSize))
             F(g) == [i \in 0..Len(s) |->
               IF i + HeaderSize > Len(s) \/ size(i) < 0 \/ i + HeaderSize + size(i) > Len(s) THEN <<>>
               ELSE LET r == ReadPackage(SubSeq(s, i + HeaderSize + 1, i + HeaderSize + size(i))) IN
                    <<IF r.ok THEN r.msg ELSE Refused>> \o g[i + HeaderSize + size(i)]]
             d == CHOOSE g : g = F(g)
  <1>2. e = F(e)
    <2>1. ASSUME NEW i \in 0..Len(s)
          PROVE  e[i] = F(e)[i]
      BY Zenon, <1>1 DEF Unpacks, StopsAt, ReadAt, NextAt, SizeAt
    <2>2. F(e) = [i \in 0..Len(s) |-> F(e)[i]]
      BY Zenon
    <2> HIDE DEF F
    <2>3. QED
      BY Zenon, <1>1, <2>1, <2>2
  <1>3. d = F(d)
    BY Zenon, <1>2
  <1>4. Packages(s) = d[0]
    BY Zenon DEF Packages
  <1> HIDE DEF d
  <1>5. ASSUME NEW i \in 0..Len(s) PROVE Unpacks(s, d, i)
    BY Zenon, <1>3 DEF Unpacks, StopsAt, ReadAt, NextAt, SizeAt
  <1>6. QED
    BY Zenon, <1>4, <1>5

\* Two cuts of one string, the first not behind the second.
TwoCuts(a, b, d, q) == a \o b = d \o q /\ Len(a) <= Len(d)

\* What lies between them.
Between(a, b, d, q) == \E y \in Seq(Byte) : d = a \o y /\ y \o q = b

\* Something does.
LEMMA Overlap ==
    ASSUME NEW a \in Seq(Byte), NEW b \in Seq(Byte), NEW d \in Seq(Byte), NEW q \in Seq(Byte),
           TwoCuts(a, b, d, q)
    PROVE  Between(a, b, d, q)
  <1>0. a \o b = d \o q /\ Len(a) <= Len(d)
    BY Zenon DEF TwoCuts
  <1>1. PICK all, n, y, o : all = a \o b /\ n = Len(a) /\ y = SubSeq(d, n + 1, Len(d)) /\ o = 0
    OBVIOUS
  <1>2. n \in Nat /\ o \in Nat /\ o <= n /\ n <= Len(d) /\ n \in 0..Len(d) /\ o + 1 = 1
    <2>1. PICK l : l = Len(d)
      OBVIOUS
    <2>2. n \in Nat /\ l \in Nat /\ n <= l
      BY <2>1, <1>0, <1>1
    <2>3. o \in Nat /\ o <= n /\ n \in 0..l /\ o + 1 = 1
      BY SMT, <2>2, <1>1
    <2>4. QED
      BY Zenon, <2>1, <2>2, <2>3
  <1>3. SubSeq(d \o q, o + 1, n) = SubSeq(d, o + 1, n)
    BY Zenon, <1>2, Front
  <1>4. SubSeq(a \o b, 1, Len(a)) = a
    BY Zenon, JoinCut
  <1>5. SubSeq(d, 1, n) = a
    BY Zenon, <1>0, <1>1, <1>2, <1>3, <1>4
  <1>6. SubSeq(d, 1, n) \o SubSeq(d, n + 1, Len(d)) = d
    BY Zenon, <1>2, CutJoin
  <1>7. d = a \o y
    BY Zenon, <1>1, <1>5, <1>6
  <1>8. y \in Seq(Byte)
    BY SMT, <1>1, <1>2
  <1>9. (a \o y) \o q = a \o (y \o q)
    BY ZenonT(60), <1>8, Associative
  <1>10. PICK u : u = y \o q
    OBVIOUS
  <1>11. u \in Seq(Byte) /\ a \o u = all /\ a \o b = all /\ all \in Seq(Byte)
    BY Zenon, <1>0, <1>1, <1>7, <1>8, <1>9, <1>10, Joined
  <1>12. u = SubSeq(all, Len(a) + 1, Len(all))
    BY Zenon, <1>11, SplitMade
  <1>13. b = SubSeq(all, Len(a) + 1, Len(all))
    BY Zenon, <1>11, SplitMade
  <1>14. QED
    BY Zenon, <1>7, <1>8, <1>10, <1>12, <1>13 DEF Between

\* Cutting out of the second part of a joined string.
LEMMA Back ==
    ASSUME NEW x \in Seq(Byte), NEW y \in Seq(Byte), NEW i \in Nat, NEW j \in Nat,
           i <= j, j <= Len(y)
    PROVE  SubSeq(x \o y, (Len(x) + i) + 1, Len(x) + j) = SubSeq(y, i + 1, j)
  <1>1. PICK s, n, k, l : s = x \o y /\ n = Len(x) /\ k = n + i /\ l = n + j
    OBVIOUS
  <1>2. n \in Nat /\ Len(y) \in Nat
    BY SMT, <1>1
  <1>3. /\ s \in Seq(Byte) /\ Len(s) = n + Len(y)
        /\ \A h \in 1..Len(y) : s[n + h] = y[h]
    BY Zenon, <1>1, Joined
  <1>4. k \in Nat /\ l \in Nat /\ k <= l /\ l <= Len(s) /\ l - k = j - i
    BY SMT, <1>1, <1>2, <1>3
  <1>5. PICK u, v : u = SubSeq(s, k + 1, l) /\ v = SubSeq(y, i + 1, j)
    OBVIOUS
  <1>6. /\ u \in Seq(Byte) /\ Len(u) = l - k
        /\ \A h \in 1..(l - k) : u[h] = s[k + h]
    BY Zenon, <1>3, <1>4, <1>5, Piece
  <1>7. /\ v \in Seq(Byte) /\ Len(v) = j - i
        /\ \A h \in 1..(j - i) : v[h] = y[i + h]
    BY Zenon, <1>5, Piece
  <1>8. ASSUME NEW h \in 1..(j - i) PROVE u[h] = v[h]
    <2>1. i + h \in 1..Len(y) /\ k + h = n + (i + h)
      BY SMT, <1>1, <1>2
    <2>2. QED
      BY Zenon, <2>1, <1>3, <1>4, <1>6, <1>7
  <1>9. u = v
    BY Zenon, <1>4, <1>6, <1>7, <1>8, SameBytes
  <1>10. QED
    BY Zenon, <1>1, <1>5, <1>9

\* The header of the package that starts behind x.
LEMMA HeaderBehind ==
    ASSUME NEW x \in Seq(Byte), NEW y \in Seq(Byte), Len(y) >= HeaderSize
    PROVE  SizeAt(x \o y, Len(x)) = FromHostOrder(y)
  <1>1. PICK o, h : o = 0 /\ h = SubSeq(y, 1, 4)
    OBVIOUS
  <1>2. /\ o \in Nat /\ HeaderSize \in Nat /\ o <= HeaderSize /\ HeaderSize <= Len(y) /\ o + 1 = 1
        /\ HeaderSize = 4 /\ Len(x) + o = Len(x)
    <2>1. PICK l, n : l = Len(y) /\ n = Len(x)
      OBVIOUS
    <2>2. l \in Nat /\ n \in Nat /\ l >= HeaderSize
      BY <2>1
    <2>3. /\ o \in Nat /\ HeaderSize \in Nat /\ o <= HeaderSize /\ HeaderSize <= l /\ o + 1 = 1
          /\ HeaderSize = 4 /\ n + o = n
      BY SMT, <2>2, <1>1 DEF HeaderSize
    <2>4. QED
      BY Zenon, <2>1, <2>3
  <1>3. SubSeq(x \o y, (Len(x) + o) + 1, Len(x) + HeaderSize) = SubSeq(y, o + 1, HeaderSize)
    BY Zenon, <1>2, Back
  <1>4. SizeAt(x \o y, Len(x)) = FromHostOrder(h)
    BY Zenon, <1>1, <1>2, <1>3 DEF SizeAt
  <1>5. h[1] = y[1] /\ h[2] = y[2] /\ h[3] = y[3] /\ h[4] = y[4]
    <2>1. Len(y) >= 4 /\ Len(y) \in Nat
      BY SMT, <1>2
    <2>2. QED
      BY SMT, <2>1, <1>1
  <1>6. QED
    BY Zenon, <1>4, <1>5 DEF FromHostOrder

\* Where a frame starts, the client reads its message and moves on behind it.
LEMMA ReadFrame ==
    ASSUME NEW x \in Seq(Byte), NEW m \in Message, NEW rest \in Seq(Byte),
           NEW s, s = x \o (Frame(m) \o rest)
    PROVE  /\ ~StopsAt(s, Len(x)) /\ ReadAt(s, Len(x)) = m
           /\ NextAt(s, Len(x)) = Len(x \o Frame(m)) /\ Len(x) \in 0..Len(s)
  <1>1. PICK f, y, size, n : /\ f = Frame(m) /\ y = f \o rest /\ size = FromHostOrder(y)
                             /\ n = Len(x)
    OBVIOUS
  <1>2. y = Frame(m) \o rest /\ s = x \o y
    BY Zenon, <1>1
  <1>3. /\ f \in Seq(Byte) /\ size \in Nat /\ size + HeaderSize <= Len(y)
        /\ ReadPackage(SubSeq(y, HeaderSize + 1, HeaderSize + size)) = [ok |-> TRUE, msg |-> m]
        /\ SubSeq(y, HeaderSize + size + 1, Len(y)) = rest
    <2>1. Framed(m, rest, y, size)
      BY Zenon, <1>1, <1>2, FrameCut
    <2>2. QED
      BY Zenon, <2>1, <1>1 DEF Framed
  <1>4. y \in Seq(Byte) /\ Len(y) = Len(f) + Len(rest)
    BY Zenon, <1>1, <1>3, Joined
  <1>5. s \in Seq(Byte) /\ Len(s) = n + Len(y)
    BY ZenonT(60), <1>1, <1>2, <1>4, Joined
  <1>6. Len(x \o f) = n + Len(f)
    BY Zenon, <1>1, <1>3, Joined
  <1>7. n \in Nat /\ Len(f) \in Nat /\ Len(rest) \in Nat
    BY SMT, <1>1, <1>3
  <1>8. PICK a, b, e, l : a = Len(f) /\ b = Len(y) /\ e = Len(rest) /\ l = Len(s)
    OBVIOUS
  <1>9. /\ a \in Nat /\ e \in Nat /\ b = a + e /\ l = n + b /\ size + HeaderSize <= b
    BY Zenon, <1>3, <1>4, <1>5, <1>7, <1>8
  <1>10. size + HeaderSize = a
    <2>1. PICK h : h = HeaderSize + size
      OBVIOUS
    <2>2. h \in Nat /\ h <= b /\ b \in Nat
      BY SMT, <2>1, <1>3, <1>9 DEF HeaderSize
    <2>3. SubSeq(y, h + 1, b) = rest
      BY Zenon, <2>1, <1>3, <1>8
    <2>4. b <= Len(y)
      BY SMT, <1>8, <2>2
    <2>5. Len(SubSeq(y, h + 1, b)) = b - h
      BY Zenon, <2>2, <2>4, <1>4, Piece
    <2>6. e = b - h
      BY Zenon, <2>3, <2>5, <1>8
    <2>7. QED
      BY SMT, <2>1, <2>2, <2>6, <1>3, <1>9 DEF HeaderSize
  <1>11. /\ b >= HeaderSize /\ HeaderSize \in Nat /\ HeaderSize + size \in Nat
         /\ HeaderSize <= HeaderSize + size /\ HeaderSize + size <= b
         /\ n + HeaderSize + size = n + (HeaderSize + size) /\ n + HeaderSize + size = n + a
         /\ ~(n + HeaderSize > l) /\ ~(size < 0) /\ ~(n + HeaderSize + size > l) /\ n \in 0..l
    BY SMT, <1>3, <1>7, <1>9, <1>10 DEF HeaderSize
  <1>12. SizeAt(s, n) = size
    BY Zenon, <1>1, <1>2, <1>4, <1>8, <1>11, HeaderBehind
  <1>13. NextAt(s, n) = n + a
    BY Zenon, <1>11, <1>12 DEF NextAt
  <1>14. ~StopsAt(s, n)
    BY Zenon, <1>8, <1>11, <1>12 DEF StopsAt, NextAt
  <1>15. SubSeq(s, n + HeaderSize + 1, NextAt(s, n)) = SubSeq(y, HeaderSize + 1, HeaderSize + size)
    <2>1. PICK h, k : h = HeaderSize /\ k = HeaderSize + size
      OBVIOUS
    <2>2. h \in Nat /\ k \in Nat /\ h <= k /\ k <= Len(y)
      BY Zenon, <2>1, <1>8, <1>11
    <2>3. SubSeq(x \o y, (Len(x) + h) + 1, Len(x) + k) = SubSeq(y, h + 1, k)
      BY Zenon, <2>2, <1>4, Back
    <2>4. NextAt(s, n) = n + k
      BY Zenon, <2>1, <1>11, <1>13
    <2>5. QED
      BY Zenon, <2>1, <2>3, <2>4, <1>1, <1>2
  <1>16. ReadAt(s, n) = m
    <2>1. PICK g : g = ReadPackage(SubSeq(s, n + HeaderSize + 1, NextAt(s, n)))
      OBVIOUS
    <2>2. g = [ok |-> TRUE, msg |-> m]
      BY Zenon, <2>1, <1>3, <1>15
    <2>3. g.ok = TRUE /\ g.msg = m
      BY <2>2
    <2>4. QED
      BY Zenon, <2>1, <2>3 DEF ReadAt
  <1>17. QED
    BY Zenon, <1>1, <1>6, <1>8, <1>11, <1>13, <1>14, <1>16

\* Where the stream breaks off inside a frame, or ends, the client stops.
LEMMA ReadPart ==
    ASSUME NEW x \in Seq(Byte), NEW y \in Seq(Byte), NEW z \in Seq(Byte), NEW m \in Message,
           y \o z = Frame(m), Len(y) < Len(Frame(m)), NEW s, s = x \o y
    PROVE  StopsAt(s, Len(x))
  <1>1. PICK f, size, n, a, b : /\ f = Frame(m) /\ size = FromHostOrder(f) /\ n = Len(x)
                                /\ a = Len(f) /\ b = Len(y)
    OBVIOUS
  <1>2. Len(s) = n + b
    BY Zenon, <1>1, Joined
  <1>3. n \in Nat /\ b \in Nat /\ b < a
    BY SMT, <1>1
  <1>4. CASE ~(b >= HeaderSize)
    <2>1. n + HeaderSize > n + b
      BY SMT, <1>3, <1>4 DEF HeaderSize
    <2>2. QED
      BY Zenon, <2>1, <1>1, <1>2 DEF StopsAt
  <1>5. CASE b >= HeaderSize
    <2>1. FromHostOrder(y \o z) = FromHostOrder(y)
      BY Zenon, <1>1, <1>5, SameHeader
    <2>2. SizeAt(x \o y, Len(x)) = FromHostOrder(y)
      BY Zenon, <1>1, <1>5, HeaderBehind
    <2>3. SizeAt(s, n) = size
      BY Zenon, <2>1, <2>2, <1>1
    <2>4. size \in Nat /\ HeaderSize + size = a
      <3>1. PICK w : w = WritePackage(m)
        OBVIOUS
      <3>2. w \in Seq(Byte) /\ Len(w) \in Int32
        BY Zenon, <3>1, PackageInverse
      <3>3. PICK h : h = HostOrder(Len(w))
        OBVIOUS
      <3>4. Len(w) \in Nat /\ Len(w) \in Int
        BY <3>2
      <3>5. h \in Seq(Byte) /\ Len(h) = 4 /\ FromHostOrder(h) = Len(w)
        BY Zenon, <3>2, <3>3, <3>4, HtonlBytes, HtonlInverse
      <3>6. f = h \o w
        BY Zenon, <3>1, <3>3, <1>1 DEF Frame
      <3>7. Len(f) = Len(h) + Len(w)
        BY Zenon, <3>2, <3>5, <3>6, Joined
      <3>8. Len(h) >= HeaderSize /\ HeaderSize = 4
        BY SMT, <3>5 DEF HeaderSize
      <3>9. FromHostOrder(h \o w) = FromHostOrder(h)
        BY Zenon, <3>2, <3>5, <3>8, SameHeader
      <3>10. QED
        BY Zenon, <3>4, <3>5, <3>6, <3>7, <3>8, <3>9, <1>1
    <2>5. n + HeaderSize + size > n + b
      BY SMT, <2>4, <1>3 DEF HeaderSize
    <2>6. QED
      BY Zenon, <2>3, <2>5, <1>1, <1>2 DEF StopsAt, NextAt
  <1>6. QED
    BY Zenon, <1>4, <1>5

\* The string all is the frames of ms: c[i] the first i of them, r[i] the others.
Cuts(all, ms, c, r) ==
  /\ ms \in Seq(Message)
  /\ c \in [0..Len(ms) -> Seq(Byte)] /\ r \in [0..Len(ms) -> Seq(Byte)]
  /\ c[0] = <<>> /\ r[Len(ms)] = <<>>
  /\ \A i \in 0..Len(ms) : c[i] \o r[i] = all
  /\ \A i \in 1..Len(ms) : c[i] = c[i - 1] \o Frame(ms[i]) /\ r[i - 1] = Frame(ms[i]) \o r[i]

\* Of the cuts of a string, the last one its front d reaches.
LEMMA LastCut ==
    ASSUME NEW n \in Nat, NEW c, NEW l \in Nat, \A i \in 0..n : Len(c[i]) \in Nat, Len(c[0]) <= l
    PROVE  \E j \in 0..n : Len(c[j]) <= l /\ (j # n => ~(Len(c[j + 1]) <= l))
  <1> DEFINE T == {x \in Nat : x <= n /\ Len(c[n - x]) <= l}
  <1>1. n \in T
    <2>1. n <= n /\ n - n = 0
      BY SMT
    <2>2. QED
      BY Zenon, <2>1
  <1>2. T \in SUBSET Nat /\ T # {}
    BY Zenon, <1>1
  <1>3. PICK x \in T : \A y \in T : x <= y
    <2> HIDE DEF T
    <2>1. QED
      BY Zenon, <1>2, LeastNat
  <1>4. x \in Nat /\ x <= n /\ Len(c[n - x]) <= l
    BY Zenon, <1>3
  <1>5. PICK j : j = n - x
    OBVIOUS
  <1>6. j \in 0..n
    BY SMT, <1>4, <1>5
  <1>7. ASSUME j # n, Len(c[j + 1]) <= l PROVE FALSE
    <2>1. x - 1 \in Nat /\ x - 1 <= n /\ n - (x - 1) = j + 1 /\ ~(x <= x - 1)
      BY SMT, <1>4, <1>5, <1>7
    <2>2. x - 1 \in T
      BY Zenon, <2>1, <1>7
    <2>3. QED
      BY Zenon, <2>1, <2>2, <1>3
  <1>8. QED
    BY Zenon, <1>4, <1>5, <1>6, <1>7

\* The client stops behind x, with which d begins.
StopsBehind(d, x) == StopsAt(d, Len(x)) /\ \E y \in Seq(Byte) : d = x \o y

\* The client stops where the string breaks off.
LEMMA BreaksOff ==
    ASSUME NEW d \in Seq(Byte), NEW q \in Seq(Byte), NEW ms, NEW c, NEW r,
           Cuts(d \o q, ms, c, r), NEW j \in 0..Len(ms), Len(c[j]) <= Len(d),
           j # Len(ms) => ~(Len(c[j + 1]) <= Len(d))
    PROVE  StopsBehind(d, c[j])
  <1>1. PICK n : n = Len(ms)
    OBVIOUS
  <1>2. PICK x, z : x = c[j] /\ z = r[j]
    OBVIOUS
  <1>3. x \in Seq(Byte) /\ z \in Seq(Byte) /\ x \o z = d \o q
    BY Zenon, <1>2 DEF Cuts
  <1>4. PICK y \in Seq(Byte) : d = x \o y /\ y \o q = z
    <2>1. TwoCuts(x, z, d, q)
      BY Zenon, <1>2, <1>3 DEF TwoCuts
    <2>2. Between(x, z, d, q)
      BY Zenon, <2>1, <1>3, Overlap
    <2>3. QED
      BY Zenon, <2>2 DEF Between
  <1>5. n \in Nat /\ j \in Nat /\ (j # n => j + 1 \in 1..n /\ j + 1 \in 0..n /\ (j + 1) - 1 = j)
    <2>1. ms \in Seq(Message)
      BY Zenon DEF Cuts
    <2>2. n \in Nat
      BY <2>1, <1>1
    <2>3. j \in 0..n
      BY Zenon, <1>1
    <2>4. QED
      BY SMT, <2>2, <2>3
  <1>6. Len(d) = Len(x) + Len(y) /\ Len(x) \in Nat /\ Len(y) \in Nat /\ Len(q) \in Nat
    <2>1. Len(d) = Len(x) + Len(y)
      BY Zenon, <1>3, <1>4, Joined
    <2>2. QED
      BY <2>1, <1>3, <1>4
  <1>7. CASE j = n
    <2>1. z = <<>>
      BY Zenon, <1>1, <1>2, <1>7 DEF Cuts
    <2>2. Len(z) = Len(y) + Len(q)
      BY Zenon, <1>4, Joined
    <2>3. Len(z) = 0
      BY SMT, <2>1
    <2>4. Len(x) + HeaderSize > Len(d)
      <3>1. PICK a, b, h, e : a = Len(x) /\ b = Len(y) /\ h = Len(q) /\ e = Len(d)
        OBVIOUS
      <3>2. a \in Nat /\ b \in Nat /\ h \in Nat /\ b + h = 0 /\ e = a + b
        BY Zenon, <3>1, <2>2, <2>3, <1>6
      <3>3. a + HeaderSize > e
        BY SMT, <3>2 DEF HeaderSize
      <3>4. QED
        BY Zenon, <3>1, <3>3
    <2>5. QED
      BY Zenon, <2>4, <1>2, <1>4 DEF StopsAt, StopsBehind
  <1>8. CASE j # n
    <2>1. PICK m, f, t : m = ms[j + 1] /\ f = Frame(m) /\ t = r[j + 1]
      OBVIOUS
    <2>2. m \in Message
      <3>1. ms \in Seq(Message)
        BY Zenon DEF Cuts
      <3>2. \A i \in 1..Len(ms) : ms[i] \in Message
        BY <3>1, ElementOfSeq
      <3>3. QED
        BY Zenon, <3>2, <2>1, <1>1, <1>5, <1>8
    <2>3. f \in Seq(Byte)
      BY Zenon, <2>1, <2>2, FrameTyped DEF Frames
    <2>4. t \in Seq(Byte) /\ z = f \o t /\ c[j + 1] = x \o f
      BY Zenon, <2>1, <1>1, <1>2, <1>5, <1>8 DEF Cuts
    <2>5. Len(x \o f) = Len(x) + Len(f) /\ ~(Len(x \o f) <= Len(d))
      BY Zenon, <2>3, <2>4, <1>1, <1>3, <1>8, Joined
    <2>6. Len(y) < Len(f) /\ Len(y) <= Len(f)
      <3>1. Len(f) \in Nat
        BY <2>3
      <3>2. QED
        BY SMT, <3>1, <2>5, <1>6
    <2>7. y \o q = f \o t
      BY Zenon, <2>4, <1>4
    <2>8. PICK v \in Seq(Byte) : f = y \o v
      <3>1. TwoCuts(y, q, f, t)
        BY Zenon, <2>6, <2>7 DEF TwoCuts
      <3>2. Between(y, q, f, t)
        BY Zenon, <3>1, <2>3, <2>4, <1>4, Overlap
      <3>3. QED
        BY Zenon, <3>2 DEF Between
    <2>9. y \o v = Frame(m) /\ Len(y) < Len(Frame(m))
      BY Zenon, <2>1, <2>6, <2>8
    <2>10. StopsAt(d, Len(x))
      BY Zenon, <2>2, <2>9, <1>3, <1>4, ReadPart
    <2>11. QED
      BY Zenon, <2>10, <1>2, <1>4 DEF StopsBehind
  <1>9. QED
    BY Zenon, <1>1, <1>7, <1>8

\* The messages of ms behind the first i, one earlier.
LEMMA OneEarlier ==
    ASSUME NEW S, NEW ms \in Seq(S), NEW i \in Nat, NEW j \in Nat, i < j, j <= Len(ms)
    PROVE  <<ms[i + 1]>> \o SubSeq(ms, (i + 1) + 1, j) = SubSeq(ms, i + 1, j)
  <1>1. PICK a, b, e, f : /\ a = SubSeq(ms, (i + 1) + 1, j) /\ b = SubSeq(ms, i + 1, j)
                          /\ e = ms[i + 1] /\ f = i + 1
    OBVIOUS
  <1>2. f \in Nat /\ f <= j /\ i <= j
    BY SMT, <1>1
  <1>3. /\ SubSeq(ms, f + 1, j) \in Seq(S) /\ Len(SubSeq(ms, f + 1, j)) = j - f
        /\ \A k \in 1..(j - f) : SubSeq(ms, f + 1, j)[k] = ms[f + k]
    BY Zenon, <1>2, PieceOf
  <1>4. /\ SubSeq(ms, i + 1, j) \in Seq(S) /\ Len(SubSeq(ms, i + 1, j)) = j - i
        /\ \A k \in 1..(j - i) : SubSeq(ms, i + 1, j)[k] = ms[i + k]
    BY Zenon, <1>2, PieceOf
  <1>5. e \in S
    BY SMT, <1>1
  <1>6. a \in Seq(S) /\ Len(a) = j - (i + 1) /\ \A k \in 1..(j - (i + 1)) : a[k] = ms[(i + 1) + k]
    BY Zenon, <1>1, <1>3
  <1>7. b \in Seq(S) /\ Len(b) = j - i /\ \A k \in 1..(j - i) : b[k] = ms[i + k]
    BY Zenon, <1>1, <1>4
  <1>8. PICK u : u = <<e>> \o a
    OBVIOUS
  <1>9. u \in Seq(S) /\ Len(u) = j - i /\ u[1] = e /\ \A k \in 1..(j - i) : k # 1 => u[k] = a[k - 1]
    BY SMT, <1>5, <1>6, <1>8
  <1>10. ASSUME NEW k \in 1..(j - i) PROVE u[k] = b[k]
    <2>1. CASE k = 1
      BY Zenon, <2>1, <1>1, <1>7, <1>9
    <2>2. CASE k # 1
      <3>1. k - 1 \in 1..(j - (i + 1)) /\ (i + 1) + (k - 1) = i + k
        BY SMT, <2>2
      <3>2. QED
        BY Zenon, <3>1, <2>2, <1>6, <1>7, <1>9
    <2>3. QED
      BY Zenon, <2>1, <2>2
  <1>11. u = b
    BY SMT, <1>7, <1>9, <1>10
  <1>12. QED
    BY Zenon, <1>1, <1>8, <1>11

\* What the client reads of a front of the string: the first messages.
LEMMA PackagesRead ==
    ASSUME NEW d \in Seq(Byte), NEW q \in Seq(Byte), NEW ms, NEW c, NEW r,
           Cuts(d \o q, ms, c, r)
    PROVE  \E j \in 0..Len(ms) : Packages(d) = SubSeq(ms, 1, j)
  <1>1. PICK n : n = Len(ms)
    OBVIOUS
  <1>2. ms \in Seq(Message) /\ n \in Nat
    <2>1. ms \in Seq(Message)
      BY Zenon DEF Cuts
    <2>2. QED
      BY <2>1, <1>1
  <1>3. \A i \in 0..n : c[i] \in Seq(Byte) /\ Len(c[i]) \in Nat
    <2>1. ASSUME NEW i \in 0..n PROVE c[i] \in Seq(Byte) /\ Len(c[i]) \in Nat
      <3>1. PICK x : x = c[i]
        OBVIOUS
      <3>2. x \in Seq(Byte)
        BY Zenon, <3>1, <1>1 DEF Cuts
      <3>3. Len(x) \in Nat
        BY <3>2
      <3>4. QED
        BY Zenon, <3>1, <3>2, <3>3
    <2>2. QED
      BY Zenon, <2>1
  <1>4. PICK l : l = Len(d)
    OBVIOUS
  <1>5. l \in Nat /\ c[0] = <<>> /\ Len(c[0]) = 0 /\ Len(c[0]) <= l
    <2>1. l \in Nat
      BY <1>4
    <2>2. c[0] = <<>>
      BY Zenon DEF Cuts
    <2>3. QED
      BY SMT, <2>1, <2>2
  <1>6. PICK j \in 0..n : Len(c[j]) <= l /\ (j # n => ~(Len(c[j + 1]) <= l))
    BY Zenon, <1>2, <1>3, <1>5, LastCut
  <1>7. /\ StopsAt(d, Len(c[j])) /\ \E y \in Seq(Byte) : d = c[j] \o y
    <2>1. j \in 0..Len(ms) /\ Len(c[j]) <= Len(d) /\ (j # Len(ms) => ~(Len(c[j + 1]) <= Len(d)))
      BY Zenon, <1>1, <1>4, <1>6
    <2>2. StopsBehind(d, c[j])
      BY Zenon, <2>1, BreaksOff
    <2>3. QED
      BY Zenon, <2>2 DEF StopsBehind
  <1>8. PICK g : Packages(d) = g[0] /\ \A i \in 0..Len(d) : Unpacks(d, g, i)
    BY Zenon, PackagesFrom
  <1>9. j \in Nat /\ j <= n
    BY SMT, <1>2, <1>6
  <1> DEFINE FromCut(i) == /\ \E y \in Seq(Byte) : d = c[i] \o y
                       /\ g[Len(c[i])] = SubSeq(ms, i + 1, j)
             T == {k \in Nat : k <= j => FromCut(j - k)}
  <1>10. 0 \in T
    <2>1. 0 \in Nat /\ j - 0 = j
      BY SMT, <1>9
    <2>2. Len(c[j]) \in 0..Len(d)
      <3>1. Len(c[j]) \in Nat
        BY Zenon, <1>3
      <3>2. QED
        BY SMT, <3>1, <1>4, <1>5, <1>6
    <2>3. g[Len(c[j])] = <<>>
      BY Zenon, <2>2, <1>7, <1>8 DEF Unpacks
    <2>4. SubSeq(ms, j + 1, j) = <<>>
      BY SMT, <1>2, <1>9
    <2>5. FromCut(j)
      BY Zenon, <2>3, <2>4, <1>7
    <2> HIDE DEF FromCut
    <2>6. QED
      BY Zenon, <2>1, <2>5
  <1>11. ASSUME NEW k \in Nat, k \in T PROVE k + 1 \in T
    <2>1. k + 1 \in Nat
      BY SMT
    <2>2. SUFFICES ASSUME k + 1 <= j PROVE FromCut(j - (k + 1))
      BY Zenon, <2>1
    <2>3. PICK i, e : i = j - (k + 1) /\ e = i + 1
      OBVIOUS
    <2>4. /\ k <= j /\ j - k = e /\ i \in Nat /\ i < j /\ e \in 1..n /\ e \in 0..n /\ i \in 0..n
          /\ e - 1 = i /\ j <= n
      BY SMT, <2>2, <2>3, <1>2, <1>9
    <2>5. FromCut(e)
      <3> HIDE DEF FromCut
      <3>1. FromCut(j - k)
        BY Zenon, <2>4, <1>11
      <3>2. QED
        BY Zenon, <3>1, <2>4
    <2>6. PICK y \in Seq(Byte) : d = c[e] \o y
      BY Zenon, <2>5
    <2>7. PICK x, m, f : x = c[i] /\ m = ms[e] /\ f = Frame(m)
      OBVIOUS
    <2>8. x \in Seq(Byte) /\ m \in Message /\ c[e] = x \o f
      <3>1. \A h \in 1..Len(ms) : ms[h] \in Message
        BY <1>2, ElementOfSeq
      <3>2. QED
        BY Zenon, <3>1, <2>4, <2>7, <1>1, <1>3 DEF Cuts
    <2>9. f \in Seq(Byte)
      BY Zenon, <2>7, <2>8, FrameTyped DEF Frames
    <2>10. d = x \o (f \o y) /\ f \o y \in Seq(Byte)
      <3>1. (x \o f) \o y = x \o (f \o y)
        BY ZenonT(60), <2>6, <2>8, <2>9, Associative
      <3>2. QED
        BY Zenon, <3>1, <2>6, <2>8, <2>9, Joined
    <2>11. /\ ~StopsAt(d, Len(x)) /\ ReadAt(d, Len(x)) = m
           /\ NextAt(d, Len(x)) = Len(x \o f) /\ Len(x) \in 0..Len(d)
      <3>1. d = x \o (Frame(m) \o y)
        BY Zenon, <2>7, <2>10
      <3>2. /\ ~StopsAt(d, Len(x)) /\ ReadAt(d, Len(x)) = m
            /\ NextAt(d, Len(x)) = Len(x \o Frame(m)) /\ Len(x) \in 0..Len(d)
        BY Zenon, <3>1, <2>6, <2>8, ReadFrame
      <3>3. QED
        BY Zenon, <3>2, <2>7
    <2>12. g[Len(x)] = <<m>> \o g[Len(c[e])]
      BY Zenon, <2>8, <2>11, <1>8 DEF Unpacks
    <2>13. g[Len(c[e])] = SubSeq(ms, (i + 1) + 1, j)
      BY Zenon, <2>3, <2>5
    <2>14. <<ms[i + 1]>> \o SubSeq(ms, (i + 1) + 1, j) = SubSeq(ms, i + 1, j)
      BY Zenon, <2>4, <1>1, <1>2, <1>9, OneEarlier
    <2>15. g[Len(c[i])] = SubSeq(ms, i + 1, j)
      BY Zenon, <2>3, <2>7, <2>12, <2>13, <2>14
    <2>16. FromCut(i)
      BY Zenon, <2>7, <2>10, <2>15
    <2> HIDE DEF FromCut
    <2>17. QED
      BY Zenon, <2>3, <2>16
  <1>12. j \in T
    <2> HIDE DEF T
    <2>1. QED
      BY Zenon, <1>9, <1>10, <1>11, AllNat
  <1>13. j <= j /\ j - j = 0 /\ 0 + 1 = 1
    BY SMT, <1>9
  <1>14. FromCut(0)
    <2> HIDE DEF FromCut
    <2>1. QED
      BY Zenon, <1>12, <1>13
  <1>15. g[0] = SubSeq(ms, 1, j)
    BY Zenon, <1>5, <1>13, <1>14
  <1>16. QED
    BY Zenon, <1>1, <1>8, <1>15

\* The message m is the next answer, or one of another thread's: the messages
\* before it hold a answers, with it b.
NextSent(m, p, a, b) ==
  \/ b = a + 1 /\ m = Answer(p[b])
  \/ b = a /\ m \in OtherMessages

\* The messages ms are k answers and o others, ans[i] of the first i answers.
Counts(ms, p, ans, k, o) ==
  /\ ans \in [0..Len(ms) -> Nat]
  /\ ans[0] = 0 /\ Len(ms) = k + o /\ ans[Len(ms)] = k
  /\ \A i \in 0..Len(ms) : ans[i] <= k /\ i - ans[i] <= o
  /\ \A i \in 1..Len(ms) : NextSent(ms[i], p, ans[i - 1], ans[i])

\* The string all is the frames of the answers to the first k requests of p, in
\* order, and between them those of o messages of other threads.
Sent(all, p, k, o) ==
  \E ms, c, r, ans : Cuts(all, ms, c, r) /\ Counts(ms, p, ans, k, o)

\* Nothing was sent.
LEMMA SentNothing ==
    ASSUME NEW p
    PROVE  Sent(<<>>, p, 0, 0)
  <1>1. PICK e, ms, n, c, ans : /\ e = <<>> /\ ms = <<>> /\ n = 0 /\ c = [i \in 0..n |-> e]
                                /\ ans = [i \in 0..n |-> n]
    OBVIOUS
  <1>2. e \in Seq(Byte) /\ ms \in Seq(Message) /\ Len(ms) = n /\ e \o e = e
    BY SMT, <1>1
  <1>3. 0 \in 0..n /\ n \in Nat /\ n <= 0 /\ n - n <= 0 /\ n = 0 + 0 /\ \A i \in 0..n : i = n
    BY SMT, <1>1
  <1>4. \A i \in 1..n : FALSE
    BY SMT, <1>1
  <1>5. c \in [0..n -> Seq(Byte)] /\ c[0] = e
    BY Zenon, <1>1, <1>2, <1>3
  <1>6. ans \in [0..n -> Nat] /\ ans[0] = n
    BY Zenon, <1>1, <1>3
  <1>7. Cuts(e, ms, c, c)
    BY Zenon, <1>1, <1>2, <1>3, <1>4, <1>5 DEF Cuts
  <1>8. \A i \in 0..n : ans[i] <= 0 /\ i - ans[i] <= 0
    BY Zenon, <1>1, <1>3, <1>6
  <1>9. Counts(ms, p, ans, 0, 0)
    BY Zenon, <1>1, <1>2, <1>3, <1>4, <1>6, <1>8 DEF Counts
  <1>10. QED
    BY Zenon, <1>1, <1>7, <1>9 DEF Sent

\* Another frame behind the string.
LEMMA CutsMore ==
    ASSUME NEW all \in Seq(Byte), NEW ms, NEW c, NEW r, Cuts(all, ms, c, r), NEW m \in Message
    PROVE  \E c2, r2 : Cuts(all \o Frame(m), Append(ms, m), c2, r2)
  <1>1. PICK n, l, f, e, ns : /\ n = Len(ms) /\ l = n + 1 /\ f = Frame(m) /\ e = <<>>
                              /\ ns = Append(ms, m)
    OBVIOUS
  <1>2. ms \in Seq(Message)
    BY Zenon DEF Cuts
  <1>3. /\ ns \in Seq(Message) /\ Len(ns) = l /\ ns[l] = m /\ n \in Nat
        /\ \A i \in 1..n : ns[i] = ms[i]
    BY SMT, <1>1, <1>2
  <1>4. /\ l \in 0..l /\ 0 \in 0..l /\ 0 # l /\ l - 1 = n /\ n \in 0..l /\ n \in 0..n /\ n # l
        /\ \A i \in 0..l : i = l \/ (i \in 0..n /\ i # l)
        /\ \A i \in 1..l : i = l \/ (i \in 1..n /\ i \in 0..n /\ i - 1 \in 0..n /\ i # l /\ i - 1 # l)
        /\ \A i \in 0..n : i \in 0..l /\ i # l
        /\ \A i \in 1..l : i - 1 \in 0..l /\ i \in 0..l
    <2>1. n \in Nat /\ l = n + 1
      BY Zenon, <1>1, <1>3
    <2>2. QED
      BY SMT, <2>1
  <1>5. f \in Seq(Byte) /\ all \o f \in Seq(Byte) /\ e \in Seq(Byte)
    <2>1. f \in Seq(Byte)
      BY Zenon, <1>1, FrameTyped DEF Frames
    <2>2. e \in Seq(Byte)
      BY SMT, <1>1
    <2>3. QED
      BY Zenon, <2>1, <2>2, Joined
  <1>6. /\ c[0] = e /\ r[n] = e
        /\ \A i \in 0..n : c[i] \in Seq(Byte) /\ r[i] \in Seq(Byte) /\ c[i] \o r[i] = all
        /\ \A i \in 1..n : c[i] = c[i - 1] \o Frame(ms[i]) /\ r[i - 1] = Frame(ms[i]) \o r[i]
    BY Zenon, <1>1 DEF Cuts
  <1>7. c[n] = all
    <2>1. PICK x : x = c[n]
      OBVIOUS
    <2>2. x \in Seq(Byte) /\ x \o e = all
      BY Zenon, <2>1, <1>4, <1>6
    <2>3. x = all
      BY SMT, <2>2, <1>1
    <2>4. QED
      BY Zenon, <2>1, <2>3
  <1>8. PICK c2, r2 : /\ c2 = [i \in 0..l |-> IF i = l THEN all \o f ELSE c[i]]
                      /\ r2 = [i \in 0..l |-> IF i = l THEN e ELSE r[i] \o f]
    OBVIOUS
  <1>9. /\ c2[l] = all \o f /\ r2[l] = e
        /\ \A i \in 0..n : c2[i] = c[i] /\ r2[i] = r[i] \o f
    BY Zenon, <1>4, <1>8
  <1>10. ASSUME NEW i \in 0..n PROVE r[i] \o f \in Seq(Byte)
    <2>1. r[i] \in Seq(Byte)
      BY Zenon, <1>6
    <2>2. QED
      BY Zenon, <2>1, <1>5, Joined
  <1>11. c2 \in [0..l -> Seq(Byte)] /\ r2 \in [0..l -> Seq(Byte)]
    <2>1. \A i \in 0..l : c2[i] \in Seq(Byte) /\ r2[i] \in Seq(Byte)
      BY Zenon, <1>4, <1>5, <1>6, <1>9, <1>10
    <2>2. QED
      BY Zenon, <2>1, <1>8
  <1>12. e \o f = f /\ f \o e = f /\ (all \o f) \o e = all \o f
    <2>1. PICK g : g = all \o f
      OBVIOUS
    <2>2. g \o e = g /\ e \o f = f /\ f \o e = f
      BY SMT, <2>1, <1>1, <1>5
    <2>3. QED
      BY Zenon, <2>1, <2>2
  <1>13. ASSUME NEW i \in 0..l PROVE c2[i] \o r2[i] = all \o f
    <2>1. CASE i = l
      BY Zenon, <2>1, <1>9, <1>12
    <2>2. CASE i \in 0..n
      <3>1. (c[i] \o r[i]) \o f = c[i] \o (r[i] \o f)
        BY ZenonT(60), <2>2, <1>5, <1>6, Associative
      <3>2. QED
        BY Zenon, <3>1, <2>2, <1>6, <1>9
    <2>3. QED
      BY Zenon, <2>1, <2>2, <1>4
  <1>14. ASSUME NEW i \in 1..l
         PROVE  c2[i] = c2[i - 1] \o Frame(ns[i]) /\ r2[i - 1] = Frame(ns[i]) \o r2[i]
    <2>1. CASE i = l
      <3>1. c2[i - 1] = all /\ r2[i - 1] = e \o f
        BY Zenon, <2>1, <1>4, <1>6, <1>7, <1>9
      <3>2. QED
        BY Zenon, <3>1, <2>1, <1>1, <1>3, <1>9, <1>12
    <2>2. CASE i # l
      <3>1. /\ i \in 1..n /\ c2[i] = c[i] /\ c2[i - 1] = c[i - 1] /\ r2[i] = r[i] \o f
            /\ r2[i - 1] = r[i - 1] \o f /\ ns[i] = ms[i] /\ r[i] \in Seq(Byte)
        BY Zenon, <2>2, <1>3, <1>4, <1>6, <1>9
      <3>2. PICK h : h = Frame(ms[i])
        OBVIOUS
      <3>3. h \in Seq(Byte)
        <4>1. \A j \in 1..Len(ms) : ms[j] \in Message
          BY <1>2, ElementOfSeq
        <4>2. h \in Frames
          BY Zenon, <4>1, <3>1, <3>2, <1>1 DEF Frames
        <4>3. QED
          BY Zenon, <4>2, FrameTyped
      <3>4. c[i] = c[i - 1] \o h /\ r[i - 1] = h \o r[i]
        BY Zenon, <3>1, <3>2, <1>6
      <3>5. (h \o r[i]) \o f = h \o (r[i] \o f)
        BY Zenon, <3>1, <3>3, <1>5, Associative
      <3>6. QED
        BY Zenon, <3>1, <3>2, <3>4, <3>5
    <2>3. QED
      BY Zenon, <2>1, <2>2
  <1>15. c2[0] = e
    <2>1. 0 \in 0..n
      BY SMT, <1>3
    <2>2. QED
      BY Zenon, <2>1, <1>6, <1>9
  <1>16. Cuts(all \o f, ns, c2, r2)
    BY Zenon, <1>1, <1>3, <1>9, <1>11, <1>13, <1>14, <1>15 DEF Cuts
  <1>17. QED
    BY Zenon, <1>1, <1>16

\* Another message counted.
LEMMA CountsMore ==
    ASSUME NEW ms \in Seq(Message), NEW m \in Message, NEW p, NEW ans, NEW k \in Nat, NEW o \in Nat,
           Counts(ms, p, ans, k, o), NEW k2 \in Nat, NEW o2 \in Nat, NextSent(m, p, k, k2),
           k <= k2, o <= o2, k2 + o2 = k + o + 1
    PROVE  \E ans2 : Counts(Append(ms, m), p, ans2, k2, o2)
  <1>1. PICK n, l, ns : n = Len(ms) /\ l = n + 1 /\ ns = Append(ms, m)
    OBVIOUS
  <1>2. /\ ns \in Seq(Message) /\ Len(ns) = l /\ ns[l] = m /\ n \in Nat
        /\ \A i \in 1..n : ns[i] = ms[i]
    BY SMT, <1>1
  <1>3. /\ ans \in [0..n -> Nat] /\ ans[0] = 0 /\ n = k + o /\ ans[n] = k
        /\ \A i \in 0..n : ans[i] <= k /\ i - ans[i] <= o
        /\ \A i \in 1..n : NextSent(ms[i], p, ans[i - 1], ans[i])
    BY Zenon, <1>1 DEF Counts
  <1>4. /\ l \in 0..l /\ 0 \in 0..l /\ 0 \in 0..n /\ n \in 0..n /\ l - 1 = n /\ l = k2 + o2
        /\ \A i \in 0..l : i = l \/ (i \in 0..n /\ i # l)
        /\ \A i \in 1..l : i = l \/ (i \in 1..n /\ i \in 0..n /\ i - 1 \in 0..n)
        /\ \A i \in 0..n : i \in 0..l /\ i # l
    <2>1. n \in Nat /\ l = n + 1 /\ n = k + o
      BY Zenon, <1>1, <1>2, <1>3
    <2>2. QED
      BY SMT, <2>1
  <1>5. PICK ans2 : ans2 = [i \in 0..l |-> IF i = l THEN k2 ELSE ans[i]]
    OBVIOUS
  <1>6. ans2[l] = k2 /\ \A i \in 0..n : ans2[i] = ans[i]
    BY Zenon, <1>4, <1>5
  <1>7. \A i \in 0..n : ans[i] \in Nat
    BY Zenon, <1>3
  <1>8. ans2 \in [0..l -> Nat]
    <2>1. \A i \in 0..l : ans2[i] \in Nat
      BY Zenon, <1>4, <1>6, <1>7
    <2>2. QED
      BY Zenon, <2>1, <1>5
  <1>9. ASSUME NEW i \in 0..l PROVE ans2[i] <= k2 /\ i - ans2[i] <= o2
    <2>1. CASE i = l
      <3>1. k2 <= k2 /\ l - k2 <= o2
        BY SMT, <1>4
      <3>2. QED
        BY Zenon, <3>1, <2>1, <1>6
    <2>2. CASE i \in 0..n
      <3>1. PICK a : a = ans[i]
        OBVIOUS
      <3>2. a \in Nat /\ a <= k /\ i - a <= o /\ ans2[i] = a
        BY Zenon, <3>1, <2>2, <1>3, <1>6, <1>7
      <3>3. a <= k2 /\ i - a <= o2
        BY SMT, <3>2, <1>2, <2>2
      <3>4. QED
        BY Zenon, <3>2, <3>3
    <2>3. QED
      BY Zenon, <2>1, <2>2, <1>4
  <1>10. ASSUME NEW i \in 1..l PROVE NextSent(ns[i], p, ans2[i - 1], ans2[i])
    <2>1. CASE i = l
      BY Zenon, <2>1, <1>2, <1>3, <1>4, <1>6
    <2>2. CASE i # l
      BY Zenon, <2>2, <1>2, <1>3, <1>4, <1>6
    <2>3. QED
      BY Zenon, <2>1, <2>2
  <1>11. Counts(ns, p, ans2, k2, o2)
    BY Zenon, <1>2, <1>3, <1>4, <1>6, <1>8, <1>9, <1>10 DEF Counts
  <1>12. QED
    BY Zenon, <1>1, <1>11

\* A message behind the string: the next answer, or one of another thread.
LEMMA SentMore ==
    ASSUME NEW all \in Seq(Byte), NEW p, NEW k \in Nat, NEW o \in Nat, Sent(all, p, k, o),
           NEW m \in Message, NEW k2 \in Nat, NEW o2 \in Nat, NextSent(m, p, k, k2),
           k <= k2, o <= o2, k2 + o2 = k + o + 1
    PROVE  Sent(all \o Frame(m), p, k2, o2)
  <1>1. PICK ms, c, r, ans : Cuts(all, ms, c, r) /\ Counts(ms, p, ans, k, o)
    BY Zenon DEF Sent
  <1>2. ms \in Seq(Message)
    BY Zenon, <1>1 DEF Cuts
  <1>3. PICK c2, r2 : Cuts(all \o Frame(m), Append(ms, m), c2, r2)
    BY Zenon, <1>1, CutsMore
  <1>4. PICK ans2 : Counts(Append(ms, m), p, ans2, k2, o2)
    BY Zenon, <1>1, <1>2, CountsMore
  <1>5. QED
    BY Zenon, <1>3, <1>4 DEF Sent

\* Another request does not change what was sent.
LEMMA SentStays ==
    ASSUME NEW all, NEW p, NEW p2, NEW k \in Nat, NEW o \in Nat, Sent(all, p, k, o),
           \A i \in 1..k : p2[i] = p[i]
    PROVE  Sent(all, p2, k, o)
  <1>1. PICK ms, c, r, ans : Cuts(all, ms, c, r) /\ Counts(ms, p, ans, k, o)
    BY Zenon DEF Sent
  <1>2. PICK n : n = Len(ms)
    OBVIOUS
  <1>3. /\ ans \in [0..n -> Nat]
        /\ \A i \in 0..n : ans[i] <= k
        /\ \A i \in 1..n : NextSent(ms[i], p, ans[i - 1], ans[i])
    BY Zenon, <1>1, <1>2 DEF Counts
  <1>4. n \in Nat
    <2>1. ms \in Seq(Message)
      BY Zenon, <1>1 DEF Cuts
    <2>2. QED
      BY <2>1, <1>2
  <1>5. ASSUME NEW i \in 1..n PROVE NextSent(ms[i], p2, ans[i - 1], ans[i])
    <2>1. i \in 0..n /\ i - 1 \in 0..n
      BY SMT, <1>4
    <2>2. PICK a, b : a = ans[i - 1] /\ b = ans[i]
      OBVIOUS
    <2>3. a \in Nat /\ b \in Nat /\ b <= k
      BY Zenon, <2>1, <2>2, <1>3
    <2>4. b = a + 1 => b \in 1..k
      BY SMT, <2>3
    <2>5. NextSent(ms[i], p, a, b)
      BY Zenon, <2>2, <1>3
    <2>6. NextSent(ms[i], p2, a, b)
      BY Zenon, <2>4, <2>5 DEF NextSent
    <2>7. QED
      BY Zenon, <2>2, <2>6
  <1>6. Counts(ms, p2, ans, k, o)
    BY Zenon, <1>1, <1>2, <1>5 DEF Counts
  <1>7. QED
    BY Zenon, <1>1, <1>6 DEF Sent

\* The property, for the string d the client got, the requests p and a number of
\* sends of other threads.
Reads(d, p, total) ==
  LET got == Packages(d) IN
  \E answers \in [0..Len(got) -> 0..Len(p)] :
    /\ answers[0] = 0
    /\ \A i \in 1..Len(got) :
         \/ answers[i] = answers[i - 1] + 1 /\ got[i] = Answer(p[answers[i]])
         \/ answers[i] = answers[i - 1] /\ got[i] \in OtherMessages
    /\ Len(got) - answers[Len(got)] <= total

\* Of what was sent the client reads a front.
LEMMA SentReads ==
    ASSUME NEW d \in Seq(Byte), NEW q \in Seq(Byte), NEW p, NEW k \in Nat, NEW o \in Nat,
           Sent(d \o q, p, k, o), NEW total \in Nat, o <= total, Len(p) \in Nat, k <= Len(p)
    PROVE  Reads(d, p, total)
  <1>1. PICK ms, c, r, ans : Cuts(d \o q, ms, c, r) /\ Counts(ms, p, ans, k, o)
    BY Zenon DEF Sent
  <1>2. PICK n, h : n = Len(ms) /\ h = Len(p)
    OBVIOUS
  <1>3. /\ ans \in [0..n -> Nat] /\ ans[0] = 0
        /\ \A i \in 0..n : ans[i] \in Nat /\ ans[i] <= k /\ i - ans[i] <= o
        /\ \A i \in 1..n : NextSent(ms[i], p, ans[i - 1], ans[i])
    BY Zenon, <1>1, <1>2 DEF Counts
  <1>4. ms \in Seq(Message) /\ n \in Nat
    <2>1. ms \in Seq(Message)
      BY Zenon, <1>1 DEF Cuts
    <2>2. QED
      BY <2>1, <1>2
  <1>5. PICK j \in 0..n : Packages(d) = SubSeq(ms, 1, j)
    <2>1. \E j \in 0..Len(ms) : Packages(d) = SubSeq(ms, 1, j)
      BY Zenon, <1>1, PackagesRead
    <2>2. QED
      BY Zenon, <2>1, <1>2
  <1>6. PICK got : got = Packages(d)
    OBVIOUS
  <1>7. j \in Nat /\ Len(got) = j /\ \A i \in 1..j : got[i] = ms[i]
    <2>1. j \in Nat /\ j <= Len(ms)
      BY SMT, <1>2, <1>4
    <2>2. QED
      BY SMT, <2>1, <1>4, <1>5, <1>6
  <1>8. /\ \A i \in 0..j : i \in 0..n
        /\ \A i \in 1..j : i \in 1..n /\ i \in 0..j /\ i - 1 \in 0..j
        /\ 0 \in 0..j /\ j \in 0..j
    BY SMT, <1>4, <1>7
  <1>9. PICK answers : answers = [i \in 0..j |-> ans[i]]
    OBVIOUS
  <1>10. \A i \in 0..j : answers[i] = ans[i] /\ ans[i] \in 0..h
    <2>1. ASSUME NEW i \in 0..j PROVE answers[i] = ans[i] /\ ans[i] \in 0..h
      <3>1. PICK a : a = ans[i]
        OBVIOUS
      <3>2. a \in Nat /\ a <= k
        BY Zenon, <3>1, <1>3, <1>8
      <3>3. a \in 0..h
        BY SMT, <3>2, <1>2
      <3>4. QED
        BY Zenon, <3>1, <3>3, <1>9
    <2>2. QED
      BY Zenon, <2>1
  <1>11. answers \in [0..j -> 0..h]
    BY Zenon, <1>9, <1>10
  <1>12. answers[0] = 0
    BY Zenon, <1>3, <1>8, <1>10
  <1>13. ASSUME NEW i \in 1..j
         PROVE  \/ answers[i] = answers[i - 1] + 1 /\ got[i] = Answer(p[answers[i]])
                \/ answers[i] = answers[i - 1] /\ got[i] \in OtherMessages
    <2>1. answers[i] = ans[i] /\ answers[i - 1] = ans[i - 1] /\ got[i] = ms[i]
      BY Zenon, <1>7, <1>8, <1>10
    <2>2. NextSent(ms[i], p, ans[i - 1], ans[i])
      BY Zenon, <1>3, <1>8
    <2>3. QED
      BY Zenon, <2>1, <2>2 DEF NextSent
  <1>14. j - answers[j] <= total
    <2>1. PICK a : a = answers[j]
      OBVIOUS
    <2>2. a \in Nat /\ j - a <= o
      BY Zenon, <2>1, <1>3, <1>8, <1>10
    <2>3. j - a <= total
      BY SMT, <2>2, <1>7
    <2>4. QED
      BY Zenon, <2>1, <2>3
  <1>15. QED
    BY Zenon, <1>2, <1>6, <1>7, <1>11, <1>12, <1>13, <1>14 DEF Reads

OtherFrames == {Frame(m) : m \in OtherMessages}

\* The queue q holds at most a sends of other threads and no send besides
\* (rest[i] of them behind the first i functors).
Pending(q, a) ==
  /\ a \in Nat
  /\ \A i \in 1..Len(q) : q[i].name = "sendInLoop" => q[i].data \in OtherFrames
  /\ \E rest \in [0..Len(q) -> Nat] :
       /\ rest[0] = a
       /\ \A i \in 1..Len(q) :
            rest[i] <= rest[i - 1] - (IF q[i].name = "sendInLoop" THEN 1 ELSE 0)

\* An empty queue.
LEMMA NonePending == Pending(<<>>, 0)
  <1>1. PICK q, n, rest : q = <<>> /\ n = 0 /\ rest = [i \in 0..n |-> n]
    OBVIOUS
  <1>2. Len(q) = n /\ 0 \in Nat /\ n \in Nat /\ 0 \in 0..n
    BY SMT, <1>1
  <1>3. \A i \in 1..n : FALSE
    BY SMT, <1>1
  <1>4. rest \in [0..n -> Nat] /\ rest[0] = 0
    BY Zenon, <1>1, <1>2
  <1>5. Pending(q, 0)
    BY Zenon, <1>2, <1>3, <1>4 DEF Pending
  <1>6. QED
    BY Zenon, <1>1, <1>5

\* A functor queued behind others.
LEMMA PendingQueued ==
    ASSUME NEW q \in Seq(Functors), NEW a, Pending(q, a), NEW f \in Functors, NEW w \in Nat,
           f.name = "sendInLoop" => f.data \in OtherFrames /\ w = 1
    PROVE  Pending(Append(q, f), a + w)
  <1>1. PICK n, l, p : n = Len(q) /\ l = n + 1 /\ p = Append(q, f)
    OBVIOUS
  <1>2. n \in Nat /\ Len(p) = l /\ p[l] = f /\ \A i \in 1..n : p[i] = q[i]
    BY SMT, <1>1
  <1>3. PICK rest \in [0..n -> Nat] :
          /\ rest[0] = a
          /\ \A i \in 1..n : rest[i] <= rest[i - 1] - (IF q[i].name = "sendInLoop" THEN 1 ELSE 0)
    BY Zenon, <1>1 DEF Pending
  <1>4. a \in Nat /\ \A i \in 1..n : q[i].name = "sendInLoop" => q[i].data \in OtherFrames
    BY Zenon, <1>1 DEF Pending
  <1>5. PICK r2 : r2 = [i \in 0..l |-> IF i = l THEN 0 ELSE rest[i] + w]
    OBVIOUS
  <1>6. /\ l \in 0..l /\ 0 \in 0..n /\ n \in 0..n /\ l - 1 = n /\ a + w \in Nat /\ 0 \in Nat
        /\ \A i \in 0..l : i = l \/ i \in 0..n
        /\ \A i \in 1..l : i = l \/ (i \in 1..n /\ i \in 0..n /\ i - 1 \in 0..n)
        /\ \A i \in 0..n : i \in 0..l /\ i # l
    BY SMT, <1>1, <1>2, <1>4
  <1>7. r2[l] = 0 /\ \A i \in 0..n : r2[i] = rest[i] + w
    BY Zenon, <1>5, <1>6
  <1>8. \A i \in 0..n : rest[i] \in Nat /\ rest[i] + w \in Nat
    <2>1. \A i \in 0..n : rest[i] \in Nat
      BY Zenon, <1>3
    <2>2. \A x \in Nat : x + w \in Nat
      BY SMT
    <2>3. QED
      BY Zenon, <2>1, <2>2
  <1>9. r2 \in [0..l -> Nat]
    <2>1. \A i \in 0..l : r2[i] \in Nat
      BY Zenon, <1>6, <1>7, <1>8
    <2>2. QED
      BY Zenon, <2>1, <1>5
  <1>10. r2[0] = a + w
    BY Zenon, <1>3, <1>6, <1>7
  <1>11. ASSUME NEW i \in 1..l
         PROVE  r2[i] <= r2[i - 1] - (IF p[i].name = "sendInLoop" THEN 1 ELSE 0)
    <2>1. PICK s : s = IF p[i].name = "sendInLoop" THEN 1 ELSE 0
      OBVIOUS
    <2>2. CASE i = l
      <3>1. PICK x : x = rest[n]
        OBVIOUS
      <3>2. r2[i] = 0 /\ r2[i - 1] = x + w /\ x \in Nat
        BY Zenon, <3>1, <2>2, <1>6, <1>7, <1>8
      <3>3. s = 0 \/ (s = 1 /\ w = 1)
        BY Zenon, <2>1, <2>2, <1>2
      <3>4. 0 <= (x + w) - s
        BY SMT, <3>2, <3>3
      <3>5. QED
        BY Zenon, <3>2, <3>4, <2>1
    <2>3. CASE i # l
      <3>1. PICK x, y : x = rest[i] /\ y = rest[i - 1]
        OBVIOUS
      <3>2. /\ r2[i] = x + w /\ r2[i - 1] = y + w /\ x \in Nat /\ y \in Nat /\ x <= y - s
        BY ZenonT(60), <3>1, <2>1, <2>3, <1>2, <1>3, <1>6, <1>7, <1>8
      <3>3. s \in Int
        BY SMT, <2>1
      <3>4. x + w <= (y + w) - s
        BY SMT, <3>2, <3>3
      <3>5. QED
        BY Zenon, <3>2, <3>4, <2>1
    <2>4. QED
      BY Zenon, <2>2, <2>3
  <1>12. \A i \in 1..l : p[i].name = "sendInLoop" => p[i].data \in OtherFrames
    BY Zenon, <1>2, <1>4, <1>6
  <1>13. Pending(p, a + w)
    BY Zenon, <1>2, <1>6, <1>9, <1>10, <1>11, <1>12 DEF Pending
  <1>14. QED
    BY Zenon, <1>1, <1>13

\* The first functor taken.
LEMMA PendingTaken ==
    ASSUME NEW q \in Seq(Functors), q # <<>>, NEW a, Pending(q, a)
    PROVE  /\ a \in Nat
           /\ \E b \in Nat : Pending(Tail(q), b) /\ b <= a /\ (Head(q).name = "sendInLoop" => b < a)
           /\ Head(q).name = "sendInLoop" => Head(q).data \in OtherFrames
  <1>1. PICK n, l, t : n = Len(q) /\ l = n - 1 /\ t = Tail(q)
    OBVIOUS
  <1>2. n \in Nat /\ n > 0 /\ Len(t) = l /\ Head(q) = q[1] /\ \A i \in 1..l : t[i] = q[i + 1]
    BY SMT, <1>1
  <1>3. PICK rest \in [0..n -> Nat] :
          /\ rest[0] = a
          /\ \A i \in 1..n : rest[i] <= rest[i - 1] - (IF q[i].name = "sendInLoop" THEN 1 ELSE 0)
    BY Zenon, <1>1 DEF Pending
  <1>4. a \in Nat /\ \A i \in 1..n : q[i].name = "sendInLoop" => q[i].data \in OtherFrames
    BY Zenon, <1>1 DEF Pending
  <1>5. PICK r2, b : r2 = [i \in 0..l |-> rest[i + 1]] /\ b = rest[1]
    OBVIOUS
  <1>6. /\ 1 \in 0..n /\ 1 \in 1..n /\ 0 \in 0..l /\ 0 + 1 = 1 /\ 1 - 1 = 0
        /\ \A i \in 0..l : i + 1 \in 0..n
        /\ \A i \in 1..l : i \in 0..l /\ i - 1 \in 0..l /\ i + 1 \in 1..n
                           /\ (i + 1) - 1 = (i - 1) + 1
    BY SMT, <1>1, <1>2
  <1>7. \A i \in 0..l : r2[i] = rest[i + 1] /\ rest[i + 1] \in Nat
    BY Zenon, <1>3, <1>5, <1>6
  <1>8. r2 \in [0..l -> Nat] /\ r2[0] = b /\ b \in Nat
    BY Zenon, <1>3, <1>5, <1>6, <1>7
  <1>9. ASSUME NEW i \in 1..l
        PROVE  r2[i] <= r2[i - 1] - (IF t[i].name = "sendInLoop" THEN 1 ELSE 0)
    BY Zenon, <1>2, <1>3, <1>6, <1>7
  <1>10. \A i \in 1..l : t[i].name = "sendInLoop" => t[i].data \in OtherFrames
    BY Zenon, <1>2, <1>4, <1>6
  <1>11. Pending(t, b)
    BY Zenon, <1>2, <1>8, <1>9, <1>10 DEF Pending
  <1>12. b <= a /\ (Head(q).name = "sendInLoop" => b < a)
    <2>1. PICK s : s = IF Head(q).name = "sendInLoop" THEN 1 ELSE 0
      OBVIOUS
    <2>2. b <= a - s
      BY Zenon, <2>1, <1>2, <1>3, <1>5, <1>6
    <2>3. s \in {0, 1}
      BY SMT, <2>1
    <2>4. b <= a /\ (s = 1 => b < a)
      BY SMT, <2>2, <2>3, <1>4, <1>8
    <2>5. QED
      BY Zenon, <2>1, <2>4
  <1>13. Head(q).name = "sendInLoop" => Head(q).data \in OtherFrames
    BY Zenon, <1>2, <1>4, <1>6
  <1>14. QED
    BY Zenon, <1>1, <1>4, <1>8, <1>11, <1>12, <1>13

\* No answer will be sent any more: the connection is closing, or the peer has
\* gone while nothing waited.
Silent ==
  \/ m_state # "kConnected"
  \/ peer = "reset" /\ ~writing /\ Contents(outBuf) = <<>>

\* A send between the test of m_state and the queueing of its functor.
Sending == IF sender = Nobody THEN 0 ELSE 1

\* What was accepted is the answers to the first k requests, all of them unless
\* no answer will be sent any more, and o messages of other threads; at most a and
\* b more of these wait in the queues.
Account(k, o, a, b) ==
  /\ Sent(socket \o Contents(outBuf), processed, k, o)
  /\ Pending(functors, a) /\ Pending(batch, b)
  /\ o + a + b + Sending <= others
  /\ k <= Len(processed)
  /\ k = Len(processed) \/ Silent

AnswersInv == others \in Nat /\ \E k, o, a, b \in Nat : Account(k, o, a, b)

\* The account after a step.
LEMMA AnswersMade ==
    ASSUME NEW k \in Nat, NEW o \in Nat, NEW a \in Nat, NEW b \in Nat,
           NEW all, NEW p, NEW fs, NEW bs, NEW t, NEW z,
           all = socket' \o Contents(outBuf)', p = processed', fs = functors', bs = batch',
           t = Sending', z = others',
           Sent(all, p, k, o), Pending(fs, a), Pending(bs, b), z \in Nat,
           o + a + b + t <= z, k <= Len(p), k = Len(p) \/ Silent'
    PROVE  AnswersInv'
  <1>1. Sent(socket \o Contents(outBuf), processed, k, o)'
    BY Zenon
  <1>2. Pending(functors, a)' /\ Pending(batch, b)'
    BY Zenon
  <1>3. (o + a + b + Sending <= others)'
    BY Zenon
  <1>4. (k <= Len(processed))' /\ (k = Len(processed) \/ Silent)' /\ (others \in Nat)'
    BY Zenon
  <1>5. Account(k, o, a, b)'
    BY Zenon, <1>1, <1>2, <1>3, <1>4 DEF Account
  <1>6. QED
    BY Zenon, <1>4, <1>5 DEF AnswersInv

\* The account before it.
LEMMA AnswersParts ==
    ASSUME AnswersInv
    PROVE  \E k, o, a, b \in Nat :
             /\ Sent(socket \o Contents(outBuf), processed, k, o)
             /\ Pending(functors, a) /\ Pending(batch, b)
             /\ o + a + b + Sending <= others
             /\ k <= Len(processed)
             /\ k = Len(processed) \/ Silent
             /\ others \in Nat /\ Sending \in {0, 1}
  <1>1. Sending \in {0, 1}
    BY Zenon DEF Sending
  <1>2. QED
    BY Zenon, <1>1 DEF AnswersInv, Account

\* A step that accepts nothing and queues nothing.
LEMMA AnswersKept ==
    ASSUME AnswersInv, UNCHANGED <<processed, functors, batch, sender, others>>,
           socket' \o Contents(outBuf)' = socket \o Contents(outBuf), Silent => Silent'
    PROVE  AnswersInv'
  <1>1. PICK k, o, a, b \in Nat :
             /\ Sent(socket \o Contents(outBuf), processed, k, o)
             /\ Pending(functors, a) /\ Pending(batch, b)
             /\ o + a + b + Sending <= others
             /\ k <= Len(processed)
             /\ k = Len(processed) \/ Silent
             /\ others \in Nat /\ Sending \in {0, 1}
    BY Zenon, AnswersParts
  <1>2. PICK all, p, fs, bs, t, z :
             /\ all = socket \o Contents(outBuf) /\ p = processed /\ fs = functors /\ bs = batch
             /\ t = Sending /\ z = others
    OBVIOUS
  <1>3. Sending' = Sending
    BY Zenon DEF Sending
  <1>4. /\ all = socket' \o Contents(outBuf)' /\ p = processed' /\ fs = functors' /\ bs = batch'
        /\ t = Sending' /\ z = others'
    BY Zenon, <1>2, <1>3
  <1>5. /\ Sent(all, p, k, o) /\ Pending(fs, a) /\ Pending(bs, b) /\ z \in Nat
        /\ o + a + b + t <= z /\ k <= Len(p) /\ (k = Len(p) \/ Silent')
    BY Zenon, <1>1, <1>2
  <1>6. QED
    BY Zenon, <1>4, <1>5, AnswersMade

\* What sendInLoop does with a message: it accepts it, or drops it because the
\* connection is closed or, with nothing waiting, cannot be written.
LEMMA SendEither ==
    ASSUME StreamInv, NEW data \in Frames, sendInLoop(data)
    PROVE  \/ /\ socket' \o Contents(outBuf)' = (socket \o Contents(outBuf)) \o data
              /\ writing \/ Contents(outBuf) # <<>> \/ ~Unwritable
           \/ /\ UNCHANGED <<socket, outBuf, writing>>
              /\ m_state = "kDisconnected" \/ (~writing /\ Contents(outBuf) = <<>> /\ Unwritable)
  <1>1. outBuf \in Buffers /\ socket \in Seq(Byte)
    BY Zenon, InvParts
  <1>2. /\ data \in Seq(Byte) /\ Len(data) \in Nat /\ Len(data) > 0
    BY Zenon, FrameTyped
  <1>3. PICK q : q = Contents(outBuf)
    OBVIOUS
  <1>4. q \in Seq(Byte) /\ (readableBytes(outBuf) = 0 <=> q = <<>>)
    BY Zenon, <1>1, <1>3, BufferContents, EmptyBuffer
  <1>5. CASE /\ UNCHANGED <<socket, outBuf, writing>>
             /\ m_state = "kDisconnected" \/ (~(writing \/ q # <<>>) /\ Unwritable)
    BY Zenon, <1>3, <1>5
  <1>6. CASE /\ writing \/ q # <<>>
             /\ outBuf' = append(outBuf, data) /\ UNCHANGED socket
    <2>1. PICK b2, q2 : b2 = append(outBuf, data) /\ q2 = Contents(b2)
      OBVIOUS
    <2>2. q2 = q \o data
      BY Zenon, <2>1, <1>1, <1>2, <1>3, BufferAppends
    <2>3. Contents(outBuf)' = q2
      BY Zenon, <2>1, <1>6 DEF Contents
    <2>4. (socket \o q) \o data = socket \o (q \o data)
      BY Zenon, <1>1, <1>2, <1>4, Associative
    <2>5. QED
      BY Zenon, <2>2, <2>3, <2>4, <1>3, <1>6
  <1>7. CASE /\ ~(writing \/ q # <<>>) /\ ~Unwritable
             /\ \E k \in {0} \cup Moved(Len(data)) :
                  LET rest == SubSeq(data, k + 1, Len(data)) IN
                  /\ socket' = socket \o SubSeq(data, 1, k)
                  /\ outBuf' = IF rest = <<>> THEN outBuf ELSE append(outBuf, rest)
    <2>1. PICK k \in {0} \cup Moved(Len(data)) :
                  LET rest == SubSeq(data, k + 1, Len(data)) IN
                  /\ socket' = socket \o SubSeq(data, 1, k)
                  /\ outBuf' = IF rest = <<>> THEN outBuf ELSE append(outBuf, rest)
      BY Zenon, <1>7
    <2>2. k \in 0..Len(data)
      BY SMT, <1>2, StreamAssumption DEF Moved
    <2>3. PICK sent, rest : sent = SubSeq(data, 1, k) /\ rest = SubSeq(data, k + 1, Len(data))
      OBVIOUS
    <2>4. sent \in Seq(Byte) /\ rest \in Seq(Byte)
      BY SMT, <1>2, <2>2, <2>3
    <2>5. sent \o rest = data
      BY Zenon, <1>2, <2>2, <2>3, CutJoin
    <2>6. q = <<>>
      BY Zenon, <1>7
    <2>7. PICK b2 : b2 = IF rest = <<>> THEN outBuf ELSE append(outBuf, rest)
      OBVIOUS
    <2>8. socket' = socket \o sent /\ outBuf' = b2
      BY Zenon, <2>1, <2>3, <2>7
    <2>9. Contents(b2) = rest
      <3>1. CASE rest = <<>>
        BY Zenon, <3>1, <2>6, <2>7, <1>3
      <3>2. CASE rest # <<>>
        <4>1. b2 = append(outBuf, rest)
          BY Zenon, <3>2, <2>7
        <4>2. Contents(b2) = q \o rest
          BY Zenon, <4>1, <2>4, <1>1, <1>3, BufferAppends
        <4>3. q \o rest = rest
          BY SMT, <2>4, <2>6
        <4>4. QED
          BY Zenon, <4>2, <4>3
      <3>3. QED
        BY Zenon, <3>1, <3>2
    <2>10. Contents(outBuf)' = rest
      BY Zenon, <2>8, <2>9 DEF Contents
    <2>11. (socket \o sent) \o rest = socket \o (sent \o rest)
      BY Zenon, <2>4, <1>1, Associative
    <2>12. socket \o q = socket
      BY SMT, <2>6, <1>1
    <2>13. socket' \o Contents(outBuf)' = (socket \o Contents(outBuf)) \o data
      BY Zenon, <2>5, <2>8, <2>10, <2>11, <2>12, <1>3
    <2>14. QED
      BY Zenon, <2>13, <1>7
  <1>8. QED
    BY Zenon, <1>3, <1>4, <1>5, <1>6, <1>7 DEF sendInLoop

\* A connection that closes sends no answer any more.
LEMMA CloseSilences ==
    ASSUME handleClose
    PROVE  Silent'
  <1>1. m_state' = "kDisconnected"
    BY Zenon DEF handleClose
  <1>2. m_state' # "kConnected"
    BY <1>1
  <1>3. QED
    BY Zenon, <1>2 DEF Silent

\* Nothing brings a silent connection back.
LEMMA StaysSilent ==
    ASSUME UNCHANGED <<outBuf, writing>>, m_state # "kConnected" => m_state' # "kConnected",
           peer = "reset" => peer' = "reset"
    PROVE  Silent => Silent'
  BY Zenon DEF Silent, Contents

\* The bytes stay where they are.
LEMMA OutputSame ==
    ASSUME UNCHANGED <<socket, outBuf>>
    PROVE  socket' \o Contents(outBuf)' = socket \o Contents(outBuf)
  BY Zenon DEF Contents

\* The poll, the client and reads that close or wait.
LEMMA AnswersQuiet ==
    ASSUME StreamInv, AnswersInv,
           \/ Poll \/ HandleHup \/ HandleRead \/ onReadWaits \/ onReadThrows
           \/ shutdown \/ ShutdownSets \/ PeerEnds \/ UNCHANGED vars
    PROVE  AnswersInv'
  <1>1. UNCHANGED <<processed, functors, batch, sender, others, socket, outBuf>>
    BY Zenon DEF Poll, Polled, HandleHup, HandleRead, onReadWaits, onReadThrows, shutdown,
                 ShutdownSets, PeerEnds, vars, buffers, loopVars, otherVars
  <1>2. socket' \o Contents(outBuf)' = socket \o Contents(outBuf)
    BY Zenon, <1>1, OutputSame
  <1>3. CASE handleClose
    BY Zenon, <1>1, <1>2, <1>3, CloseSilences, AnswersKept
  <1>4. CASE /\ UNCHANGED writing
             /\ m_state' = m_state \/ m_state' = "kDisconnecting"
             /\ peer' = peer \/ peer = "open"
    <2>1. "kDisconnecting" # "kConnected" /\ "open" # "reset"
      OBVIOUS
    <2>2. /\ m_state # "kConnected" => m_state' # "kConnected"
          /\ peer = "reset" => peer' = "reset"
      BY Zenon, <2>1, <1>4
    <2>3. Silent => Silent'
      BY Zenon, <2>2, <1>1, <1>4, StaysSilent
    <2>4. QED
      BY Zenon, <2>3, <1>1, <1>2, AnswersKept
  <1>5. QED
    BY Zenon, <1>3, <1>4 DEF Poll, Polled, HandleHup, HandleRead, onReadWaits, onReadThrows,
                 shutdown, ShutdownSets, PeerEnds, vars

\* handleWrite moves bytes from the buffer to the socket.
LEMMA AnswersWritten ==
    ASSUME StreamInv, AnswersInv, HandleWrite
    PROVE  AnswersInv'
  <1>a. outBuf \in Buffers /\ socket \in Seq(Byte) /\ WritingHasBytes
    BY Zenon, InvParts
  <1>1. UNCHANGED <<processed, functors, batch, sender, others, peer>>
    BY Zenon DEF HandleWrite, otherVars
  <1>2. CASE UNCHANGED <<socket, outBuf, writing, reading, fin, m_state>>
    <2>1. socket' \o Contents(outBuf)' = socket \o Contents(outBuf)
      BY Zenon, <1>2, OutputSame
    <2>2. Silent => Silent'
      BY Zenon, <1>1, <1>2, StaysSilent
    <2>3. QED
      BY Zenon, <2>1, <2>2, <1>1, AnswersKept
  <1>3. CASE handleClose /\ UNCHANGED <<socket, outBuf, fin>>
    <2>1. socket' \o Contents(outBuf)' = socket \o Contents(outBuf)
      BY Zenon, <1>3, OutputSame
    <2>2. QED
      BY Zenon, <2>1, <1>1, <1>3, CloseSilences, AnswersKept
  <1>4. CASE /\ writing /\ UNCHANGED m_state
             /\ \E k \in Moved(readableBytes(outBuf)) :
                  /\ socket' = socket \o SubSeq(Contents(outBuf), 1, k)
                  /\ outBuf' = retrieve(outBuf, k)
    <2>1. PICK k \in Moved(readableBytes(outBuf)) :
                  /\ socket' = socket \o SubSeq(Contents(outBuf), 1, k)
                  /\ outBuf' = retrieve(outBuf, k)
      BY Zenon, <1>4
    <2>2. PICK q, sent, rest, b2 :
                  /\ q = Contents(outBuf) /\ sent = SubSeq(q, 1, k)
                  /\ rest = SubSeq(q, k + 1, Len(q)) /\ b2 = retrieve(outBuf, k)
      OBVIOUS
    <2>3. q \in Seq(Byte) /\ q # <<>> /\ Len(q) = readableBytes(outBuf)
      BY Zenon, <2>2, <1>4, <1>a, BufferContents DEF WritingHasBytes
    <2>4. k \in 0..Len(q)
      <3>1. k \in Moved(Len(q))
        BY Zenon, <2>3
      <3>2. Len(q) \in Nat /\ Len(q) > 0
        BY SMT, <2>3
      <3>3. QED
        BY SMT, <3>1, <3>2, StreamAssumption DEF Moved
    <2>5. sent \in Seq(Byte) /\ rest \in Seq(Byte)
      BY SMT, <2>2, <2>3, <2>4
    <2>6. sent \o rest = q
      BY Zenon, <2>2, <2>3, <2>4, CutJoin
    <2>7. Contents(b2) = rest
      BY Zenon, <2>2, <2>4, <1>a, Retrieved
    <2>8. socket' = socket \o sent /\ Contents(outBuf)' = rest
      BY Zenon, <2>1, <2>2, <2>7 DEF Contents
    <2>9. (socket \o sent) \o rest = socket \o (sent \o rest)
      BY Zenon, <2>5, <1>a, Associative
    <2>10. socket' \o Contents(outBuf)' = socket \o Contents(outBuf)
      BY Zenon, <2>2, <2>6, <2>8, <2>9
    <2>11. Silent => Silent'
      BY Zenon, <1>4 DEF Silent
    <2>12. QED
      BY Zenon, <2>10, <2>11, <1>1, AnswersKept
  <1>5. QED
    BY Zenon, <1>2, <1>3, <1>4 DEF HandleWrite

\* A step that accepts nothing and queues a functor that is no send, or none.
LEMMA AnswersQueued ==
    ASSUME StreamInv, AnswersInv, UNCHANGED <<processed, batch, sender, others, socket, outBuf>>,
           Silent => Silent',
           NEW f \in Functors, f.name # "sendInLoop", functors' = Append(functors, f)
    PROVE  AnswersInv'
  <1>1. PICK k, o, a, b \in Nat :
             /\ Sent(socket \o Contents(outBuf), processed, k, o)
             /\ Pending(functors, a) /\ Pending(batch, b)
             /\ o + a + b + Sending <= others
             /\ k <= Len(processed)
             /\ k = Len(processed) \/ Silent
             /\ others \in Nat /\ Sending \in {0, 1}
    BY Zenon, AnswersParts
  <1>2. PICK all, p, fs, bs, t, z, w :
             /\ all = socket \o Contents(outBuf) /\ p = processed /\ fs = Append(functors, f)
             /\ bs = batch /\ t = Sending /\ z = others /\ w = 0
    OBVIOUS
  <1>3. Sending' = Sending /\ socket' \o Contents(outBuf)' = socket \o Contents(outBuf)
    BY Zenon, OutputSame DEF Sending
  <1>4. w \in Nat /\ a + w = a
    BY SMT, <1>2
  <1>5. Pending(fs, a)
    <2>1. functors \in Seq(Functors)
      BY Zenon, InvParts
    <2>2. Pending(Append(functors, f), a + w)
      BY Zenon, <2>1, <1>1, <1>4, PendingQueued
    <2>3. QED
      BY Zenon, <2>2, <1>2, <1>4
  <1>6. /\ all = socket' \o Contents(outBuf)' /\ p = processed' /\ fs = functors' /\ bs = batch'
        /\ t = Sending' /\ z = others'
    BY Zenon, <1>2, <1>3
  <1>7. /\ Sent(all, p, k, o) /\ Pending(bs, b) /\ z \in Nat
        /\ o + a + b + t <= z /\ k <= Len(p) /\ (k = Len(p) \/ Silent')
    BY Zenon, <1>1, <1>2
  <1>8. QED
    BY Zenon, <1>5, <1>6, <1>7, AnswersMade

\* forceClose queues its functor, and no answer follows.
LEMMA AnswersForced ==
    ASSUME StreamInv, AnswersInv, forceClose,
           UNCHANGED <<processed, batch, sender, others, socket, outBuf, writing, peer>>
    PROVE  AnswersInv'
  <1>1. CASE UNCHANGED <<m_state, functors>>
    <2>1. Silent => Silent'
      BY Zenon, <1>1, StaysSilent
    <2>2. socket' \o Contents(outBuf)' = socket \o Contents(outBuf)
      BY Zenon, OutputSame
    <2>3. QED
      BY Zenon, <2>1, <2>2, <1>1, AnswersKept
  <1>2. CASE /\ m_state' = "kDisconnecting"
             /\ functors' = Append(functors, Functor("forceCloseInLoop", <<>>))
    <2>1. m_state' # "kConnected"
      BY <1>2
    <2>2. Silent'
      BY Zenon, <2>1 DEF Silent
    <2>3. PICK f : f = Functor("forceCloseInLoop", <<>>)
      OBVIOUS
    <2>4. f \in Functors /\ f.name # "sendInLoop"
      <3>1. f.name # "sendInLoop"
        BY <2>3 DEF Functor
      <3>2. QED
        BY Zenon, <3>1, <2>3, FunctorTyped
    <2>5. QED
      BY Zenon, <2>2, <2>3, <2>4, <1>2, AnswersQueued
  <1>3. QED
    BY Zenon, <1>1, <1>2 DEF forceClose

\* The functors of other threads.
LEMMA AnswersOthers ==
    ASSUME StreamInv, AnswersInv,
           BeginTasks \/ (\E m \in OtherMessages : OtherSend(m)) \/ OtherQueues \/ ShutdownQueues
    PROVE  AnswersInv'
  <1>1. PICK k, o, a, b \in Nat :
             /\ Sent(socket \o Contents(outBuf), processed, k, o)
             /\ Pending(functors, a) /\ Pending(batch, b)
             /\ o + a + b + Sending <= others
             /\ k <= Len(processed)
             /\ k = Len(processed) \/ Silent
             /\ others \in Nat /\ Sending \in {0, 1}
    BY Zenon, AnswersParts
  <1>2. /\ UNCHANGED <<socket, outBuf, processed, m_state, writing, peer>>
    BY Zenon DEF BeginTasks, OtherSend, OtherQueues, ShutdownQueues, buffers, loopVars, otherVars
  <1>3. socket' \o Contents(outBuf)' = socket \o Contents(outBuf)
    BY Zenon, <1>2, OutputSame
  <1>4. Silent => Silent'
    BY Zenon, <1>2, StaysSilent
  <1>5. PICK all, p, t, z, s : /\ all = socket \o Contents(outBuf) /\ p = processed
                               /\ t = Sending /\ z = others /\ s = Sending'
    OBVIOUS
  <1>6. /\ all = socket' \o Contents(outBuf)' /\ p = processed' /\ s = Sending'
        /\ Sent(all, p, k, o) /\ k <= Len(p) /\ (k = Len(p) \/ Silent')
        /\ z \in Nat /\ t \in {0, 1} /\ o + a + b + t <= z /\ s \in {0, 1}
    BY Zenon, <1>1, <1>2, <1>3, <1>4, <1>5 DEF Sending
  <1>a. /\ z \in Nat /\ t \in {0, 1} /\ o + a + b + t <= z /\ s \in {0, 1}
        /\ o \in Nat /\ a \in Nat /\ b \in Nat
    BY Zenon, <1>6
  <1>7. functors \in Seq(Functors)
    BY Zenon, InvParts
  <1>8. CASE BeginTasks
    <2>1. batch' = functors /\ functors' = <<>> /\ UNCHANGED <<others, sender>>
      BY Zenon, <1>8 DEF BeginTasks, otherVars
    <2>2. PICK fs, bs, e : fs = <<>> /\ bs = functors /\ e = 0
      OBVIOUS
    <2>3. s = t
      BY Zenon, <2>1, <1>5 DEF Sending
    <2>4. e \in Nat /\ o + e + a + s <= z
      BY SMT, <2>2, <2>3, <1>a
    <2>5. Pending(fs, e) /\ Pending(bs, a)
      BY Zenon, <2>2, <1>1, NonePending
    <2>6. fs = functors' /\ bs = batch' /\ z = others'
      BY Zenon, <2>1, <2>2, <1>5
    <2>7. QED
      BY Zenon, <2>4, <2>5, <2>6, <1>6, AnswersMade
  <1>9. CASE \E m \in OtherMessages : OtherSend(m)
    <2>1. others' = others + 1 /\ sender = Nobody /\ UNCHANGED <<functors, batch>>
      BY Zenon, <1>9 DEF OtherSend, loopVars
    <2>2. PICK fs, bs, y : fs = functors /\ bs = batch /\ y = z + 1
      OBVIOUS
    <2>3. t = 0
      BY Zenon, <2>1, <1>5 DEF Sending
    <2>4. y \in Nat /\ o + a + b + s <= y
      BY SMT, <2>2, <2>3, <1>a
    <2>5. Pending(fs, a) /\ Pending(bs, b)
      BY Zenon, <2>2, <1>1
    <2>6. fs = functors' /\ bs = batch' /\ y = others'
      BY Zenon, <2>1, <2>2, <1>5
    <2>7. QED
      BY Zenon, <2>4, <2>5, <2>6, <1>6, AnswersMade
  <1>10. CASE OtherQueues
    <2>1. /\ functors' = Append(functors, Functor("sendInLoop", Frame(sender)))
          /\ sender # Nobody /\ sender' = Nobody /\ UNCHANGED <<others, batch>>
      BY Zenon, <1>10 DEF OtherQueues, loopVars
    <2>2. PICK f, w : f = Functor("sendInLoop", Frame(sender)) /\ w = 1
      OBVIOUS
    <2>3. sender \in OtherMessages /\ sender \in Message
      BY Zenon, <2>1, InvParts, MessagesAssumption
    <2>4. f \in Functors /\ f.data \in OtherFrames
      <3>1. f.data = Frame(sender)
        BY <2>2 DEF Functor
      <3>2. QED
        BY Zenon, <3>1, <2>2, <2>3, FunctorTyped DEF Frames, OtherFrames
    <2>5. PICK fs, bs, e : fs = Append(functors, f) /\ bs = batch /\ e = a + w
      OBVIOUS
    <2>6. t = 1 /\ s = 0
      BY Zenon, <2>1, <1>5 DEF Sending
    <2>7. w \in Nat /\ e \in Nat /\ o + e + b + s <= z
      BY SMT, <2>2, <2>5, <2>6, <1>a
    <2>8. Pending(Append(functors, f), a + w)
      BY Zenon, <2>2, <2>4, <2>7, <1>1, <1>7, PendingQueued
    <2>9. Pending(fs, e) /\ Pending(bs, b)
      BY Zenon, <2>5, <2>8, <1>1
    <2>10. fs = functors' /\ bs = batch' /\ z = others'
      BY Zenon, <2>1, <2>2, <2>5, <1>5
    <2>11. QED
      BY Zenon, <2>7, <2>9, <2>10, <1>6, AnswersMade
  <1>11. CASE ShutdownQueues
    <2>1. /\ functors' = Append(functors, Functor("shutdownInLoop", <<>>))
          /\ UNCHANGED <<others, batch, sender>>
      BY Zenon, <1>11 DEF ShutdownQueues, loopVars
    <2>2. PICK f : f = Functor("shutdownInLoop", <<>>)
      OBVIOUS
    <2>3. f.name # "sendInLoop"
      BY <2>2 DEF Functor
    <2>4. f \in Functors
      BY Zenon, <2>2, FunctorTyped
    <2>5. QED
      BY Zenon, <2>1, <2>2, <2>3, <2>4, <1>2, <1>4, AnswersQueued
  <1>12. QED
    BY Zenon, <1>8, <1>9, <1>10, <1>11

\* A message sendInLoop takes does not end the silence of a connection.
LEMMA SilentAccepts ==
    ASSUME Silent, m_state = "kConnected" => writing \/ Contents(outBuf) # <<>> \/ ~Unwritable,
           UNCHANGED m_state
    PROVE  Silent' /\ m_state # "kConnected"
  <1>1. m_state # "kConnected"
    BY Zenon DEF Silent, Unwritable
  <1>2. QED
    BY Zenon, <1>1 DEF Silent

\* What doOtherTasks runs: the sends of other threads, and the closing.
LEMMA AnswersRun ==
    ASSUME StreamInv, AnswersInv, RunTask
    PROVE  AnswersInv'
  <1>1. PICK k, o, a, b \in Nat :
             /\ Sent(socket \o Contents(outBuf), processed, k, o)
             /\ Pending(functors, a) /\ Pending(batch, b)
             /\ o + a + b + Sending <= others
             /\ k <= Len(processed)
             /\ k = Len(processed) \/ Silent
             /\ others \in Nat /\ Sending \in {0, 1}
    BY Zenon, AnswersParts
  <1>2. /\ UNCHANGED <<processed, functors, sender, others, peer>>
        /\ batch # <<>> /\ batch' = Tail(batch)
    BY Zenon DEF RunTask, otherVars
  <1>3. PICK q, f : q = batch /\ f = Head(batch)
    OBVIOUS
  <1>4. q \in Seq(Functors) /\ q # <<>> /\ Pending(q, b) /\ f = Head(q) /\ batch' = Tail(q)
    BY Zenon, <1>1, <1>2, <1>3, InvParts
  <1>5. PICK h \in Nat : Pending(Tail(q), h) /\ h <= b /\ (f.name = "sendInLoop" => h < b)
    BY Zenon, <1>4, PendingTaken
  <1>6. f.name = "sendInLoop" => f.data \in OtherFrames
    BY Zenon, <1>4, PendingTaken
  <1>7. PICK all, p, fs, bs, t, z : /\ all = socket \o Contents(outBuf) /\ p = processed
                                    /\ fs = functors /\ bs = Tail(q) /\ t = Sending /\ z = others
    OBVIOUS
  <1>8. /\ p = processed' /\ fs = functors' /\ bs = batch' /\ t = Sending' /\ z = others'
        /\ Sent(all, p, k, o) /\ Pending(fs, a) /\ Pending(bs, h) /\ k <= Len(p)
        /\ k = Len(p) \/ Silent
    BY Zenon, <1>1, <1>2, <1>4, <1>5, <1>7 DEF Sending
  <1>9. /\ z \in Nat /\ t \in {0, 1} /\ o + a + b + t <= z /\ o \in Nat /\ a \in Nat /\ b \in Nat
        /\ h \in Nat /\ h <= b
    BY Zenon, <1>1, <1>5, <1>7
  <1>10. o + a + h + t <= z
    BY SMT, <1>9
  <1>11. ASSUME UNCHANGED <<socket, outBuf>>, Silent => Silent' PROVE AnswersInv'
    <2>1. all = socket' \o Contents(outBuf)'
      BY Zenon, <1>7, <1>11, OutputSame
    <2>2. k = Len(p) \/ Silent'
      BY Zenon, <1>8, <1>11
    <2>3. QED
      BY Zenon, <2>1, <2>2, <1>8, <1>9, <1>10, AnswersMade
  <1>12. CASE f.name = "sendInLoop" /\ sendInLoop(f.data) /\ UNCHANGED m_state
    <2>1. PICK m \in OtherMessages : f.data = Frame(m)
      BY Zenon, <1>6, <1>12 DEF OtherFrames
    <2>2. PICK data : data = Frame(m)
      OBVIOUS
    <2>3. m \in Message /\ data \in Frames /\ sendInLoop(data)
      BY Zenon, <2>1, <2>2, <1>12, MessagesAssumption DEF Frames
    <2>4. CASE UNCHANGED <<socket, outBuf, writing>>
      <3>1. Silent => Silent'
        BY Zenon, <2>4, <1>2, <1>12, StaysSilent
      <3>2. QED
        BY Zenon, <3>1, <2>4, <1>11
    <2>5. CASE /\ socket' \o Contents(outBuf)' = (socket \o Contents(outBuf)) \o data
               /\ writing \/ Contents(outBuf) # <<>> \/ ~Unwritable
      <3>1. Silent => Silent'
        BY Zenon, <2>5, <1>12, SilentAccepts
      <3>2. PICK o2, more : o2 = o + 1 /\ more = all \o Frame(m)
        OBVIOUS
      <3>3. o2 \in Nat /\ o <= o2 /\ k <= k /\ k + o2 = k + o + 1 /\ o2 + a + h + t <= z
        <4>1. h < b
          BY Zenon, <1>5, <1>12
        <4>2. k \in Nat
          OBVIOUS
        <4>3. QED
          BY SMT, <4>1, <4>2, <3>2, <1>9
      <3>4. all \in Seq(Byte)
        <4>1. socket \in Seq(Byte) /\ Contents(outBuf) \in Seq(Byte)
          BY Zenon, InvParts, BufferContents
        <4>2. QED
          BY Zenon, <4>1, <1>7, Joined
      <3>5. NextSent(m, p, k, k)
        BY Zenon DEF NextSent
      <3>6. Sent(all \o Frame(m), p, k, o2)
        BY Zenon, <3>3, <3>4, <3>5, <2>3, <1>8, SentMore
      <3>7. Sent(more, p, k, o2) /\ more = socket' \o Contents(outBuf)'
        BY Zenon, <3>2, <3>6, <2>2, <2>5, <1>7
      <3>8. k = Len(p) \/ Silent'
        BY Zenon, <3>1, <1>8
      <3>9. QED
        BY Zenon, <3>3, <3>7, <3>8, <1>8, <1>9, AnswersMade
    <2>6. QED
      BY Zenon, <2>3, <2>4, <2>5, SendEither
  <1>13. CASE handleClose /\ UNCHANGED <<socket, outBuf>>
    BY Zenon, <1>11, <1>13, CloseSilences
  <1>14. CASE UNCHANGED <<m_state, socket, outBuf, writing>>
    <2>1. Silent => Silent'
      BY Zenon, <1>2, <1>14, StaysSilent
    <2>2. QED
      BY Zenon, <2>1, <1>11, <1>14
  <1>15. QED
    BY Zenon, <1>3, <1>12, <1>13, <1>14 DEF RunTask

\* onRead answers the package it has cut out, or closes the connection.
LEMMA AnswersPackage ==
    ASSUME StreamInv, Recorded, AnswersInv, onReadPackage
    PROVE  AnswersInv'
  <1>1. /\ UNCHANGED <<peer, batch, fin, sender, others, reading>>
        /\ Len(Waiting) >= HeaderSize /\ Complete /\ originsize >= 0
    BY Zenon DEF onReadPackage, otherVars
  <1>2. CASE forceClose /\ UNCHANGED <<processed, socket, outBuf, writing>>
    BY Zenon, <1>1, <1>2, AnswersForced
  <1>0. PICK r \in Readings(Body) : ReadAs(r)
    BY Zenon, PackageRead
  <1>3. CASE /\ r.ok /\ send(Answer(r.msg)) /\ processed' = Append(processed, r.msg)
             /\ UNCHANGED <<m_state, functors>>
    <2>1. PICK k, o, a, b \in Nat :
             /\ Sent(socket \o Contents(outBuf), processed, k, o)
             /\ Pending(functors, a) /\ Pending(batch, b)
             /\ o + a + b + Sending <= others
             /\ k <= Len(processed)
             /\ k = Len(processed) \/ Silent
             /\ others \in Nat /\ Sending \in {0, 1}
      BY Zenon, AnswersParts
    <2>2. PICK x, m, p, n : /\ x = r.msg /\ m = Answer(x)
                            /\ p = Append(processed, x) /\ n = Len(processed)
      OBVIOUS
    <2>3. Body \in Seq(Byte)
      BY Zenon, <1>1, InvParts, PackageCut
    <2>4. m \in Message
      BY Zenon, <2>2, <2>3, <1>3, AnswerTyped
    <2>5. n \in Nat /\ Len(p) = n + 1 /\ p[n + 1] = x /\ \A i \in 1..n : p[i] = processed[i]
      <3>1. PICK R : processed \in Seq(R)
        BY Zenon DEF Recorded
      <3>2. QED
        <4>1. /\ Len(processed) \in Nat /\ Len(Append(processed, x)) = Len(processed) + 1
              /\ Append(processed, x)[Len(processed) + 1] = x
              /\ \A i \in 1..Len(processed) : Append(processed, x)[i] = processed[i]
          BY SMT, <3>1, Appended
        <4>2. QED
          BY Zenon, <4>1, <2>2
    <2>6. PICK all, fs, bs, t, z : /\ all = socket \o Contents(outBuf) /\ fs = functors
                                   /\ bs = batch /\ t = Sending /\ z = others
      OBVIOUS
    <2>7. /\ p = processed' /\ fs = functors' /\ bs = batch' /\ t = Sending' /\ z = others'
          /\ Pending(fs, a) /\ Pending(bs, b) /\ z \in Nat /\ o + a + b + t <= z
      BY Zenon, <2>1, <2>2, <2>6, <1>1, <1>3 DEF Sending
    <2>8. k \in Nat /\ k <= n /\ (k = n \/ Silent)
      BY Zenon, <2>1, <2>2
    <2>9. k <= Len(p)
      BY SMT, <2>5, <2>8
    <2>10. Sent(all, p, k, o)
      <3>1. \A i \in 1..k : i \in 1..n
        BY SMT, <2>5, <2>8
      <3>2. \A i \in 1..k : p[i] = processed[i]
        BY Zenon, <3>1, <2>5
      <3>3. Sent(socket \o Contents(outBuf), p, k, o)
        BY Zenon, <3>2, <2>1, SentStays
      <3>4. QED
        BY Zenon, <3>3, <2>6
    <2>11. ASSUME UNCHANGED <<socket, outBuf>>, Silent' PROVE AnswersInv'
      <3>1. all = socket' \o Contents(outBuf)'
        BY Zenon, <2>6, <2>11, OutputSame
      <3>2. QED
        BY Zenon, <3>1, <2>7, <2>9, <2>10, <2>11, AnswersMade
    <2>12. CASE m_state # "kConnected"
      <3>1. UNCHANGED <<socket, outBuf>>
        BY Zenon, <2>12, <1>3 DEF send
      <3>2. Silent'
        BY Zenon, <2>12, <1>3 DEF Silent
      <3>3. QED
        BY Zenon, <3>1, <3>2, <2>11
    <2>13. CASE m_state = "kConnected"
      <3>1. PICK data : data = Frame(m)
        OBVIOUS
      <3>2. data \in Frames /\ sendInLoop(data)
        BY Zenon, <3>1, <2>2, <2>4, <2>13, <1>3 DEF send, Frames
      <3>3. CASE /\ UNCHANGED <<socket, outBuf, writing>>
                 /\ m_state = "kDisconnected" \/ (~writing /\ Contents(outBuf) = <<>> /\ Unwritable)
        <4>1. m_state # "kDisconnected"
          BY <2>13
        <4>2. ~fin
          BY Zenon, <2>13, InvParts DEF FinIsLast
        <4>3. peer = "reset" /\ ~writing /\ Contents(outBuf) = <<>>
          BY Zenon, <4>1, <4>2, <3>3 DEF Unwritable
        <4>4. Silent
          BY Zenon, <4>3 DEF Silent
        <4>5. Silent'
          BY Zenon, <4>4, <3>3, <1>1, <1>3, StaysSilent
        <4>6. QED
          BY Zenon, <4>5, <3>3, <2>11
      <3>4. CASE /\ socket' \o Contents(outBuf)' = (socket \o Contents(outBuf)) \o data
                 /\ writing \/ Contents(outBuf) # <<>> \/ ~Unwritable
        <4>1. ~Silent
          BY Zenon, <3>4, <2>13, <1>3, SilentAccepts
        <4>2. PICK l, more : l = n + 1 /\ more = all \o Frame(m)
          OBVIOUS
        <4>3. l \in Nat /\ k <= l /\ o <= o /\ l + o = k + o + 1 /\ l = k + 1 /\ l <= Len(p)
          <5>1. k = n /\ o \in Nat
            BY Zenon, <4>1, <2>8
          <5>2. QED
            BY SMT, <5>1, <4>2, <2>5
        <4>4. NextSent(m, p, k, l)
          BY Zenon, <4>2, <4>3, <2>2, <2>5 DEF NextSent
        <4>5. all \in Seq(Byte)
          <5>1. socket \in Seq(Byte) /\ Contents(outBuf) \in Seq(Byte)
            BY Zenon, InvParts, BufferContents
          <5>2. QED
            BY Zenon, <5>1, <2>6, Joined
        <4>6. Sent(all \o Frame(m), p, l, o)
          BY Zenon, <4>3, <4>4, <4>5, <2>4, <2>10, SentMore
        <4>7. Sent(more, p, l, o) /\ more = socket' \o Contents(outBuf)' /\ l = Len(p)
          BY Zenon, <4>2, <4>6, <3>1, <3>4, <2>5, <2>6
        <4>8. QED
          BY Zenon, <4>3, <4>7, <2>7, AnswersMade
      <3>5. QED
        BY Zenon, <3>2, <3>3, <3>4, SendEither
    <2>14. QED
      BY Zenon, <2>12, <2>13
  <1>4. QED
    BY Zenon, <1>0, <1>2, <1>3 DEF ReadAs

\* Every step keeps the account.
LEMMA AnswersStep ==
    ASSUME StreamInv, Recorded, AnswersInv, [Next]_vars
    PROVE  AnswersInv'
  <1>1. CASE \/ Poll \/ HandleHup \/ HandleRead \/ onReadWaits \/ onReadThrows
             \/ shutdown \/ ShutdownSets \/ PeerEnds \/ UNCHANGED vars
    BY Zenon, <1>1, AnswersQuiet
  <1>2. CASE HandleWrite
    BY Zenon, <1>2, AnswersWritten
  <1>3. CASE onReadRefusesHeader
    <2>1. /\ UNCHANGED <<processed, batch, sender, others, socket, outBuf, writing, peer>>
          /\ forceClose
      BY Zenon, <1>3 DEF onReadRefusesHeader, buffers, otherVars
    <2>2. QED
      BY Zenon, <2>1, AnswersForced
  <1>4. CASE onReadPackage
    BY Zenon, <1>4, AnswersPackage
  <1>5. CASE BeginTasks \/ (\E m \in OtherMessages : OtherSend(m)) \/ OtherQueues \/ ShutdownQueues
    BY Zenon, <1>5, AnswersOthers
  <1>6. CASE RunTask
    BY Zenon, <1>6, AnswersRun
  <1>7. QED
    BY Zenon, <1>1, <1>2, <1>3, <1>4, <1>5, <1>6 DEF Next, Loop

\* A new connection has sent nothing.
LEMMA InitAnswers == Init => AnswersInv
  <1> SUFFICES ASSUME Init
               PROVE  AnswersInv
    OBVIOUS
  <1>1. /\ outBuf = NewBuffer /\ socket = <<>> /\ functors = <<>> /\ batch = <<>>
        /\ processed = <<>> /\ others = 0 /\ sender = Nobody
    BY Zenon DEF Init
  <1>2. Contents(outBuf) = <<>>
    BY Zenon, <1>1, NewEmpty
  <1>3. <<>> \o <<>> = <<>> /\ Len(<<>>) = 0 /\ 0 \in Nat /\ 0 + 0 + 0 + 0 <= 0 /\ 0 <= 0
    BY SMT
  <1>4. Sending = 0
    BY Zenon, <1>1 DEF Sending
  <1>5. Sent(socket \o Contents(outBuf), processed, 0, 0)
    BY Zenon, <1>1, <1>2, <1>3, SentNothing
  <1>6. Account(0, 0, 0, 0)
    BY Zenon, <1>1, <1>3, <1>4, <1>5, NonePending DEF Account
  <1>7. QED
    BY Zenon, <1>1, <1>3, <1>6 DEF AnswersInv

\* The account is what the property says.
LEMMA AnswersFollow ==
    ASSUME StreamInv, Recorded, AnswersInv
    PROVE  AnswersReadable
  <1>1. PICK k, o, a, b \in Nat :
             /\ Sent(socket \o Contents(outBuf), processed, k, o)
             /\ Pending(functors, a) /\ Pending(batch, b)
             /\ o + a + b + Sending <= others
             /\ k <= Len(processed)
             /\ k = Len(processed) \/ Silent
             /\ others \in Nat /\ Sending \in {0, 1}
    BY Zenon, AnswersParts
  <1>2. PICK d, q, p, t, z : /\ d = socket /\ q = Contents(outBuf) /\ p = processed /\ t = Sending
                             /\ z = others
    OBVIOUS
  <1>3. d \in Seq(Byte) /\ q \in Seq(Byte)
    BY Zenon, <1>2, InvParts, BufferContents
  <1>4. z \in Nat /\ t \in {0, 1} /\ o + a + b + t <= z /\ o \in Nat /\ a \in Nat /\ b \in Nat
    BY Zenon, <1>1, <1>2
  <1>5. o <= z
    BY SMT, <1>4
  <1>6. Sent(d \o q, p, k, o) /\ k <= Len(p) /\ Len(p) \in Nat
    <2>1. PICK R : p \in Seq(R)
      BY Zenon, <1>2 DEF Recorded
    <2>2. Len(p) \in Nat
      BY SMT, <2>1
    <2>3. QED
      BY Zenon, <2>2, <1>1, <1>2
  <1>7. Reads(d, p, z)
    BY Zenon, <1>3, <1>4, <1>5, <1>6, SentReads
  <1>8. QED
    BY Zenon, <1>2, <1>7 DEF Reads, AnswersReadable

\* However the answers were cut into writes, buffered, mixed with the sends of
\* other threads or broken off, what the client unpacks is the answers to its
\* requests in their order, for the cmd and seq it asked with, none twice and
\* none left out between two others, and whole messages of other threads.
THEOREM AnswersAreReadable == Spec => []AnswersReadable
  <1>1. Init => StreamInv /\ Recorded /\ AnswersInv
    BY InitStream, InitRecorded, InitAnswers
  <1>2. StreamInv /\ Recorded /\ AnswersInv /\ [Next]_vars
          => StreamInv' /\ Recorded' /\ AnswersInv'
    BY StreamStep, Grown, AnswersStep
  <1>3. StreamInv /\ Recorded /\ AnswersInv => AnswersReadable
    BY AnswersFollow
  <1>4. QED
    BY <1>1, <1>2, <1>3, PTL DEF Spec

=============================================================================
