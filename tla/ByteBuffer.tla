------------------------------ MODULE ByteBuffer ------------------------------
(***************************************************************************)
(* net/ByteBuffer: a vector of bytes with two indices.  The readable bytes *)
(* lie between them; kCheapPrepend bytes are kept free in front.           *)
(***************************************************************************)
EXTENDS Naturals, Sequences

CONSTANTS kCheapPrepend, kInitialSize,
          ExtraSize      \* sizeof extrabuf in readFd

ASSUME SizesAssumption == /\ kCheapPrepend \in Nat
                          /\ kInitialSize \in Nat
                          /\ ExtraSize \in Nat

Byte == 0..255

\* vector::resize fills with zeros; so does the model for the bytes of a new one
Zeros(n) == [i \in 1..n |-> 0]

NewBuffer == [m_buffer |-> Zeros(kCheapPrepend + kInitialSize),
              m_readerIndex |-> kCheapPrepend, m_writerIndex |-> kCheapPrepend]

IsBuffer(b) ==
  /\ b.m_buffer \in Seq(Byte)
  /\ kCheapPrepend <= b.m_readerIndex
  /\ b.m_readerIndex <= b.m_writerIndex
  /\ b.m_writerIndex <= Len(b.m_buffer)

readableBytes(b) == b.m_writerIndex - b.m_readerIndex

writableBytes(b) == Len(b.m_buffer) - b.m_writerIndex

\* the readable bytes, from peek() on
Contents(b) == SubSeq(b.m_buffer, b.m_readerIndex + 1, b.m_writerIndex)

retrieveAll(b) ==
  [b EXCEPT !.m_readerIndex = kCheapPrepend, !.m_writerIndex = kCheapPrepend]

\* a length beyond the readable bytes is refused
retrieve(b, len) ==
  IF len > readableBytes(b) THEN b
  ELSE IF len < readableBytes(b) THEN [b EXCEPT !.m_readerIndex = @ + len]
  ELSE retrieveAll(b)

\* std::copy of data to index (0-based) at
CopyTo(buf, at, data) ==
  [i \in 1..Len(buf) |-> IF at < i /\ i <= at + Len(data) THEN data[i - at] ELSE buf[i]]

\* prependableBytes is m_readerIndex
TooSmall(b, len) == writableBytes(b) + b.m_readerIndex < len + kCheapPrepend

makeSpace(b, len) ==
  IF TooSmall(b, len)
  THEN [b EXCEPT !.m_buffer = SubSeq(@, 1, b.m_writerIndex) \o Zeros(len)]
  ELSE IF kCheapPrepend >= b.m_readerIndex THEN b
  ELSE [m_buffer |-> CopyTo(b.m_buffer, kCheapPrepend, Contents(b)),
        m_readerIndex |-> kCheapPrepend,
        m_writerIndex |-> kCheapPrepend + readableBytes(b)]

ensureWritableBytes(b, len) == IF writableBytes(b) < len THEN makeSpace(b, len) ELSE b

append(b, data) ==
  LET e == ensureWritableBytes(b, Len(data)) IN
  [e EXCEPT !.m_buffer = CopyTo(@, e.m_writerIndex, data),
            !.m_writerIndex = @ + Len(data)]

(***************************************************************************)
(* readFd: readv into the writable bytes and, if they are fewer than it    *)
(* holds, into extrabuf, whose part is then appended.                      *)
(***************************************************************************)
Capacity(b) ==
  IF writableBytes(b) < ExtraSize THEN writableBytes(b) + ExtraSize ELSE writableBytes(b)

\* Fault: what readv put into extrabuf is not appended.
readFdShort(b, data) ==
  LET w == writableBytes(b)
      direct == IF Len(data) <= w THEN data ELSE SubSeq(data, 1, w)
  IN [b EXCEPT !.m_buffer = CopyTo(@, b.m_writerIndex, direct),
               !.m_writerIndex = @ + Len(direct)]

readFd(b, data) ==
  LET w == writableBytes(b) IN
  IF Len(data) <= w
  THEN [b EXCEPT !.m_buffer = CopyTo(@, b.m_writerIndex, data),
                 !.m_writerIndex = @ + Len(data)]
  ELSE append([b EXCEPT !.m_buffer = CopyTo(@, b.m_writerIndex, SubSeq(data, 1, w)),
                        !.m_writerIndex = Len(b.m_buffer)],
              SubSeq(data, w + 1, Len(data)))

=============================================================================
