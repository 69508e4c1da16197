---------------------------- MODULE FramingProofs -----------------------------
(***************************************************************************)
(* What the envelope is for, for every payload and whatever the digest.    *)
(***************************************************************************)
EXTENDS Framing, TLAPS

\* Two sequences put together, element by element and taken apart again.
LEMMA Concatenation ==
    ASSUME NEW S, NEW s \in Seq(S), NEW t \in Seq(S)
    PROVE  /\ s \o t \in Seq(S)
           /\ Len(s \o t) = Len(s) + Len(t)
           /\ \A i \in 1 .. Len(s) : (s \o t)[i] = s[i]
           /\ \A i \in 1 .. Len(t) : (s \o t)[Len(s) + i] = t[i]
  OBVIOUS

LEMMA SubSequence ==
    ASSUME NEW S, NEW s \in Seq(S), NEW n \in 0 .. Len(s), NEW k \in 0 .. n
    PROVE  /\ SubSeq(s, k + 1, n) \in Seq(S)
           /\ Len(SubSeq(s, k + 1, n)) = n - k
           /\ \A i \in 1 .. n - k : SubSeq(s, k + 1, n)[i] = s[k + i]
  OBVIOUS

LEMMA Front ==
    ASSUME NEW S, NEW s \in Seq(S), NEW n \in 0 .. Len(s)
    PROVE  /\ SubSeq(s, 1, n) \in Seq(S)
           /\ Len(SubSeq(s, 1, n)) = n
           /\ \A i \in 1 .. n : SubSeq(s, 1, n)[i] = s[i]
  OBVIOUS

LEMMA WiderSeq ==
    ASSUME NEW S, NEW T, S \subseteq T, NEW s \in Seq(S)
    PROVE  s \in Seq(T)
  OBVIOUS

LEMMA SameSequence ==
    ASSUME NEW S, NEW s \in Seq(S), NEW t \in Seq(S), Len(s) = Len(t),
           \A i \in 1 .. Len(s) : s[i] = t[i]
    PROVE  s = t
  OBVIOUS

\* What unframe_payload checks before it gives a payload out.
Whole(data) ==
    /\ Len(data) >= HeaderSize
    /\ data[1] = Magic /\ data[2] = Version
    /\ Len(data) >= FrameLength(data)
    /\ data[4] = Digest(Payload(data))

LEMMA UnframeCases ==
    ASSUME NEW data
    PROVE  /\ Whole(data) => Unframe(data) = [ok |-> TRUE, payload |-> Payload(data),
                                             remaining |-> Remaining(data)]
           /\ ~Whole(data) => Unframe(data) = Error
  BY Zenon DEF Unframe, Whole

\* The numbers a frame is made of.
Number(payload) == Nat \cup {Magic, Version, Digest(payload)}

LEMMA NumbersOfPayload ==
    ASSUME NEW payload, NEW other \in Seq(Nat)
    PROVE  other \in Seq(Number(payload))
  <1>1. Nat \subseteq Number(payload)
    BY DEF Number
  <1> QED
    BY <1>1, WiderSeq, Zenon

\* The elements of a header and of what follows it.
LEMMA HeaderElements ==
    ASSUME NEW payload \in Seq(Nat), NEW other \in Seq(Nat)
    PROVE  /\ Header(payload) \o other \in Seq(Number(payload))
           /\ Len(Header(payload) \o other) = 4 + Len(other)
           /\ (Header(payload) \o other)[1] = Magic
           /\ (Header(payload) \o other)[2] = Version
           /\ (Header(payload) \o other)[3] = Len(payload)
           /\ (Header(payload) \o other)[4] = Digest(payload)
           /\ \A i \in 1 .. Len(other) : (Header(payload) \o other)[4 + i] = other[i]
  <1>1. Header(payload) \in Seq(Number(payload)) /\ Len(Header(payload)) = 4
    BY DEF Header, Number
  <1>2. other \in Seq(Number(payload))
    BY NumbersOfPayload, Zenon
  <1>3. /\ Header(payload)[1] = Magic /\ Header(payload)[2] = Version
        /\ Header(payload)[3] = Len(payload)
        /\ Header(payload)[4] = Digest(payload)
    BY DEF Header
  <1>4. PICK h \in Seq(Number(payload)) : h = Header(payload)
    BY <1>1
  <1>5. /\ h \o other \in Seq(Number(payload))
        /\ Len(h \o other) = Len(h) + Len(other)
        /\ \A i \in 1 .. Len(h) : (h \o other)[i] = h[i]
        /\ \A i \in 1 .. Len(other) : (h \o other)[Len(h) + i] = other[i]
    BY <1>2, Concatenation
  <1>6. Header(payload) \o other = h \o other /\ Len(h) = 4
    BY <1>1, <1>4
  <1> QED
    BY <1>3, <1>4, <1>5, <1>6

LEMMA FrameElements ==
    ASSUME NEW payload \in Seq(Nat)
    PROVE  /\ Frame(payload) \in Seq(Number(payload))
           /\ Len(Frame(payload)) = 4 + Len(payload)
           /\ Frame(payload)[1] = Magic /\ Frame(payload)[2] = Version
           /\ Frame(payload)[3] = Len(payload)
           /\ Frame(payload)[4] = Digest(payload)
           /\ \A i \in 1 .. Len(payload) : Frame(payload)[4 + i] = payload[i]
  BY HeaderElements DEF Frame

\* frame_payload and unframe_payload: the payload comes back, and what follows
\* it on the line is left for the next call.
THEOREM RoundTrip ==
    ASSUME NEW payload \in Seq(Nat), NEW rest \in Seq(Nat)
    PROVE  Unframe(Frame(payload) \o rest)
              = [ok |-> TRUE, payload |-> payload, remaining |-> rest]
  <1> DEFINE data == Frame(payload) \o rest
             n == Len(payload)
             N == Number(payload)
  <1>1. /\ Frame(payload) \in Seq(N) /\ rest \in Seq(N) /\ payload \in Seq(N)
        /\ n \in Nat /\ Len(rest) \in Nat
    <2>1. Nat \subseteq N
      BY DEF Number
    <2>2. payload \in Seq(N) /\ rest \in Seq(N)
      BY <2>1, WiderSeq, Zenon
    <2> QED
      BY <2>2, FrameElements
  <1>2. /\ data \in Seq(N)
        /\ Len(data) = 4 + n + Len(rest)
        /\ \A i \in 1 .. 4 + n : data[i] = Frame(payload)[i]
        /\ \A i \in 1 .. Len(rest) : data[4 + n + i] = rest[i]
    <2>1. Len(Frame(payload)) = 4 + n
      BY FrameElements DEF HeaderSize
    <2> HIDE DEF N, n
    <2>2. /\ data \in Seq(N)
          /\ Len(data) = Len(Frame(payload)) + Len(rest)
          /\ \A i \in 1 .. Len(Frame(payload)) : data[i] = Frame(payload)[i]
          /\ \A i \in 1 .. Len(rest) : data[Len(Frame(payload)) + i] = rest[i]
      BY <1>1, Concatenation
    <2> QED
      BY <2>1, <2>2
  <1>3. /\ data[1] = Magic /\ data[2] = Version
        /\ data[3] = n /\ data[4] = Digest(payload)
        /\ \A i \in 1 .. n : data[4 + i] = payload[i]
    BY <1>1, <1>2, FrameElements DEF HeaderSize
  <1> HIDE DEF data, n, N
  <1>4. FrameLength(data) = 4 + n
    BY <1>3 DEF FrameLength, HeaderSize
  <1>5. Payload(data) = payload
    <2>1. /\ Payload(data) \in Seq(N) /\ Len(Payload(data)) = n
          /\ \A i \in 1 .. n : Payload(data)[i] = data[4 + i]
      BY <1>1, <1>2, <1>4, SubSequence DEF Payload, HeaderSize
    <2>2. Len(payload) = n
      BY DEF n
    <2> QED
      BY <1>1, <1>3, <2>1, <2>2, SameSequence
  <1>6. Remaining(data) = rest
    <2>1. /\ Remaining(data) \in Seq(N) /\ Len(Remaining(data)) = Len(rest)
          /\ \A i \in 1 .. Len(rest) : Remaining(data)[i] = data[4 + n + i]
      BY <1>1, <1>2, <1>4, SubSequence DEF Remaining
    <2> QED
      BY <1>1, <1>2, <2>1, SameSequence
  <1>7. Unframe(data) = [ok |-> TRUE, payload |-> payload, remaining |-> rest]
    BY <1>1, <1>2, <1>3, <1>4, <1>5, <1>6 DEF Unframe, HeaderSize
  <1> QED
    BY <1>7 DEF data

\* A bundle of which only a beginning was copied, or a line that ended early,
\* is refused: no proper prefix of a frame unframes.
THEOREM TornIsRefused ==
    ASSUME NEW payload \in Seq(Nat), NEW n \in 0 .. Len(Frame(payload)) - 1
    PROVE  Unframe(SubSeq(Frame(payload), 1, n)) = Error
  <1> DEFINE N == Number(payload)
             data == SubSeq(Frame(payload), 1, n)
  <1>1. /\ Frame(payload) \in Seq(N) /\ Len(Frame(payload)) = 4 + Len(payload)
        /\ Frame(payload)[3] = Len(payload) /\ Len(payload) \in Nat
    BY FrameElements DEF HeaderSize
  <1> HIDE DEF N
  <1>2. /\ Len(data) = n
        /\ \A i \in 1 .. n : data[i] = Frame(payload)[i]
    BY <1>1, SubSequence
  <1>3. n \in Nat /\ n < 4 + Len(payload)
    BY <1>1
  <1> HIDE DEF data
  <1>4. ~Whole(data)
    <2>1. CASE n < 4
      BY <1>2, <2>1 DEF Whole, HeaderSize
    <2>2. CASE n >= 4
      <3>1. data[3] = Len(payload)
        BY <1>1, <1>2, <1>3, <2>2
      <3>2. ~(Len(data) >= FrameLength(data))
        BY <1>1, <1>2, <1>3, <3>1 DEF FrameLength, HeaderSize
      <3> QED
        BY <3>2 DEF Whole
    <2> QED
      BY <1>3, <2>1, <2>2
  <1>5. Unframe(data) = Error
    BY <1>4, UnframeCases
  <1> QED
    BY <1>5 DEF data

\* A payload of the same length with another digest is refused.
THEOREM ChangedIsRefused ==
    ASSUME NEW payload \in Seq(Nat), NEW other \in Seq(Nat),
           Len(other) = Len(payload), Digest(other) # Digest(payload)
    PROVE  Unframe(Header(payload) \o other) = Error
  <1>1. PICK data : data = Header(payload) \o other
    OBVIOUS
  <1>2. /\ data \in Seq(Number(payload)) /\ Len(data) = 4 + Len(other)
        /\ data[3] = Len(other) /\ data[4] = Digest(payload)
        /\ \A i \in 1 .. Len(other) : data[4 + i] = other[i]
        /\ other \in Seq(Number(payload)) /\ Len(other) \in Nat
    <2>1. other \in Seq(Number(payload)) /\ Len(other) \in Nat
      BY NumbersOfPayload
    <2> QED
      BY <1>1, <2>1, HeaderElements
  <1>3. FrameLength(data) = 4 + Len(other)
    BY <1>2 DEF FrameLength, HeaderSize
  <1>4. Payload(data) = other
    <2>1. /\ Payload(data) \in Seq(Number(payload))
          /\ Len(Payload(data)) = Len(other)
          /\ \A i \in 1 .. Len(other) : Payload(data)[i] = data[4 + i]
      BY <1>2, <1>3, SubSequence DEF Payload, HeaderSize
    <2> QED
      BY <1>2, <2>1, SameSequence
  <1>5. ~Whole(data)
    BY <1>2, <1>4 DEF Whole
  <1> QED
    BY <1>1, <1>5, UnframeCases

\* The readers of the TCP and the serial line get the payload that
\* unframe_payload takes from the line, although they trust the length before
\* they look at the magic and the digest.
THEOREM ReadersAgree ==
    ASSUME NEW line \in Seq(Nat)
    PROVE  /\ ReadAnswer(line).ok = Unframe(line).ok
           /\ Unframe(line).ok => ReadAnswer(line).payload = Unframe(line).payload
  <1>1. CASE Len(line) >= HeaderSize /\ Len(line) >= FrameLength(line)
    <2>1. PICK total \in 4 .. Len(line) : total = FrameLength(line)
      BY <1>1 DEF FrameLength, HeaderSize
    <2>2. total \in Nat /\ total >= 4 /\ total =< Len(line) /\ Len(line) \in Nat
      BY <2>1
    <2>3. PICK part : part = SubSeq(line, 1, total)
      OBVIOUS
    <2>4. /\ part \in Seq(Nat) /\ Len(part) = total
          /\ \A i \in 1 .. total : part[i] = line[i]
      <3>1. total \in 0 .. Len(line)
        BY <2>1
      <3> QED
        BY <2>3, <3>1, Front, Zenon
    <2>5. part[1] = line[1] /\ part[2] = line[2] /\ part[3] = line[3] /\ part[4] = line[4]
      BY <2>1, <2>4
    <2>6. FrameLength(part) = total
      BY <2>1, <2>5 DEF FrameLength
    <2>7. Payload(part) = Payload(line)
      <3>1. /\ SubSeq(part, 4 + 1, total) \in Seq(Nat)
            /\ Len(SubSeq(part, 4 + 1, total)) = total - 4
            /\ \A i \in 1 .. total - 4 : SubSeq(part, 4 + 1, total)[i] = part[4 + i]
        <4>1. total \in 0 .. Len(part) /\ 4 \in 0 .. total /\ part \in Seq(Nat)
          BY <2>2, <2>4
        <4> QED
          BY <4>1, SubSequence, Zenon
      <3>2. /\ SubSeq(line, 4 + 1, total) \in Seq(Nat)
            /\ Len(SubSeq(line, 4 + 1, total)) = total - 4
            /\ \A i \in 1 .. total - 4 : SubSeq(line, 4 + 1, total)[i] = line[4 + i]
        <4>1. total \in 0 .. Len(line) /\ 4 \in 0 .. total
          BY <2>2
        <4> QED
          BY <4>1, SubSequence, Zenon
      <3>3. \A i \in 1 .. total - 4 : part[4 + i] = line[4 + i]
        BY <2>2, <2>4
      <3>4. SubSeq(part, 4 + 1, total) = SubSeq(line, 4 + 1, total)
        <4>1. PICK p, q : /\ p = SubSeq(part, 4 + 1, total)
                          /\ q = SubSeq(line, 4 + 1, total)
          OBVIOUS
        <4>2. p \in Seq(Nat) /\ q \in Seq(Nat) /\ Len(p) = Len(q)
          BY <3>1, <3>2, <4>1
        <4>3. \A i \in 1 .. Len(p) : p[i] = q[i]
          BY <3>1, <3>2, <3>3, <4>1
        <4> QED
          BY <4>1, <4>2, <4>3, SameSequence
      <3> QED
        BY <2>1, <2>6, <3>4 DEF Payload, HeaderSize
    <2>8. ReadAnswer(line) = Unframe(part)
      BY <1>1, <2>1, <2>3, Zenon DEF ReadAnswer
    <2>9. Whole(part) <=> Whole(line)
      <3>1. Len(part) >= 4 /\ Len(line) >= 4 /\ Len(part) >= FrameLength(part)
            /\ Len(line) >= FrameLength(line)
        BY <2>1, <2>2, <2>4, <2>6
      <3> QED
        BY <2>5, <2>7, <3>1, Zenon DEF Whole, HeaderSize
    <2> QED
      <3>1. CASE Whole(line)
        <4>1. /\ Unframe(line).ok /\ Unframe(line).payload = Payload(line)
              /\ ReadAnswer(line).ok /\ ReadAnswer(line).payload = Payload(part)
          BY <2>8, <2>9, <3>1, UnframeCases
        <4> QED
          BY <2>7, <4>1
      <3>2. CASE ~Whole(line)
        BY <2>8, <2>9, <3>2, UnframeCases DEF Error
      <3> QED
        BY <3>1, <3>2
  <1>2. CASE ~(Len(line) >= HeaderSize /\ Len(line) >= FrameLength(line))
    <2>1. ReadAnswer(line) = Error
      BY <1>2, Zenon DEF ReadAnswer
    <2>2. Unframe(line) = Error
      BY <1>2, UnframeCases, Zenon DEF Whole
    <2> QED
      BY <2>1, <2>2, Zenon DEF Error
  <1> QED
    BY <1>1, <1>2

=============================================================================
