-------------------------- MODULE DownloadsProofs --------------------------
(***************************************************************************)
(* What a GET sends (module Downloads), for files, ranges and GETs of any  *)
(* number and size: a body served by the O2 store is of one content, and a *)
(* response carries the bytes it announced.                                *)
(*                                                                         *)
(* Both are said of the bytes that were sent; what a step sends next is    *)
(* decided when the body is opened.  So the invariant adds the bytes that  *)
(* are left: they are of the content already sent (SameContent), and with  *)
(* the bytes already sent they make up the announced ones (InOrder), which *)
(* takes that the four readings of a range in the code agree where it is   *)
(* served (RangesAgree).                                                   *)
(***************************************************************************)
EXTENDS Downloads, SequenceTheorems, TLAPS

Byte == (1..MaxVersions) \X Positions

GetType ==
    [pc : {"idle", "open", "resolve", "connect", "streaming", "done", "failed"},
     range : Ranges \cup {None}, seen : FileType \cup {None}, urls : Seq(Urls),
     retried : BOOLEAN, asked : Ranges \cup {None}, left : Seq(Byte), body : Seq(Byte),
     broke : BOOLEAN, raced : BOOLEAN]
GetShape(r) == r \in GetType /\ IsInjective(r.urls)

\* What was sent and what is left is of one content.
SameContent(r) ==
    \E v \in Int : /\ \A n \in 1..Len(r.body) : r.body[n][1] = v
                   /\ \A n \in 1..Len(r.left) : r.left[n][1] = v

\* Before the body is opened, and between two URLs, nothing was sent.
NothingSent(r) == r.pc \in {"idle", "open", "resolve", "connect"} => r.body = <<>>

\* What was sent last and what is left are the bytes that were announced, and
\* nothing was sent before them unless a URL broke.
Answer(r) == Bytes(r.seen.v, Announced(r.range, r.seen.size))
Sent(r) == Len(Answer(r)) - Len(r.left)
InOrder(r) ==
    /\ 0 <= Sent(r) /\ Sent(r) <= Len(r.body)
    /\ ~r.broke => Sent(r) = Len(r.body)
    /\ \A j \in 1..Len(r.left) : r.left[j] = Answer(r)[Sent(r) + j]
    /\ \A j \in 1..Sent(r) : r.body[Len(r.body) - Sent(r) + j] = Answer(r)[j]

\* The provider was asked for what was announced.
Asks(r) == store = "o2" /\ r.asked = Asked(r.range, file.size)

\* What a GET that no PUT overlapped relies on, at each of its points.
Served(r) ==
    r.pc # "idle" /\ ~r.raced /\ ~Unserved(r.range) =>
        /\ r.seen = file
        /\ r.pc = "open" => r.urls = <<>> /\ r.body = <<>>
        /\ r.pc \in {"resolve", "connect"} => Asks(r) /\ (~r.broke => r.body = <<>>)
        /\ r.pc = "streaming" => InOrder(r) /\ (r.urls # <<>> => Asks(r))
        /\ r.pc = "done" => InOrder(r) /\ r.left = <<>>

GoodGet(r) ==
    /\ GetShape(r) /\ Served(r)
    /\ store = "o2" /\ ~r.broke => SameContent(r) /\ NothingSent(r)

RestTyped ==
    /\ entry \in {"copy", "upload", None}
    /\ has \in SUBSET {"direct", "native"} /\ cached \in Urls \cup {None}
    /\ gets \in 0..MaxGets

GetsInv ==
    /\ get = [c \in Readers |-> get[c]]
    /\ \A c \in Readers : GoodGet(get[c])
    /\ store \in Stores /\ file \in FileType /\ RestTyped

-----------------------------------------------------------------------------
(* Ranges and bytes.                                                       *)

Pair(b) == b[1] \in Int /\ b[2] \in Int

LEMMA BytesGiven ==
  ASSUME NEW v \in 1..MaxVersions, NEW b, Pair(b), b[1] >= 0, b[2] <= MaxSize
  PROVE  /\ Bytes(v, b) \in Seq(Byte)
         /\ Len(Bytes(v, b)) = AtLeast(0, b[2] - b[1] + 1)
         /\ \A n \in 1..Len(Bytes(v, b)) : Bytes(v, b)[n] = <<v, b[1] + n - 1>>
<1> DEFINE k == AtLeast(0, b[2] - b[1] + 1)
           f == [n \in 1..k |-> <<v, b[1] + n - 1>>]
<1>1. k \in Nat /\ (k > 0 => k = b[2] - b[1] + 1)
  BY DEF AtLeast, Pair
<1>2. Bytes(v, b) = f
  BY DEF Bytes
<1>3. \A n \in 1..k : f[n] \in Byte /\ f[n] = <<v, b[1] + n - 1>>
  <2> SUFFICES ASSUME NEW n \in 1..k PROVE f[n] \in Byte /\ f[n] = <<v, b[1] + n - 1>>
    OBVIOUS
  <2>1. b[1] + n - 1 \in Positions
    BY <1>1, DownloadsAssumption DEF Pair, Positions
  <2> QED BY <2>1 DEF Byte
<1>4. f \in Seq(Byte) /\ Len(f) = k
  <2>1. f \in [1..k -> Byte]
    BY <1>3
  <2> HIDE DEF k, f
  <2>2. f \in Seq(Byte)
    BY <1>1, <2>1
  <2>3. DOMAIN f = 1..k
    BY <2>1
  <2> QED BY <1>1, <2>2, <2>3, LenProperties
<1> HIDE DEF f
<1> QED BY <1>2, <1>3, <1>4

LEMMA RangeFields ==
  ASSUME NEW r \in Ranges
  PROVE  r[1] \in Int /\ r[2] \in Positions \cup {None}
<1>1. CASE r \in {<<s, e>> : s \in Positions, e \in Positions \cup {None}}
  <2>1. PICK s \in Positions, e \in Positions \cup {None} : r = <<s, e>>
    BY <1>1
  <2>2. s \in Int
    BY DownloadsAssumption DEF Positions
  <2> QED BY <2>1, <2>2
<1>2. CASE r \in {<<-n, None>> : n \in 1..MaxSize}
  <2>1. PICK n \in 1..MaxSize : r = <<-n, None>>
    BY <1>2
  <2>2. -n \in Int
    BY DownloadsAssumption
  <2> QED BY <2>1, <2>2
<1> QED BY <1>1, <1>2 DEF Ranges

\* Every reading of a range stays within the file.
Within(b, size) == Pair(b) /\ b[1] >= 0 /\ b[2] <= size - 1

LEMMA BoundsFit ==
  ASSUME NEW r \in Ranges \cup {None}, NEW size \in Positions
  PROVE  /\ Within(Announced(r, size), size)
         /\ Within(LocalBounds(r, size), size)
         /\ Within(ProviderBounds(r, size), size)
         /\ Within(SimulatedBounds(r, size), size)
<1>1. size \in Nat /\ size - 1 \in Int /\ \A p \in Positions : p \in Nat
  BY DownloadsAssumption DEF Positions
<1>2. r # None => r[1] \in Int /\ (r[2] # None => r[2] \in Nat)
  BY <1>1, RangeFields
<1>3. r # None => Within(Bounds(r, size), size)
  <2> SUFFICES ASSUME r # None PROVE Within(Bounds(r, size), size)
    OBVIOUS
  <2>1. AtLeast(0, size + r[1]) \in Nat
    BY <1>1, <1>2 DEF AtLeast
  <2> QED BY <1>1, <1>2, <2>1 DEF Bounds, Within, Pair
<1>4. Within(<<0, size - 1>>, size)
  BY <1>1 DEF Within, Pair
<1>5. Within(Announced(r, size), size)
  BY <1>3, <1>4 DEF Announced
<1>6. Within(LocalBounds(r, size), size)
  <2>1. CASE r = None
    BY <1>4, <2>1 DEF LocalBounds
  <2>2. CASE r # None
    <3>1. /\ AtLeast(0, r[1]) \in Nat
          /\ r[2] # None => AtMost(size - 1, r[2]) \in Int /\ AtMost(size - 1, r[2]) <= size - 1
      BY <1>1, <1>2, <2>2 DEF AtLeast, AtMost
    <3> QED BY <1>1, <2>2, <3>1 DEF LocalBounds, Within, Pair
  <2> QED BY <2>1, <2>2
<1>7. Within(ProviderBounds(r, size), size)
  BY <1>3, <1>4 DEF ProviderBounds
<1>8. Within(SimulatedBounds(r, size), size)
  <2>1. CASE size = 0
    BY <1>1, <2>1 DEF SimulatedBounds, Within, Pair
  <2>2. CASE size # 0 /\ r = None
    BY <1>4, <2>2 DEF SimulatedBounds
  <2>3. CASE size # 0 /\ r # None
    <3> DEFINE b == Bounds(r, size)
    <3>1. Within(b, size) /\ Within(<<size, size - 1>>, size)
      BY <1>1, <1>3, <2>3 DEF Within, Pair
    <3> HIDE DEF b
    <3>2. b[2] < b[1] => Within(<<b[1], b[1] - 1>>, size) \/ b[1] >= size
      BY <1>1, <3>1 DEF Within, Pair
    <3>3. SimulatedBounds(r, size) = IF b[1] >= size THEN <<size, size - 1>>
                                     ELSE IF b[2] < b[1] THEN <<b[1], b[1] - 1>> ELSE b
      BY <2>3 DEF SimulatedBounds, b
    <3> QED BY <3>1, <3>2, <3>3
  <2> QED BY <2>1, <2>2, <2>3
<1> QED BY <1>5, <1>6, <1>7, <1>8

LEMMA AskedIsRange ==
  ASSUME NEW r \in Ranges \cup {None}, NEW size \in Positions
  PROVE  Asked(r, size) \in Ranges \cup {None}
<1>1. CASE r = None /\ size > 0
  <2>1. 0 \in Positions /\ size - 1 \in Positions
    BY <1>1, DownloadsAssumption DEF Positions
  <2> QED BY <1>1, <2>1 DEF Asked, Ranges
<1>2. CASE ~(r = None /\ size > 0)
  BY <1>2 DEF Asked
<1> QED BY <1>1, <1>2

\* Two readings agree when they name the same bytes, or none.
Agree(b, d) == (b[1] = d[1] /\ b[2] = d[2]) \/ (b[2] < b[1] /\ d[2] < d[1])

LEMMA AgreeingBytes ==
  ASSUME NEW v, NEW b, NEW d, Pair(b), Pair(d), Agree(b, d)
  PROVE  Bytes(v, b) = Bytes(v, d)
<1>1. CASE b[1] = d[1] /\ b[2] = d[2]
  BY <1>1 DEF Bytes
<1>2. CASE b[2] < b[1] /\ d[2] < d[1]
  <2>1. AtLeast(0, b[2] - b[1] + 1) = 0 /\ AtLeast(0, d[2] - d[1] + 1) = 0
    BY <1>2 DEF AtLeast, Pair
  <2>2. Bytes(v, b) = [n \in 1..0 |-> <<v, b[1] + n - 1>>]
    BY <2>1 DEF Bytes
  <2>3. Bytes(v, d) = [n \in 1..0 |-> <<v, d[1] + n - 1>>]
    BY <2>1 DEF Bytes
  <2>4. \A n \in 1..0 : FALSE
    OBVIOUS
  <2> QED BY <2>2, <2>3, <2>4
<1> QED BY <1>1, <1>2 DEF Agree

\* The local copy, the provider and the simulated store send what the router
\* announces, of every range they serve.
LEMMA RangesAgree ==
  ASSUME NEW r \in Ranges \cup {None}, NEW size \in Positions
  PROVE  /\ ~(r # None /\ Malformed(r)) => Agree(LocalBounds(r, size), Announced(r, size))
         /\ ~(r # None /\ Malformed(r)) =>
                Agree(ProviderBounds(Asked(r, size), size), Announced(r, size))
         /\ Agree(SimulatedBounds(r, size), Announced(r, size))
<1>1. size \in Nat /\ size - 1 \in Int /\ \A p \in Positions : p \in Nat
  BY DownloadsAssumption DEF Positions
<1>2. r # None => r[1] \in Int /\ (r[2] # None => r[2] \in Nat)
  BY <1>1, RangeFields
<1>3. CASE r = None
  <2>1. Agree(LocalBounds(r, size), Announced(r, size))
    BY <1>3 DEF LocalBounds, Announced, Agree
  <2>2. Agree(SimulatedBounds(r, size), Announced(r, size))
    BY <1>1, <1>3 DEF SimulatedBounds, Announced, Agree
  <2>3. Agree(ProviderBounds(Asked(r, size), size), Announced(r, size))
    <3>1. CASE size = 0
      BY <1>3, <3>1 DEF Asked, ProviderBounds, Announced, Agree
    <3>2. CASE size > 0
      <4> DEFINE q == <<0, size - 1>>
      <4>1. Asked(r, size) = q
        BY <1>3, <3>2 DEF Asked
      <4>2. ~Malformed(q) /\ q[1] = 0 /\ q[2] = size - 1
        BY <1>1, <3>2 DEF Malformed
      <4>3. Bounds(q, size)[1] = 0 /\ Bounds(q, size)[2] = size - 1
        BY <1>1, <4>2 DEF Bounds
      <4>4. ProviderBounds(q, size)[1] = 0 /\ ProviderBounds(q, size)[2] = size - 1
        BY <4>2, <4>3 DEF ProviderBounds
      <4> QED BY <1>3, <4>1, <4>4 DEF Announced, Agree
    <3> QED BY <1>1, <3>1, <3>2
  <2> QED BY <2>1, <2>2, <2>3
<1>4. CASE r # None
  <2> DEFINE b == Bounds(r, size)
  <2>0. Announced(r, size) = b
    BY <1>4 DEF Announced
  <2>1. ASSUME ~Malformed(r) PROVE Agree(LocalBounds(r, size), b)
    <3>1. r[1] >= 0 /\ AtLeast(0, r[1]) = r[1]
      BY <1>2, <1>4, <2>1 DEF Malformed, AtLeast
    <3>2. r[2] # None => AtMost(size - 1, r[2]) = IF r[2] >= size THEN size - 1 ELSE r[2]
      BY <1>1, <1>2, <1>4 DEF AtMost
    <3> QED BY <1>1, <1>2, <1>4, <3>1, <3>2 DEF LocalBounds, Bounds, Agree
  <2>2. ASSUME ~Malformed(r) PROVE Agree(ProviderBounds(Asked(r, size), size), b)
    BY <1>4, <2>2 DEF Asked, ProviderBounds, Agree
  <2>3. Agree(SimulatedBounds(r, size), b)
    <3>1. Within(b, size)
      BY <2>0, BoundsFit
    <3> HIDE DEF b
    <3>2. SimulatedBounds(r, size) = IF size = 0 THEN <<0, -1>>
                                     ELSE IF b[1] >= size THEN <<size, size - 1>>
                                     ELSE IF b[2] < b[1] THEN <<b[1], b[1] - 1>> ELSE b
      BY <1>4 DEF SimulatedBounds, b
    <3>3. CASE size = 0
      BY <3>1, <3>2, <3>3 DEF Within, Pair, Agree
    <3>4. CASE size # 0
      BY <1>1, <3>1, <3>2, <3>4 DEF Within, Pair, Agree
    <3> QED BY <3>3, <3>4
  <2> HIDE DEF b
  <2> QED BY <1>4, <2>0, <2>1, <2>2, <2>3
<1> QED BY <1>3, <1>4

\* An answer is a sequence of bytes of the content that was seen, none of
\* them beyond its end.
LEMMA AnswerGiven ==
  ASSUME NEW r, r \in GetType, r.seen \in FileType
  PROVE  /\ Answer(r) \in Seq(Byte) /\ Len(Answer(r)) \in Nat
         /\ \A n \in 1..Len(Answer(r)) :
                Answer(r)[n][1] = r.seen.v /\ Answer(r)[n][2] < r.seen.size
<1> DEFINE b == Announced(r.range, r.seen.size)
           v == r.seen.v
<1>1. v \in 1..MaxVersions /\ r.seen.size \in Positions /\ r.range \in Ranges \cup {None}
  BY DEF GetType, FileType
<1>2. Within(b, r.seen.size)
  BY <1>1, BoundsFit
<1>3. r.seen.size \in Nat /\ r.seen.size <= MaxSize
  BY <1>1, DownloadsAssumption DEF Positions
<1>4. Answer(r) = Bytes(v, b)
  BY DEF Answer
<1> HIDE DEF v, b
<1>5. /\ Bytes(v, b) \in Seq(Byte)
      /\ Len(Bytes(v, b)) = AtLeast(0, b[2] - b[1] + 1)
      /\ \A n \in 1..Len(Bytes(v, b)) : Bytes(v, b)[n] = <<v, b[1] + n - 1>>
  BY SMTT(30), <1>1, <1>2, <1>3, BytesGiven, DownloadsAssumption DEF Within, Pair
<1>6. ASSUME NEW n \in 1..Len(Bytes(v, b))
      PROVE  Bytes(v, b)[n][1] = v /\ Bytes(v, b)[n][2] < r.seen.size
  <2>1. b[1] + n - 1 <= b[2]
    BY <1>2, <1>5 DEF AtLeast, Within, Pair
  <2> QED BY <1>2, <1>3, <1>5, <2>1 DEF Within, Pair
<1> QED BY <1>4, <1>5, <1>6, LenProperties DEF v

-----------------------------------------------------------------------------
LEMMA EmptyLeft == <<>> \in Seq(Byte) /\ <<>> \in Seq(Urls) /\ Len(<<>>) = 0
  OBVIOUS

LEMMA IdleIsGood == GoodGet(Idle)
<1>1. GetShape(Idle)
  <2>1. <<>> \in Seq(Byte) /\ <<>> \in Seq(Urls)
    OBVIOUS
  <2>2. Idle \in GetType
    BY <2>1 DEF Idle, GetType
  <2>3. IsInjective(<<>>)
    BY DEF IsInjective
  <2> QED BY <2>2, <2>3 DEF GetShape, Idle
<1>2. Served(Idle)
  BY DEF Served, Idle
<1>3. SameContent(Idle)
  BY EmptyLeft DEF SameContent, Idle
<1>4. NothingSent(Idle)
  BY DEF NothingSent, Idle
<1> QED BY <1>1, <1>2, <1>3, <1>4 DEF GoodGet

LEMMA InitGets == Init => GetsInv
<1> SUFFICES ASSUME Init PROVE GetsInv
  OBVIOUS
<1>1. get = [c \in Readers |-> Idle] /\ \A c \in Readers : get[c] = Idle
  BY DEF Init
<1>2. file \in FileType /\ store \in Stores /\ RestTyped
  BY DownloadsAssumption DEF Init, FileType, RestTyped
<1>3. \A c \in Readers : GoodGet(get[c])
  BY <1>1, IdleIsGood
<1> QED BY <1>1, <1>2, <1>3 DEF GetsInv

\* A step of one GET keeps the invariant if it leaves a good GET.
LEMMA OneGetSteps ==
  ASSUME GetsInv, NEW c \in Readers, NEW STATE q,
         get' = [get EXCEPT ![c] = q], GoodGet(q), UNCHANGED <<store, file>>, RestTyped'
  PROVE  GetsInv'
<1>1. get' = [d \in Readers |-> IF d = c THEN q ELSE get[d]]
  BY DEF GetsInv
<1>2. \A d \in Readers : get'[d] = IF d = c THEN q ELSE get[d]
  BY <1>1
<1>3. ASSUME NEW d \in Readers PROVE GoodGet(get[d])'
  <2>1. GoodGet(get'[d])
    BY <1>2 DEF GetsInv
  <2> QED BY <2>1 DEF GoodGet, Served, Unserved, Asks, InOrder, Sent, Answer, GetShape,
                      SameContent, NothingSent
<1>4. get' = [d \in Readers |-> get'[d]]
  BY <1>1
<1>5. store' \in Stores /\ file' \in FileType
  BY DEF GetsInv
<1> QED BY <1>3, <1>4, <1>5 DEF GetsInv

\* A GET that goes on with the same bytes is still good, if what was, or was
\* not, sent fits its new place.
LEMMA SameBytes ==
  ASSUME NEW r, NEW q, GoodGet(r), GetShape(q), q.body = r.body,
         q.left = r.left \/ q.left = <<>>, r.broke => q.broke,
         store = "o2" /\ ~q.broke => NothingSent(q), Served(q)
  PROVE  GoodGet(q)
<1>1. ASSUME store = "o2", ~q.broke PROVE SameContent(q)
  <2>1. SameContent(r)
    BY <1>1 DEF GoodGet, GetShape, GetType
  <2>2. PICK v \in Int : /\ \A n \in 1..Len(r.body) : r.body[n][1] = v
                         /\ \A n \in 1..Len(r.left) : r.left[n][1] = v
    BY <2>1 DEF SameContent
  <2>3. \A n \in 1..Len(q.left) : q.left[n][1] = v
    BY EmptyLeft, <2>2
  <2> QED BY SMTT(30), <2>2, <2>3 DEF SameContent
<1> QED BY <1>1 DEF GoodGet

\* A body is opened with bytes of one content, and with those announced if
\* the range is read as it was announced.
LEMMA Opened ==
  ASSUME NEW r, NEW q, NEW b, GoodGet(r), Within(b, file.size), file \in FileType,
         r.pc \in {"open", "connect"},
         q = [r EXCEPT !.pc = "streaming", !.left = Bytes(file.v, b)],
         ~Unserved(r.range) /\ ~r.raced => Agree(b, Announced(r.range, file.size))
  PROVE  GoodGet(q)
<1>0. file.v \in 1..MaxVersions /\ file.size \in Positions /\ file.size \in Nat /\ file.size <= MaxSize
  BY DownloadsAssumption DEF FileType, Positions
<1>1. r \in GetType
  BY DEF GoodGet, GetShape
<1>2. /\ Bytes(file.v, b) \in Seq(Byte) /\ Len(Bytes(file.v, b)) \in Nat
      /\ \A n \in 1..Len(Bytes(file.v, b)) : Bytes(file.v, b)[n][1] = file.v
  BY SMTT(30), <1>0, BytesGiven, LenProperties, DownloadsAssumption DEF Within, Pair
<1>3. /\ q.pc = "streaming" /\ q.range = r.range /\ q.seen = r.seen /\ q.urls = r.urls
      /\ q.asked = r.asked /\ q.left = Bytes(file.v, b) /\ q.body = r.body
      /\ q.broke = r.broke /\ q.raced = r.raced /\ r.broke \in BOOLEAN
      /\ r.body \in Seq(Byte) /\ Len(r.body) \in Nat
      /\ r.range \in Ranges \cup {None}
  BY <1>1, LenProperties DEF GetType
<1>4. q \in GetType
  BY <1>1, <1>2 DEF GetType
<1>5. GetShape(q)
  BY <1>3, <1>4 DEF GoodGet, GetShape
<1>6. ASSUME store = "o2", ~q.broke PROVE SameContent(q) /\ NothingSent(q)
  <2>1. q.body = <<>> /\ file.v \in Int
    BY <1>0, <1>3, <1>6 DEF GoodGet, NothingSent
  <2> QED BY <1>2, <1>3, <2>1, EmptyLeft DEF SameContent, NothingSent
<1>7. ASSUME ~r.raced, ~Unserved(r.range) PROVE Served(q)
  <2>1. /\ r.seen = file /\ (~r.broke => r.body = <<>>)
        /\ r.urls # <<>> => r.pc = "connect" /\ Asks(r)
    BY <1>7 DEF GoodGet, Served
  <2>2. Pair(Announced(r.range, file.size))
    BY <1>0, <1>3, BoundsFit DEF Within
  <2>3. Answer(q) = q.left
    BY <1>3, <1>7, <2>1, <2>2, AgreeingBytes DEF Answer, Within
  <2>4. Sent(q) = 0
    BY <1>2, <1>3, <2>3 DEF Sent
  <2>5. ~q.broke => Len(q.body) = 0
    BY <1>3, <2>1, EmptyLeft
  <2>6. InOrder(q)
    BY <1>2, <1>3, <2>3, <2>4, <2>5 DEF InOrder
  <2>7. q.urls # <<>> => Asks(q)
    BY <1>3, <2>1 DEF Asks
  <2> QED BY <1>3, <2>1, <2>6, <2>7 DEF Served
<1>8. r.raced \/ Unserved(r.range) => Served(q)
  BY <1>3 DEF Served
<1> QED BY <1>5, <1>6, <1>7, <1>8 DEF GoodGet

-----------------------------------------------------------------------------
(* The actions.                                                            *)

LEMMA GoodGets ==
  ASSUME GetsInv, NEW c \in Readers
  PROVE  /\ GoodGet(get[c]) /\ GetShape(get[c]) /\ get[c] \in GetType /\ Served(get[c])
         /\ ~get[c].broke /\ store = "o2" => NothingSent(get[c])
<1>1. GoodGet(get[c])
  BY DEF GetsInv
<1> QED BY <1>1 DEF GoodGet, GetShape

LEMMA GetKeeps ==
  ASSUME GetsInv, NEW c \in Readers, NEW r \in Ranges \cup {None}, Get(c, r)
  PROVE  GetsInv'
<1> DEFINE q == [Idle EXCEPT !.pc = "open", !.range = r, !.seen = file]
<1>1. get' = [get EXCEPT ![c] = q] /\ UNCHANGED <<store, file>> /\ RestTyped'
  BY DownloadsAssumption DEF Get, Goto, GetsInv, RestTyped
<1>2. /\ q.pc = "open" /\ q.range = r /\ q.seen = file /\ q.urls = <<>> /\ q.body = <<>>
      /\ q.left = <<>> /\ q.broke = FALSE
  BY DEF Idle
<1>3. q \in GetType
  <2>1. Idle \in GetType /\ file \in FileType
    BY IdleIsGood DEF GoodGet, GetShape, GetsInv
  <2> QED BY <2>1 DEF GetType
<1> HIDE DEF q
<1>4. GetShape(q)
  BY <1>2, <1>3 DEF GetShape, IsInjective
<1>5. SameContent(q) /\ NothingSent(q) /\ Served(q)
  BY <1>2, EmptyLeft DEF SameContent, NothingSent, Served
<1>6. GoodGet(q)
  BY <1>4, <1>5 DEF GoodGet
<1> QED BY <1>1, <1>6, OneGetSteps

LEMMA OpenCopyKeeps ==
  ASSUME GetsInv, NEW c \in Readers, OpenCopy(c)
  PROVE  GetsInv'
<1> DEFINE r == get[c]
           b == LocalBounds(r.range, file.size)
           q == [r EXCEPT !.pc = "streaming", !.left = Bytes(file.v, b)]
<1>1. /\ get' = [get EXCEPT ![c] = q] /\ UNCHANGED <<store, file>> /\ RestTyped'
      /\ r.pc = "open" /\ store = "o2"
  BY DEF OpenCopy, Goto, At, GetsInv, RestTyped
<1>2. GoodGet(r) /\ r \in GetType /\ Served(r)
  BY GoodGets
<1>3. file \in FileType /\ file.size \in Positions
  BY DEF GetsInv, FileType
<1>4. Within(b, file.size)
  BY <1>2, <1>3, BoundsFit DEF GetType
<1>5. ~Unserved(r.range) /\ ~r.raced => Agree(b, Announced(r.range, file.size))
  BY <1>1, <1>2, <1>3, RangesAgree DEF Unserved, GetType
<1> HIDE DEF r, b
<1>6. GoodGet(q)
  BY <1>1, <1>2, <1>3, <1>4, <1>5, Opened
<1> HIDE DEF q
<1> QED BY <1>1, <1>6, OneGetSteps

LEMMA OpenSimulatedKeeps ==
  ASSUME GetsInv, NEW c \in Readers, OpenSimulated(c)
  PROVE  GetsInv'
<1> DEFINE r == get[c]
           b == SimulatedBounds(r.range, file.size)
           q == [r EXCEPT !.pc = "streaming", !.left = Bytes(file.v, b)]
<1>1. /\ get' = [get EXCEPT ![c] = q] /\ UNCHANGED <<store, file>> /\ RestTyped'
      /\ r.pc = "open" /\ store = "simulated"
  BY DEF OpenSimulated, Goto, At, GetsInv, RestTyped
<1>2. GoodGet(r) /\ r \in GetType /\ Served(r)
  BY GoodGets
<1>3. file \in FileType /\ file.size \in Positions
  BY DEF GetsInv, FileType
<1>4. Within(b, file.size)
  BY <1>2, <1>3, BoundsFit DEF GetType
<1>5. ~Unserved(r.range) /\ ~r.raced => Agree(b, Announced(r.range, file.size))
  BY <1>2, <1>3, RangesAgree DEF GetType
<1> HIDE DEF r, b
<1>6. GoodGet(q)
  BY <1>1, <1>2, <1>3, <1>4, <1>5, Opened
<1> HIDE DEF q
<1> QED BY <1>1, <1>6, OneGetSteps

LEMMA ConnectKeeps ==
  ASSUME GetsInv, NEW c \in Readers, Connect(c)
  PROVE  GetsInv'
<1> DEFINE r == get[c]
           b == ProviderBounds(r.asked, file.size)
           q == [r EXCEPT !.pc = "streaming", !.left = Bytes(file.v, b)]
<1>1. /\ get' = [get EXCEPT ![c] = q] /\ UNCHANGED <<store, file>> /\ RestTyped'
      /\ r.pc = "connect"
  BY DEF Connect, Goto, At, GetsInv, RestTyped
<1>2. GoodGet(r) /\ r \in GetType /\ Served(r)
  BY GoodGets
<1>3. file \in FileType /\ file.size \in Positions
  BY DEF GetsInv, FileType
<1>4. Within(b, file.size)
  BY <1>2, <1>3, BoundsFit DEF GetType
<1>5. ~Unserved(r.range) /\ ~r.raced => Agree(b, Announced(r.range, file.size))
  <2> SUFFICES ASSUME ~Unserved(r.range), ~r.raced
               PROVE  Agree(b, Announced(r.range, file.size))
    OBVIOUS
  <2>1. Asks(r)
    BY <1>1, <1>2 DEF Served
  <2>2. ~(r.range # None /\ Malformed(r.range)) /\ b = ProviderBounds(Asked(r.range, file.size), file.size)
    BY <2>1 DEF Asks, Unserved
  <2> HIDE DEF b
  <2> QED BY <1>2, <1>3, <2>2, RangesAgree DEF GetType
<1> HIDE DEF r, b
<1>6. GoodGet(q)
  BY <1>1, <1>2, <1>3, <1>4, <1>5, Opened
<1> HIDE DEF q
<1> QED BY <1>1, <1>6, OneGetSteps

LEMMA OpenEmptyKeeps ==
  ASSUME GetsInv, NEW c \in Readers, OpenEmpty(c)
  PROVE  GetsInv'
<1> DEFINE r == get[c]
           q == [r EXCEPT !.pc = "done", !.urls = <<>>, !.left = <<>>]
<1>1. /\ get' = [get EXCEPT ![c] = q] /\ UNCHANGED <<store, file>> /\ RestTyped'
      /\ r.pc = "open" /\ file.size = 0 /\ file \in FileType
  BY DEF OpenEmpty, Goto, Ends, At, GetsInv, RestTyped
<1>2. GoodGet(r) /\ r \in GetType /\ Served(r) /\ (~r.broke /\ store = "o2" => NothingSent(r))
  BY GoodGets
<1>3. /\ q.pc = "done" /\ q.range = r.range /\ q.seen = r.seen /\ q.urls = <<>> /\ q.body = r.body
      /\ q.left = <<>> /\ q.broke = r.broke /\ q.raced = r.raced /\ r.range \in Ranges \cup {None}
  BY <1>2 DEF GetType
<1>4. q \in GetType
  BY <1>2, EmptyLeft DEF GetType
<1> HIDE DEF q, r
<1>5. GetShape(q) /\ NothingSent(q)
  BY <1>3, <1>4 DEF GetShape, IsInjective, NothingSent
<1>6. Served(q)
  <2> SUFFICES ASSUME ~r.raced, ~Unserved(r.range) PROVE InOrder(q) /\ q.seen = file
    BY <1>3 DEF Served
  <2>1. r.seen = file /\ r.body = <<>>
    BY <1>1, <1>2 DEF Served
  <2>2. 0 \in Positions /\ file.size \in Positions
    BY DownloadsAssumption DEF Positions, GetsInv, FileType
  <2>3. Answer(q) = <<>>
    <3> DEFINE b == Announced(r.range, 0)
    <3>1. Within(b, 0)
      BY <1>3, <2>2, BoundsFit
    <3>2. Agree(b, <<0, -1>>)
      BY <3>1 DEF Agree, Within, Pair
    <3>3. Answer(q) = Bytes(file.v, b)
      BY <1>1, <1>3, <2>1 DEF Answer
    <3> HIDE DEF b
    <3>4. Bytes(file.v, b) = Bytes(file.v, <<0, -1>>)
      BY <3>1, <3>2, AgreeingBytes DEF Within, Pair
    <3>5. /\ Bytes(file.v, <<0, -1>>) \in Seq(Byte)
          /\ Len(Bytes(file.v, <<0, -1>>)) = AtLeast(0, -1 - 0 + 1)
      BY <1>1, BytesGiven, DownloadsAssumption DEF Pair, FileType
    <3>6. AtLeast(0, -1 - 0 + 1) = 0
      BY DEF AtLeast
    <3> QED BY <3>3, <3>4, <3>5, <3>6, EmptySeq
  <2>4. Sent(q) = 0 /\ Len(q.body) = 0
    BY <1>3, <2>1, <2>3, EmptyLeft DEF Sent
  <2> QED BY <1>3, <2>1, <2>3, <2>4, EmptyLeft DEF InOrder
<1>7. GoodGet(q)
  BY <1>2, <1>3, <1>5, <1>6, SameBytes
<1> QED BY <1>1, <1>7, OneGetSteps

LEMMA OpenRemoteKeeps ==
  ASSUME GetsInv, NEW c \in Readers, OpenRemote(c)
  PROVE  GetsInv'
<1> DEFINE r == get[c]
           first == IF cached = None THEN <<>> ELSE <<cached>>
           q == [r EXCEPT !.pc = "resolve", !.asked = Asked(r.range, file.size), !.urls = first]
<1>1. /\ get' = [get EXCEPT ![c] = q] /\ UNCHANGED <<store, file>> /\ RestTyped'
      /\ r.pc = "open" /\ store = "o2"
  BY DEF OpenRemote, Goto, At, GetsInv, RestTyped
<1>2. GoodGet(r) /\ r \in GetType /\ Served(r) /\ (~r.broke /\ store = "o2" => NothingSent(r))
  BY GoodGets
<1>3. Asked(r.range, file.size) \in Ranges \cup {None}
  BY <1>2, AskedIsRange DEF GetsInv, GetType, FileType
<1>4. first \in Seq(Urls) /\ IsInjective(first)
  <2>1. cached \in Urls \cup {None}
    BY DEF GetsInv, RestTyped
  <2> QED BY <2>1 DEF IsInjective
<1> HIDE DEF first
<1>5. /\ q.pc = "resolve" /\ q.range = r.range /\ q.seen = r.seen /\ q.urls = first
      /\ q.asked = Asked(r.range, file.size) /\ q.body = r.body
      /\ q.left = r.left /\ q.broke = r.broke /\ q.raced = r.raced
  BY <1>2 DEF GetType
<1>6. q \in GetType
  BY <1>2, <1>3, <1>4 DEF GetType
<1> HIDE DEF q, r
<1>7. GetShape(q)
  BY <1>4, <1>5, <1>6 DEF GetShape
<1>8. store = "o2" /\ ~q.broke => NothingSent(q)
  BY <1>1, <1>2, <1>5 DEF NothingSent
<1>9. Served(q)
  BY <1>1, <1>2, <1>5 DEF Served, Asks
<1>10. GoodGet(q)
  BY <1>2, <1>5, <1>7, <1>8, <1>9, SameBytes
<1> QED BY <1>1, <1>10, OneGetSteps

\* A URL is offered once.
LEMMA OfferKeeps ==
  ASSUME NEW urls \in Seq(Urls), IsInjective(urls), NEW u \in Urls, NEW available
  PROVE  Offer(urls, u, available) \in Seq(Urls) /\ IsInjective(Offer(urls, u, available))
<1>1. CASE u \in available /\ ~Contains(urls, u)
  <2> DEFINE s == Append(urls, u)
  <2>1. /\ s \in Seq(Urls) /\ Len(s) = Len(urls) + 1 /\ s[Len(urls) + 1] = u
        /\ \A i \in 1..Len(urls) : s[i] = urls[i]
    BY AppendProperties
  <2>2. DOMAIN s = 1..(Len(urls) + 1) /\ DOMAIN urls = 1..Len(urls) /\ Len(urls) \in Nat
    BY <2>1, LenProperties
  <2>3. \A i \in 1..Len(urls) : urls[i] # u
    BY <1>1 DEF Contains
  <2>4. Offer(urls, u, available) = s
    BY <1>1 DEF Offer
  <2> HIDE DEF s
  <2>5. IsInjective(s)
    <3> SUFFICES ASSUME NEW i \in 1..(Len(urls) + 1), NEW j \in 1..(Len(urls) + 1), s[i] = s[j]
                 PROVE  i = j
      BY <2>2 DEF IsInjective
    <3>1. CASE i \in 1..Len(urls) /\ j \in 1..Len(urls)
      BY <2>1, <2>2, <3>1 DEF IsInjective
    <3>2. CASE i = Len(urls) + 1 \/ j = Len(urls) + 1
      BY <2>1, <2>2, <2>3, <3>2
    <3> QED BY <2>2, <3>1, <3>2
  <2> QED BY <2>1, <2>4, <2>5
<1>2. CASE ~(u \in available /\ ~Contains(urls, u))
  BY <1>2 DEF Offer
<1> QED BY <1>1, <1>2

LEMMA CandidatesOnce ==
  ASSUME NEW first \in Seq(Urls), IsInjective(first), NEW available
  PROVE  Candidates(first, available) \in Seq(Urls) /\ IsInjective(Candidates(first, available))
<1> DEFINE one == Offer(first, "direct", available)
           two == Offer(one, "resolved", available)
           three == Offer(two, "native", available)
<1>0. "direct" \in Urls /\ "resolved" \in Urls /\ "native" \in Urls
  BY DEF Urls
<1>1. one \in Seq(Urls) /\ IsInjective(one)
  BY <1>0, OfferKeeps
<1> HIDE DEF one
<1>2. two \in Seq(Urls) /\ IsInjective(two)
  BY <1>0, <1>1, OfferKeeps
<1> HIDE DEF two
<1>3. three \in Seq(Urls) /\ IsInjective(three)
  BY <1>0, <1>2, OfferKeeps
<1>4. Candidates(first, available) = three
  BY DEF Candidates, one, two
<1> HIDE DEF three
<1> QED BY <1>3, <1>4

LEMMA ResolveKeeps ==
  ASSUME GetsInv, NEW c \in Readers, Resolve(c)
  PROVE  GetsInv'
<1> DEFINE r == get[c]
<1>1. PICK resolved \in SUBSET {"resolved"} :
        get' = [get EXCEPT ![c] = [r EXCEPT !.pc = "connect",
                                            !.urls = Candidates(r.urls, has \cup resolved)]]
  BY DEF Resolve, Goto
<1> DEFINE urls == Candidates(r.urls, has \cup resolved)
           q == [r EXCEPT !.pc = "connect", !.urls = urls]
<1>2. /\ get' = [get EXCEPT ![c] = q] /\ UNCHANGED <<store, file>> /\ RestTyped'
      /\ r.pc = "resolve"
  BY <1>1 DEF Resolve, At, GetsInv, RestTyped
<1>3. GoodGet(r) /\ GetShape(r) /\ r \in GetType /\ Served(r) /\ (~r.broke /\ store = "o2" => NothingSent(r))
  BY GoodGets
<1>4. urls \in Seq(Urls) /\ IsInjective(urls)
  BY <1>3, CandidatesOnce DEF GetShape, GetType
<1> HIDE DEF urls
<1>5. /\ q.pc = "connect" /\ q.range = r.range /\ q.seen = r.seen /\ q.urls = urls
      /\ q.asked = r.asked /\ q.body = r.body /\ q.left = r.left /\ q.broke = r.broke
      /\ q.raced = r.raced
  BY <1>3 DEF GetType
<1>6. q \in GetType
  BY <1>3, <1>4 DEF GetType
<1> HIDE DEF q, r
<1>7. GetShape(q)
  BY <1>4, <1>5, <1>6 DEF GetShape
<1>8. store = "o2" /\ ~q.broke => NothingSent(q)
  BY <1>2, <1>3, <1>5 DEF NothingSent
<1>9. Served(q)
  BY <1>2, <1>3, <1>5 DEF Served, Asks
<1>10. GoodGet(q)
  BY <1>3, <1>5, <1>7, <1>8, <1>9, SameBytes
<1> QED BY <1>2, <1>10, OneGetSteps

LEMMA RenewKeeps ==
  ASSUME GetsInv, NEW c \in Readers, Renew(c)
  PROVE  GetsInv'
<1> DEFINE r == get[c]
           q == [r EXCEPT !.retried = TRUE]
<1>1. get' = [get EXCEPT ![c] = q] /\ UNCHANGED <<store, file>> /\ RestTyped' /\ r.pc = "connect"
  BY DEF Renew, Goto, At, GetsInv, RestTyped
<1>2. GoodGet(r) /\ GetShape(r) /\ r \in GetType /\ Served(r) /\ (~r.broke /\ store = "o2" => NothingSent(r))
  BY GoodGets
<1>3. /\ q.pc = r.pc /\ q.range = r.range /\ q.seen = r.seen /\ q.urls = r.urls
      /\ q.asked = r.asked /\ q.body = r.body /\ q.left = r.left /\ q.broke = r.broke
      /\ q.raced = r.raced
  BY <1>2 DEF GetType
<1>4. q \in GetType
  BY <1>2 DEF GetType
<1> HIDE DEF q, r
<1>5. GetShape(q) /\ Served(q) /\ (store = "o2" /\ ~q.broke => NothingSent(q))
  BY <1>1, <1>2, <1>3, <1>4 DEF GetShape, NothingSent, Served, Asks
<1>6. GoodGet(q)
  BY <1>2, <1>3, <1>5, SameBytes
<1> QED BY <1>1, <1>6, OneGetSteps

\* The URL is left for good, and what was sent stays sent.
LEMMA FailureIsGood ==
  ASSUME NEW r, NEW q, GoodGet(r), q = AfterFailure(r), r.urls # <<>>,
         r.pc \in {"connect", "streaming"}
  PROVE  GoodGet(q)
<1>1. r \in GetType /\ IsInjective(r.urls) /\ Served(r)
  BY DEF GoodGet, GetShape
<1>2. /\ Tail(r.urls) \in Seq(Urls) /\ Len(Tail(r.urls)) = Len(r.urls) - 1
      /\ \A i \in 1..Len(Tail(r.urls)) : Tail(r.urls)[i] = r.urls[i + 1]
      /\ r.urls \in Seq(Urls) /\ Len(r.urls) \in Nat
  BY <1>1, HeadTailProperties, LenProperties DEF GetType
<1>3. /\ q.pc = "connect" /\ q.range = r.range /\ q.seen = r.seen /\ q.urls = Tail(r.urls)
      /\ q.asked = r.asked /\ q.left = <<>> /\ q.body = r.body
      /\ q.broke = (r.broke \/ r.body # <<>>) /\ q.raced = r.raced
  BY <1>1 DEF GetType, AfterFailure
<1>4. q \in GetType
  BY <1>1, <1>2, EmptyLeft DEF GetType, AfterFailure
<1>5. IsInjective(q.urls)
  <2>1. DOMAIN Tail(r.urls) = 1..Len(Tail(r.urls)) /\ DOMAIN r.urls = 1..Len(r.urls)
    BY <1>2, LenProperties
  <2> SUFFICES ASSUME NEW i \in 1..(Len(r.urls) - 1), NEW j \in 1..(Len(r.urls) - 1),
                      r.urls[i + 1] = r.urls[j + 1]
               PROVE  i = j
    BY <1>2, <1>3, <2>1 DEF IsInjective
  <2>2. i + 1 \in 1..Len(r.urls) /\ j + 1 \in 1..Len(r.urls)
    BY <1>2
  <2>3. i + 1 = j + 1
    BY <1>1, <2>1, <2>2 DEF IsInjective
  <2> QED BY <2>3
<1>6. Served(q)
  BY <1>1, <1>3 DEF Served, Asks
<1>7. store = "o2" /\ ~q.broke => NothingSent(q)
  BY <1>3 DEF NothingSent
<1> HIDE DEF AfterFailure
<1> QED BY <1>3, <1>4, <1>5, <1>6, <1>7, SameBytes DEF GetShape

LEMMA RefusedKeeps ==
  ASSUME GetsInv, NEW c \in Readers, Refused(c) \/ Breaks(c)
  PROVE  GetsInv'
<1> DEFINE r == get[c]
           q == AfterFailure(r)
<1>1. /\ get' = [get EXCEPT ![c] = q] /\ UNCHANGED <<store, file>> /\ RestTyped'
      /\ r.pc \in {"connect", "streaming"} /\ r.urls # <<>>
  BY DEF Refused, Breaks, Remote, Goto, At, GetsInv, RestTyped
<1>2. GoodGet(r)
  BY GoodGets
<1>3. GoodGet(q)
  BY <1>1, <1>2, FailureIsGood
<1> HIDE DEF q, r
<1> QED BY <1>1, <1>3, OneGetSteps

\* A GET that ends keeps what was sent.
LEMMA EndIsTyped ==
  ASSUME NEW r, NEW how \in {"done", "failed"}, NEW q, r \in GetType,
         q = [r EXCEPT !.pc = how, !.urls = <<>>, !.left = <<>>]
  PROVE  /\ GetShape(q) /\ NothingSent(q)
         /\ q.pc = how /\ q.range = r.range /\ q.seen = r.seen /\ q.body = r.body
         /\ q.left = <<>> /\ q.broke = r.broke /\ q.raced = r.raced
<1>1. /\ q.pc = how /\ q.range = r.range /\ q.seen = r.seen /\ q.body = r.body
      /\ q.urls = <<>> /\ q.left = <<>> /\ q.broke = r.broke /\ q.raced = r.raced
  BY DEF GetType
<1>2. q \in GetType
  BY EmptyLeft DEF GetType
<1>3. IsInjective(<<>>)
  BY DEF IsInjective
<1> QED BY <1>1, <1>2, <1>3 DEF GetShape, NothingSent

LEMMA FailKeeps ==
  ASSUME GetsInv, NEW c \in Readers, Fail(c)
  PROVE  GetsInv'
<1> DEFINE r == get[c]
           q == [r EXCEPT !.pc = "failed", !.urls = <<>>, !.left = <<>>]
<1>1. /\ get' = [get EXCEPT ![c] = q] /\ UNCHANGED <<store, file>> /\ RestTyped'
      /\ r.pc = "connect"
  BY DEF Fail, Goto, Ends, At, GetsInv, RestTyped
<1>2. GoodGet(r) /\ r \in GetType /\ Served(r)
  BY GoodGets
<1> HIDE DEF r
<1>3. /\ GetShape(q) /\ NothingSent(q) /\ q.pc = "failed" /\ q.body = r.body /\ q.range = r.range
      /\ q.seen = r.seen /\ q.left = <<>> /\ q.broke = r.broke /\ q.raced = r.raced
  BY <1>2, EndIsTyped
<1> HIDE DEF q
<1>4. Served(q)
  BY <1>1, <1>2, <1>3 DEF Served
<1>5. GoodGet(q)
  BY <1>2, <1>3, <1>4, SameBytes
<1> QED BY <1>1, <1>5, OneGetSteps

\* The end comes with nothing left: the file, unless a PUT changed it, holds
\* every byte that was announced.
LEMMA CompleteKeeps ==
  ASSUME GetsInv, NEW c \in Readers, Complete(c)
  PROVE  GetsInv'
<1> DEFINE r == get[c]
           q == [r EXCEPT !.pc = "done", !.urls = <<>>, !.left = <<>>]
<1>1. /\ get' = [get EXCEPT ![c] = q] /\ UNCHANGED <<store, file>>
      /\ r.pc = "streaming" /\ (r.left # <<>> => ~Holds(Head(r.left)))
      /\ cached' = IF r.urls # <<>> THEN Head(r.urls) ELSE cached
  BY DEF Complete, Goto, Ends, At, Remote
<1>2. GoodGet(r) /\ r \in GetType /\ Served(r)
  BY GoodGets
<1>3. RestTyped'
  <2>1. r.urls # <<>> => Head(r.urls) \in Urls
    BY <1>2, HeadTailProperties DEF GetType
  <2> QED BY <1>1, <2>1 DEF Complete, GetsInv, RestTyped
<1>4. /\ r.left \in Seq(Byte) /\ r.seen \in FileType \cup {None}
      /\ r.range \in Ranges \cup {None}
  BY <1>2 DEF GetType
<1> HIDE DEF r
<1>5. /\ GetShape(q) /\ NothingSent(q) /\ q.pc = "done" /\ q.body = r.body /\ q.range = r.range
      /\ q.seen = r.seen /\ q.left = <<>> /\ q.broke = r.broke /\ q.raced = r.raced
  BY ZenonT(60), <1>2, EndIsTyped
<1> HIDE DEF q
<1>6. Served(q)
  <2> SUFFICES ASSUME ~r.raced, ~Unserved(r.range) PROVE InOrder(q) /\ q.seen = file
    BY <1>5 DEF Served
  <2>1. r.seen = file /\ InOrder(r) /\ file \in FileType
    BY <1>1, <1>2 DEF Served, GetsInv
  <2>2. r.left = <<>>
    <3> SUFFICES ASSUME r.left # <<>> PROVE FALSE
      OBVIOUS
    <3>1. Len(r.left) \in Nat \ {0} /\ Head(r.left) = r.left[1]
      BY <1>4, EmptySeq
    <3>2. /\ Len(Answer(r)) \in Nat
          /\ \A n \in 1..Len(Answer(r)) : Answer(r)[n][2] < file.size
      BY <1>2, <2>1, AnswerGiven
    <3>3. Sent(r) = Len(Answer(r)) - Len(r.left) /\ 0 <= Sent(r) /\ Sent(r) \in Int
      BY <2>1, <3>1, <3>2 DEF InOrder, Sent
    <3>4. Sent(r) + 1 \in 1..Len(Answer(r)) /\ 1 \in 1..Len(r.left)
      BY <3>1, <3>2, <3>3
    <3>5. r.left[1] = Answer(r)[Sent(r) + 1]
      BY <2>1, <3>4 DEF InOrder
    <3>6. file.size \in Int /\ Answer(r)[Sent(r) + 1][2] < file.size
      BY <2>1, <3>2, <3>4, DownloadsAssumption DEF FileType, Positions
    <3> QED BY <1>1, <3>1, <3>5, <3>6 DEF Holds
  <2> QED BY <1>5, <2>1, <2>2 DEF InOrder, Sent, Answer
<1>7. GoodGet(q)
  BY <1>2, <1>5, <1>6, SameBytes
<1> QED BY <1>1, <1>3, <1>7, OneGetSteps

\* The next byte is, or is read to be, the next one of the answer.
LEMMA NextByteInOrder ==
  ASSUME NEW r, NEW q, NEW w, r \in GetType, r.seen \in FileType, InOrder(r),
         r.left # <<>>, w \in Byte, w = r.left[1],
         q.range = r.range, q.seen = r.seen, q.broke = r.broke,
         q.left = Tail(r.left), q.body = Append(r.body, w)
  PROVE  InOrder(q)
<1> DEFINE p == Answer(r)
<1>1. Answer(q) = p /\ p \in Seq(Byte) /\ Len(p) \in Nat
  BY AnswerGiven DEF Answer
<1>2. /\ r.left \in Seq(Byte) /\ Len(r.left) \in Nat \ {0}
      /\ r.body \in Seq(Byte) /\ Len(r.body) \in Nat
  BY EmptySeq, LenProperties DEF GetType
<1>3. /\ Len(q.left) = Len(r.left) - 1
      /\ \A j \in 1..Len(q.left) : q.left[j] = r.left[j + 1]
  BY <1>2, HeadTailProperties
<1>4. /\ Len(q.body) = Len(r.body) + 1 /\ q.body[Len(r.body) + 1] = w
      /\ \A j \in 1..Len(r.body) : q.body[j] = r.body[j]
  BY <1>2, AppendProperties
<1> DEFINE k == Sent(r)
<1>5. k = Len(p) - Len(r.left) /\ k \in Int
  BY ONLY <1>1, <1>2 DEF Sent
<1>6. /\ 0 <= k /\ k <= Len(r.body) /\ (~r.broke => k = Len(r.body))
      /\ \A j \in 1..Len(r.left) : r.left[j] = p[k + j]
      /\ \A j \in 1..k : r.body[Len(r.body) - k + j] = p[j]
  BY DEF InOrder
<1>7. Sent(q) = Len(p) - Len(q.left)
  BY ONLY <1>1 DEF Sent
<1>8. w = r.left[1]
  OBVIOUS
<1>9. ~q.broke => ~r.broke
  OBVIOUS
<1> HIDE DEF k, p
<1>10. Sent(q) = k + 1
  BY ONLY <1>1, <1>2, <1>3, <1>5, <1>7
<1> DEFINE m == Len(r.left)
           n == Len(r.body)
           l == r.left
           sent == r.body
           ll == q.left
           bb == q.body
<1>11. /\ m \in Nat \ {0} /\ n \in Nat /\ k \in Int /\ 0 <= k /\ k <= n
       /\ \A j \in 1..m : l[j] = p[k + j]
       /\ \A j \in 1..k : sent[n - k + j] = p[j]
       /\ \A j \in 1..(m - 1) : ll[j] = l[j + 1]
       /\ \A j \in 1..n : bb[j] = sent[j]
       /\ bb[n + 1] = l[1]
  BY ONLY <1>2, <1>3, <1>4, <1>5, <1>6, <1>8
<1> HIDE DEF m, n, l, sent, ll, bb
<1>12. ASSUME NEW j \in 1..(m - 1) PROVE ll[j] = p[(k + 1) + j]
  <2>1. j + 1 \in 1..m /\ k + (j + 1) = (k + 1) + j
    BY ONLY <1>11, j \in 1..(m - 1)
  <2>2. l[j + 1] = p[k + (j + 1)]
    BY ONLY <1>11, <2>1
  <2> QED BY ONLY <1>11, <2>1, <2>2, j \in 1..(m - 1)
<1>13. ASSUME NEW j \in 1..(k + 1) PROVE bb[n + 1 - (k + 1) + j] = p[j]
  <2>1. CASE j = k + 1
    <3>1. n + 1 - (k + 1) + j = n + 1 /\ 1 \in 1..m /\ j = k + 1
      BY ONLY <1>11, <2>1
    <3>2. l[1] = p[k + 1]
      BY ONLY <1>11, <3>1
    <3> QED BY ONLY <1>11, <3>1, <3>2
  <2>2. CASE j # k + 1
    <3> DEFINE i == n - k + j
    <3>1. j \in 1..k /\ n + 1 - (k + 1) + j = i /\ i \in 1..n
      BY ONLY <1>11, <2>2, j \in 1..(k + 1)
    <3>2. sent[i] = p[j]
      BY ONLY <1>11, <3>1
    <3> HIDE DEF i
    <3> QED BY ONLY <1>11, <3>1, <3>2
  <2> QED BY ONLY <2>1, <2>2
<1>14. /\ Len(q.left) = m - 1 /\ Len(q.body) = n + 1 /\ Len(r.body) = n
  BY ONLY <1>3, <1>4 DEF m, n
<1>15. \A j \in 1..Len(q.left) : q.left[j] = p[(k + 1) + j]
  BY ONLY <1>12, <1>14 DEF ll
<1>16. \A j \in 1..(k + 1) : q.body[Len(q.body) - (k + 1) + j] = p[j]
  <2> TAKE j \in 1..(k + 1)
  <2>1. bb[n + 1 - (k + 1) + j] = p[j]
    BY ONLY <1>13, j \in 1..(k + 1)
  <2>2. Len(q.body) = n + 1
    BY ONLY <1>14
  <2>3. q.body[n + 1 - (k + 1) + j] = p[j]
    BY ONLY <2>1 DEF bb
  <2> DEFINE i == Len(q.body) - (k + 1) + j
  <2>4. i = n + 1 - (k + 1) + j
    <3>1. n \in Nat /\ k \in Int
      BY ONLY <1>11
    <3> DEFINE len == Len(q.body)
    <3>2. len = n + 1
      BY ONLY <2>2
    <3> HIDE DEF len
    <3>3. len - (k + 1) + j = n + 1 - (k + 1) + j
      BY ONLY <3>1, <3>2, j \in 1..(k + 1)
    <3> QED BY ONLY <3>3 DEF len
  <2>5. q.body[i] = p[j]
    <3> HIDE DEF i
    <3> QED BY ONLY <2>3, <2>4
  <2> QED BY ONLY <2>5
<1>17. 0 <= k + 1 /\ k + 1 <= Len(q.body) /\ (~q.broke => k + 1 = Len(q.body))
  BY ONLY <1>6, <1>9, <1>11, <1>14
<1> QED BY ONLY <1>1, <1>10, <1>15, <1>16, <1>17 DEF InOrder

LEMMA ChunkKeeps ==
  ASSUME GetsInv, NEW c \in Readers, Chunk(c)
  PROVE  GetsInv'
<1> DEFINE r == get[c]
           w == Read(Head(r.left))
           q == [r EXCEPT !.left = Tail(@), !.body = Append(@, w)]
<1>1. /\ get' = [get EXCEPT ![c] = q] /\ UNCHANGED <<store, file>> /\ RestTyped'
      /\ r.pc = "streaming" /\ r.left # <<>>
  BY DEF Chunk, Goto, At, GetsInv, RestTyped
<1>2. GoodGet(r) /\ GetShape(r) /\ r \in GetType /\ Served(r)
  BY GoodGets
<1>3. /\ q.pc = "streaming" /\ q.range = r.range /\ q.seen = r.seen /\ q.urls = r.urls
      /\ q.asked = r.asked /\ q.left = Tail(r.left) /\ q.body = Append(r.body, w)
      /\ q.broke = r.broke /\ q.raced = r.raced
  BY <1>1, <1>2 DEF GetType
<1>4. /\ Head(r.left) = r.left[1] /\ r.left[1] \in Byte /\ Tail(r.left) \in Seq(Byte)
      /\ Len(r.left) \in Nat \ {0} /\ Len(Tail(r.left)) = Len(r.left) - 1
      /\ \A n \in 1..Len(Tail(r.left)) : Tail(r.left)[n] = r.left[n + 1]
      /\ r.left \in Seq(Byte) /\ r.body \in Seq(Byte)
  BY <1>1, <1>2, HeadTailProperties, EmptySeq, ElementOfSeq DEF GetType
<1>5. w \in Byte /\ (store = "o2" => w = r.left[1]) /\ w[2] = r.left[1][2]
      /\ w = IF store = "simulated" THEN <<file.v, r.left[1][2]>> ELSE r.left[1]
  BY <1>4 DEF Read, InPlace, Byte, GetsInv, FileType
<1> HIDE DEF w
<1>6. /\ q.body \in Seq(Byte) /\ Len(q.body) = Len(r.body) + 1 /\ Len(r.body) \in Nat
      /\ \A n \in 1..Len(q.body) : q.body[n] = IF n = Len(r.body) + 1 THEN w ELSE r.body[n]
  BY <1>3, <1>4, <1>5, AppendProperties, LenProperties
<1>7. q \in GetType
  <2>1. Append(r.body, w) \in Seq(Byte)
    BY <1>3, <1>6
  <2> QED BY <1>2, <1>4, <2>1 DEF GetType
<1> HIDE DEF q, r
<1>8. GetShape(q)
  BY <1>2, <1>3, <1>7 DEF GetShape
<1>9. ASSUME store = "o2", ~q.broke PROVE SameContent(q)
  <2>1. SameContent(r)
    BY <1>2, <1>3, <1>9 DEF GoodGet
  <2>2. PICK v \in Int : /\ \A n \in 1..Len(r.body) : r.body[n][1] = v
                         /\ \A n \in 1..Len(r.left) : r.left[n][1] = v
    BY <2>1 DEF SameContent
  <2>3. w[1] = v
    BY <1>4, <1>5, <1>9, <2>2
  <2>4. \A n \in 1..Len(q.body) : q.body[n][1] = v
    BY <1>6, <2>2, <2>3
  <2>5. \A n \in 1..Len(q.left) : q.left[n][1] = v
    BY <1>3, <1>4, <2>2
  <2> QED BY <2>4, <2>5 DEF SameContent
<1>10. NothingSent(q)
  BY <1>3 DEF NothingSent
<1>11. Served(q)
  <2> SUFFICES ASSUME ~r.raced, ~Unserved(r.range)
               PROVE  q.seen = file /\ InOrder(q) /\ (q.urls # <<>> => Asks(q))
    BY <1>3 DEF Served
  <2>1. r.seen = file /\ InOrder(r) /\ (r.urls # <<>> => Asks(r)) /\ file \in FileType
    BY <1>1, <1>2 DEF Served, GetsInv
  <2>2. w = r.left[1]
    <3>1. /\ Len(Answer(r)) \in Nat
          /\ \A n \in 1..Len(Answer(r)) : Answer(r)[n][1] = file.v
      BY <1>2, <2>1, AnswerGiven
    <3>2. Sent(r) = Len(Answer(r)) - Len(r.left) /\ 0 <= Sent(r) /\ Sent(r) \in Int
      BY <1>4, <2>1, <3>1 DEF InOrder, Sent
    <3>3. Sent(r) + 1 \in 1..Len(Answer(r)) /\ 1 \in 1..Len(r.left)
      BY <1>4, <3>1, <3>2
    <3>4. r.left[1][1] = file.v
      BY <2>1, <3>1, <3>3 DEF InOrder
    <3>5. r.left[1] = <<r.left[1][1], r.left[1][2]>>
      BY <1>4 DEF Byte
    <3> QED BY <1>5, <3>4, <3>5
  <2>3. InOrder(q)
    BY <1>1, <1>2, <1>3, <1>5, <2>1, <2>2, NextByteInOrder
  <2> QED BY <1>3, <2>1, <2>3 DEF Asks
<1>12. GoodGet(q)
  BY <1>8, <1>9, <1>10, <1>11 DEF GoodGet
<1> QED BY <1>1, <1>12, OneGetSteps

LEMMA LeaveKeeps ==
  ASSUME GetsInv, NEW c \in Readers, Leave(c)
  PROVE  GetsInv'
<1>1. get' = [get EXCEPT ![c] = Idle] /\ UNCHANGED <<store, file>> /\ RestTyped'
  BY DEF Leave, Goto, GetsInv, RestTyped
<1> QED BY <1>1, IdleIsGood, OneGetSteps

\* A PUT changes what the file holds, and nothing that was read of it.
LEMMA PutKeeps ==
  ASSUME GetsInv, NEW size \in Positions, Put(size)
  PROVE  GetsInv'
<1>1. /\ get' = [c \in Readers |-> [get[c] EXCEPT !.raced = ~At(c, "idle")]]
      /\ file' = [size |-> size, v |-> file.v + 1] /\ store' = store
  BY DEF Put
<1>2. file' \in FileType /\ RestTyped'
  BY <1>1, DownloadsAssumption DEF Put, GetsInv, FileType, RestTyped
<1>3. ASSUME NEW c \in Readers PROVE GoodGet(get[c])'
  <2> DEFINE r == get[c]
             q == [r EXCEPT !.raced = ~At(c, "idle")]
  <2>1. get'[c] = q
    BY <1>1
  <2>2. GoodGet(r) /\ r \in GetType /\ IsInjective(r.urls)
    BY GoodGets DEF GetShape
  <2>3. /\ q.urls = r.urls /\ q.body = r.body /\ q.left = r.left /\ q.broke = r.broke
        /\ q.pc = r.pc /\ q.raced = (r.pc # "idle")
    BY <2>2 DEF GetType, At
  <2>4. q \in GetType
    BY <2>2 DEF GetType
  <2> HIDE DEF q, r
  <2>5. GetShape(q)
    BY <2>2, <2>3, <2>4 DEF GetShape
  <2>6. store = "o2" /\ ~q.broke => SameContent(q) /\ NothingSent(q)
    BY <2>2, <2>3 DEF GoodGet, SameContent, NothingSent
  <2>7. q.raced \/ q.pc = "idle"
    BY <2>3
  <2> QED BY <1>1, <2>1, <2>5, <2>6, <2>7 DEF GoodGet, GetShape, Served, SameContent, NothingSent
<1>4. get' = [c \in Readers |-> get'[c]]
  BY <1>1
<1> QED BY <1>1, <1>2, <1>3, <1>4 DEF GetsInv

LEMMA NothingReadKeeps ==
  ASSUME GetsInv, UNCHANGED <<store, file, get>>, RestTyped'
  PROVE  GetsInv'
<1>1. ASSUME NEW c \in Readers PROVE GoodGet(get[c])'
  BY ZenonT(60) DEF GetsInv, GoodGet, Served, Unserved, Asks, InOrder, Sent, Answer, GetShape,
         SameContent, NothingSent
<1> QED BY <1>1 DEF GetsInv

LEMMA NextKeeps == GetsInv /\ [Next]_vars => GetsInv'
<1> SUFFICES ASSUME GetsInv, [Next]_vars PROVE GetsInv'
  OBVIOUS
<1>1. CASE Settles \/ UNCHANGED vars
  <2>1. RestTyped'
    BY <1>1 DEF Settles, vars, GetsInv, RestTyped
  <2> QED BY <1>1, <2>1, NothingReadKeeps DEF Settles, vars
<1>2. ASSUME NEW size \in Positions, Put(size) PROVE GetsInv'
  BY <1>2, PutKeeps
<1>3. ASSUME NEW c \in Readers, NEW r \in Ranges \cup {None}, Get(c, r) PROVE GetsInv'
  BY <1>3, GetKeeps
<1>4. ASSUME NEW c \in Readers, Leave(c) PROVE GetsInv'
  BY <1>4, LeaveKeeps
<1>5. ASSUME NEW c \in Readers, Continue(c) PROVE GetsInv'
  <2>1. CASE OpenCopy(c) \/ OpenEmpty(c) \/ OpenSimulated(c) \/ OpenRemote(c)
    BY <2>1, OpenCopyKeeps, OpenEmptyKeeps, OpenSimulatedKeeps, OpenRemoteKeeps
  <2>2. CASE Resolve(c) \/ Connect(c) \/ Renew(c)
    BY <2>2, ResolveKeeps, ConnectKeeps, RenewKeeps
  <2>3. CASE Refused(c) \/ Breaks(c)
    BY <2>3, RefusedKeeps
  <2>4. CASE Chunk(c) \/ Complete(c) \/ Fail(c)
    BY <2>4, ChunkKeeps, CompleteKeeps, FailKeeps
  <2> QED BY <1>5, <2>1, <2>2, <2>3, <2>4 DEF Continue
<1> QED BY <1>1, <1>2, <1>3, <1>4, <1>5 DEF Next

LEMMA GetsInvHolds == Spec => []GetsInv
<1>1. Init => GetsInv
  BY InitGets
<1>2. GetsInv /\ [Next]_vars => GetsInv'
  BY NextKeeps
<1> QED BY <1>1, <1>2, PTL DEF Spec

-----------------------------------------------------------------------------
LEMMA GetsInvGivesOneContent == GetsInv => OneContent
<1> SUFFICES ASSUME GetsInv, NEW c \in Readers, store = "o2", ~get[c].broke,
                    NEW m \in DOMAIN get[c].body, NEW n \in DOMAIN get[c].body
             PROVE  get[c].body[m][1] = get[c].body[n][1]
  BY DEF OneContent
<1>1. get[c].body \in Seq(Byte)
  BY GoodGets DEF GetType
<1>2. SameContent(get[c])
  BY GoodGets DEF GoodGet
<1>3. DOMAIN get[c].body = 1..Len(get[c].body)
  BY <1>1, LenProperties
<1> QED BY <1>2, <1>3 DEF SameContent

LEMMA GetsInvGivesTypes == GetsInv => TypeOK
<1> SUFFICES ASSUME GetsInv, NEW c \in Readers PROVE
      LET r == get[c] IN
          /\ r.pc \in {"idle", "open", "resolve", "connect", "streaming", "done", "failed"}
          /\ r.range \in Ranges \cup {None} /\ r.asked \in Ranges \cup {None}
          /\ r.seen \in FileType \cup {None}
          /\ ToSet(r.urls) \subseteq Urls /\ IsInjective(r.urls)
          /\ ToSet(r.left) \cup ToSet(r.body) \subseteq (1..MaxVersions) \X Positions
          /\ r.retried \in BOOLEAN /\ r.broke \in BOOLEAN /\ r.raced \in BOOLEAN
  BY DEF GetsInv, RestTyped, TypeOK
<1> DEFINE r == get[c]
<1>1. r \in GetType /\ IsInjective(r.urls)
  BY GoodGets DEF GetShape
<1>2. ASSUME NEW S, NEW s \in Seq(S) PROVE ToSet(s) \subseteq S
  BY LenProperties DEF ToSet
<1>3. r.urls \in Seq(Urls) /\ r.left \in Seq(Byte) /\ r.body \in Seq(Byte)
  BY <1>1 DEF GetType
<1>4. ToSet(r.urls) \subseteq Urls /\ ToSet(r.left) \subseteq Byte /\ ToSet(r.body) \subseteq Byte
  BY <1>2, <1>3
<1> QED BY <1>1, <1>4 DEF GetType, Byte

LEMMA LastBytesAreSuffix ==
  ASSUME NEW s \in Seq(Byte), NEW t \in Seq(Byte), Len(s) <= Len(t),
         \A j \in 1..Len(s) : t[Len(t) - Len(s) + j] = s[j]
  PROVE  IsSuffix(s, t)
<1> DEFINE m == Len(s)
           n == Len(t)
           rs == Reverse(s)
           rt == Reverse(t)
<1>1. m \in Nat /\ n \in Nat /\ s \in [1..m -> Byte] /\ t \in [1..n -> Byte]
  BY LenProperties
<1>2. rs = [i \in 1..m |-> s[(m - i) + 1]] /\ rt = [i \in 1..n |-> t[(n - i) + 1]]
  BY DEF Reverse
<1> HIDE DEF rs, rt
<1>3. rs \in [1..m -> Byte] /\ rt \in [1..n -> Byte]
  BY <1>1, <1>2
<1> HIDE DEF m, n
<1>4. rs \in Seq(Byte) /\ rt \in Seq(Byte) /\ DOMAIN rs = 1..m /\ DOMAIN rt = 1..n
  BY ONLY <1>1, <1>3
<1>5. Len(rs) = m /\ Len(rt) = n
  BY ONLY <1>1, <1>4, LenProperties
<1>6. ASSUME NEW i \in 1..m PROVE rs[i] = rt[i]
  <2>1. i \in 1..n /\ (m - i) + 1 \in 1..m /\ n - m + ((m - i) + 1) = (n - i) + 1
    BY <1>1 DEF m, n
  <2>2. t[(n - i) + 1] = s[(m - i) + 1]
    BY <2>1 DEF m, n
  <2> QED BY <1>2, <2>1, <2>2
<1>7. SubSeq(rs, 1, m) = SubSeq(rt, 1, m)
  <2>1. /\ SubSeq(rs, 1, m) \in Seq(Byte)
        /\ Len(SubSeq(rs, 1, m)) = IF 1 <= m THEN m - 1 + 1 ELSE 0
        /\ \A i \in 1..(m - 1 + 1) : SubSeq(rs, 1, m)[i] = rs[1 + i - 1]
    BY <1>1, <1>3, SubSeqProperties
  <2>2. /\ SubSeq(rt, 1, m) \in Seq(Byte)
        /\ Len(SubSeq(rt, 1, m)) = IF 1 <= m THEN m - 1 + 1 ELSE 0
        /\ \A i \in 1..(m - 1 + 1) : SubSeq(rt, 1, m)[i] = rt[1 + i - 1]
    <3>1. \A i \in 1..m : rt[i] \in Byte
      BY <1>1, <1>3
    <3> QED BY ONLY <1>1, <1>3, <3>1, SubSeqProperties
  <2>3. \A i \in 1..m : SubSeq(rs, 1, m)[i] = SubSeq(rt, 1, m)[i]
    BY ONLY <1>1, <1>6, <2>1, <2>2
  <2> QED BY ONLY <1>1, <2>1, <2>2, <2>3, SeqEqual
<1>8. m <= n
  BY DEF m, n
<1>9. IsPrefix(rs, rt)
  BY ONLY <1>5, <1>7, <1>8 DEF IsPrefix
<1> QED BY ONLY <1>9 DEF IsSuffix, rs, rt

LEMMA GetsInvServes == GetsInv => AnnouncedIsServed
<1> SUFFICES ASSUME GetsInv, NEW c \in Readers, get[c].pc = "done", ~get[c].raced,
                    ~Unserved(get[c].range)
             PROVE  /\ IsSuffix(Promised(c), get[c].body)
                    /\ ~get[c].broke => get[c].body = Promised(c)
  BY DEF AnnouncedIsServed
<1> DEFINE r == get[c]
           p == Answer(r)
<1>1. r \in GetType /\ InOrder(r) /\ r.left = <<>> /\ r.seen = file /\ file \in FileType
  BY GoodGets DEF Served, GetsInv
<1>2. Promised(c) = p
  BY DEF Promised, Answer
<1>3. p \in Seq(Byte) /\ Len(p) \in Nat
  BY <1>1, AnswerGiven
<1>4. r.body \in Seq(Byte) /\ Len(r.body) \in Nat
  BY <1>1, LenProperties DEF GetType
<1>5. Sent(r) = Len(p)
  BY <1>1, <1>3, EmptyLeft DEF Sent
<1> HIDE DEF p
<1>6. /\ Len(p) <= Len(r.body) /\ (~r.broke => Len(p) = Len(r.body))
      /\ \A j \in 1..Len(p) : r.body[Len(r.body) - Len(p) + j] = p[j]
  BY <1>1, <1>5 DEF InOrder, p
<1> HIDE DEF r
<1>7. IsSuffix(p, r.body)
  BY <1>3, <1>4, <1>6, LastBytesAreSuffix
<1>8. ASSUME ~r.broke PROVE r.body = p
  <2>1. Len(r.body) = Len(p)
    BY <1>6, <1>8
  <2>2. \A j \in 1..Len(p) : r.body[j] = p[j]
    BY <1>3, <1>6, <2>1
  <2> QED BY <1>3, <1>4, <2>1, <2>2, SeqEqual
<1> QED BY <1>2, <1>7, <1>8 DEF r

\* Every reachable state is well typed: in particular, no URL of a file is
\* tried twice for one body, and no byte lies beyond its content.
THEOREM GetsTyped == Spec => []TypeOK
<1> QED BY GetsInvHolds, GetsInvGivesTypes, PTL

\* The body of a GET over O2 that no URL broke is all of one content: no PUT
\* of the path, landing between the metadata, the opening of the body and any
\* two of its chunks (webdav/router.py:174, o2/store.py:116, o2/api.py:384),
\* mixes the bytes of two uploads.
THEOREM BodiesAreWhole == Spec => []OneContent
<1> QED BY GetsInvHolds, GetsInvGivesOneContent, PTL

\* A GET that ends well, and that no PUT overlapped, has sent the bytes the
\* router announced for its range (webdav/router.py:311-317), all of them and
\* in order, whichever of the local copy, the simulated store and the URLs
\* they came from; but for the ranges O2 does not serve (Unserved).
THEOREM AnnouncedBytesAreSent == Spec => []AnnouncedIsServed
<1> QED BY GetsInvHolds, GetsInvServes, PTL

=============================================================================
