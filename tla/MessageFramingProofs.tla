------------------------ MODULE MessageFramingProofs ------------------------
(***************************************************************************)
(* No byte is lost, moved or read twice, for any messages, any pieces and  *)
(* any bounds.                                                             *)
(*                                                                         *)
(* What the connection still holds is the concatenation of the messages    *)
(* not read yet.  The invariant does not compute it: it asks for what      *)
(* follows each message, one step at a time, so that sending extends and   *)
(* reading shortens it without induction over the messages.                *)
(***************************************************************************)
EXTENDS MessageFraming, SequenceTheorems, WellFoundedInduction, TLAPS

(* Concatenation under a name of its own, so that a proof uses no more of  *)
(* it than the laws below.                                                 *)
Cat(s, t) == s \o t

(* What follows the j-th message is the next one and what follows that.    *)
Splits(rest, stream, s, k) ==
    /\ rest[k] = stream /\ rest[Len(s)] = <<>>
    /\ \A j \in k..Len(s) - 1 : rest[j] = Cat(Bytes(j + 1, s[j + 1]), rest[j + 1])

(* The bytes received and not consumed, and those on their way, are the    *)
(* messages that were sent and not read yet.                               *)
Conserved ==
    Understood(Len(got)) =>
        /\ Len(got) <= Len(sent)
        /\ \E rest \in [Nat -> Seq(Token)] : Splits(rest, Cat(buf, net), sent, Len(got))

(* A receiver has at most one answer under way. *)
OneAtATime == reader # "rtsp" => Len(sent) <= Len(got) + 1

FramingInv == FramingTypeOK /\ Conserved /\ OneAtATime /\ ReadsAsSent

-----------------------------------------------------------------------------
(* Tokens, messages and their bytes *)

LEMMA Tokens ==
    /\ \A i : <<"first", i>> # End /\ <<"first", i>>[1] # "length"
    /\ \A n, s : <<"length", n, s>> # End
    /\ \A n, s : <<"length", n, s>>[1] = "length" /\ <<"length", n, s>>[2] = n
                 /\ <<"length", n, s>>[3] = s
    /\ End[1] # "length"
<1>1. \A i : <<"first", i>>[1] = "first"
  OBVIOUS
<1>2. End[1] = "end"
  BY DEF End
<1>3. \A n, s : <<"length", n, s>>[1] = "length" /\ <<"length", n, s>>[2] = n
                /\ <<"length", n, s>>[3] = s
  OBVIOUS
<1>4. \A i : <<"first", i>> # End
  BY <1>1, <1>2
<1>5. \A n, s : <<"length", n, s>> # End
  BY <1>2, <1>3
<1> QED  BY <1>1, <1>2, <1>3, <1>4, <1>5

LEMMA BodyType ==
    ASSUME NEW m \in Messages
    PROVE  /\ m.body \in Seq({End, Data}) /\ m.body \in Seq(Token)
           /\ m.body = <<>> \/ m.spelling \in Spelling
<1>1. m.body \in Bodies
  <2>1. <<>> \in Bodies
    <3>1. <<>> \in [1..0 -> {End, Data}]
      OBVIOUS
    <3>2. 0 \in 0..MaxBody
      BY FramingAssumption
    <3> QED  BY <3>1, <3>2 DEF Bodies
  <2> QED  BY <2>1 DEF Messages
<1>2. PICK k \in 0..MaxBody : m.body \in [1..k -> {End, Data}]
  BY <1>1 DEF Bodies
<1>3. m.body \in Seq({End, Data})
  BY <1>2
<1>4. m.body \in Seq(Token)
  BY <1>2 DEF Token
<1>5. m.body = <<>> \/ m.spelling \in Spelling
  BY DEF Messages
<1> QED  BY <1>3, <1>4, <1>5

LEMMA CatType ==
    \A s, t \in Seq(Token) :
        /\ Cat(s, t) \in Seq(Token)
        /\ Cat(s, <<>>) = s /\ Cat(<<>>, s) = s
        /\ Cat(s, t) = <<>> => s = <<>> /\ t = <<>>
BY ConcatProperties, ConcatEmptySeq, ConcatSimplifications DEF Cat

LEMMA CatCancel ==
    \A s, t, u \in Seq(Token) : Cat(s, t) = Cat(s, u) => t = u
BY ConcatSimplifications DEF Cat

LEMMA CatAssociative ==
    \A s, t, u \in Seq(Token) : Cat(Cat(s, t), u) = Cat(s, Cat(t, u))
<1> SUFFICES ASSUME NEW s \in Seq(Token), NEW t \in Seq(Token), NEW u \in Seq(Token)
             PROVE  Cat(Cat(s, t), u) = Cat(s, Cat(t, u))
  OBVIOUS
<1> DEFINE st == Cat(s, t)
           tu == Cat(t, u)
           l == Cat(st, u)
           r == Cat(s, tu)
<1>1. Len(s) \in Nat /\ Len(t) \in Nat /\ Len(u) \in Nat
  OBVIOUS
<1>2. /\ Len(st) = Len(s) + Len(t)
      /\ \A i \in 1..Len(s) + Len(t) : st[i] = IF i <= Len(s) THEN s[i] ELSE t[i - Len(s)]
  BY ConcatProperties DEF Cat
<1>3. /\ Len(tu) = Len(t) + Len(u)
      /\ \A i \in 1..Len(t) + Len(u) : tu[i] = IF i <= Len(t) THEN t[i] ELSE u[i - Len(t)]
  BY ConcatProperties DEF Cat
<1>0. st \in Seq(Token) /\ tu \in Seq(Token)
  BY CatType
<1> HIDE DEF st, tu
<1>4. /\ l \in Seq(Token) /\ Len(l) = Len(st) + Len(u)
      /\ \A i \in 1..Len(st) + Len(u) : l[i] = IF i <= Len(st) THEN st[i] ELSE u[i - Len(st)]
  BY <1>0, ConcatProperties DEF Cat
<1>5. /\ r \in Seq(Token) /\ Len(r) = Len(s) + Len(tu)
      /\ \A i \in 1..Len(s) + Len(tu) : r[i] = IF i <= Len(s) THEN s[i] ELSE tu[i - Len(s)]
  BY <1>0, ConcatProperties DEF Cat
<1> HIDE DEF l, r
<1>6. Len(l) = Len(r)
  BY <1>1, <1>2, <1>3, <1>4, <1>5
<1>7. ASSUME NEW i \in 1..Len(l) PROVE l[i] = r[i]
  <2>1. CASE i <= Len(s)
    <3>1. l[i] = st[i] /\ st[i] = s[i]
      BY <2>1, <1>1, <1>2, <1>4
    <3>2. r[i] = s[i]
      BY <2>1, <1>1, <1>3, <1>5
    <3> QED  BY <3>1, <3>2
  <2>2. CASE Len(s) < i /\ i <= Len(s) + Len(t)
    <3>1. l[i] = t[i - Len(s)]
      BY <2>2, <1>1, <1>2, <1>4
    <3>2. r[i] = tu[i - Len(s)] /\ i - Len(s) \in 1..Len(t) + Len(u) /\ i - Len(s) <= Len(t)
      BY <2>2, <1>1, <1>3, <1>5
    <3> QED  BY <3>1, <3>2, <1>3
  <2>3. CASE Len(s) + Len(t) < i
    <3>1. l[i] = u[i - (Len(s) + Len(t))]
      BY <2>3, <1>1, <1>2, <1>4
    <3>2. /\ r[i] = tu[i - Len(s)] /\ i - Len(s) \in 1..Len(t) + Len(u) /\ ~(i - Len(s) <= Len(t))
          /\ (i - Len(s)) - Len(t) = i - (Len(s) + Len(t))
      BY <2>3, <1>1, <1>2, <1>3, <1>4, <1>5
    <3> QED  BY <3>1, <3>2, <1>3
  <2> QED  BY <2>1, <2>2, <2>3, <1>1, <1>2, <1>4
<1>8. l = r
  BY <1>4, <1>5, <1>6, <1>7, SeqEqual
<1> QED  BY <1>8 DEF l, r, st, tu

(* Short sequences joined. *)
LEMMA Join ==
    ASSUME NEW w, NEW x, NEW y, NEW z
    PROVE  /\ <<w>> \o <<>> = <<w>>
           /\ <<w>> \o <<x>> = <<w, x>>
           /\ <<w>> \o <<x, y>> = <<w, x, y>>
           /\ <<w, x>> \o <<y, z>> = <<w, x, y, z>>
<1> DEFINE S == {w, x, y, z}
<1>1. <<w>> \in Seq(S) /\ <<x>> \in Seq(S) /\ <<w, x>> \in Seq(S) /\ <<x, y>> \in Seq(S)
      /\ <<y, z>> \in Seq(S) /\ <<w, x, y>> \in Seq(S) /\ <<w, x, y, z>> \in Seq(S)
  OBVIOUS
<1>2. /\ Len(<<w>>) = 1 /\ Len(<<x>>) = 1 /\ Len(<<w, x>>) = 2 /\ Len(<<x, y>>) = 2
      /\ Len(<<y, z>>) = 2 /\ Len(<<w, x, y>>) = 3 /\ Len(<<w, x, y, z>>) = 4
  OBVIOUS
<1>3. <<w>> \o <<>> = <<w>>
  BY <1>1, ConcatEmptySeq
<1>4. <<w>> \o <<x>> = <<w, x>>
  <2> DEFINE t == <<w>> \o <<x>>
  <2>1. t \in Seq(S) /\ Len(t) = 2 /\ t[1] = <<w>>[1] /\ t[2] = <<x>>[1]
    BY <1>1, <1>2, ConcatProperties
  <2>2. \A i \in 1..2 : t[i] = <<w, x>>[i]
    <3>1. \A i \in 1..2 : i = 1 \/ i = 2
      OBVIOUS
    <3> QED  BY <2>1, <3>1
  <2> HIDE DEF t, S
  <2> QED  BY <1>1, <1>2, <2>1, <2>2, SeqEqual DEF t
<1>5. <<w>> \o <<x, y>> = <<w, x, y>>
  <2> DEFINE t == <<w>> \o <<x, y>>
  <2>1. t \in Seq(S) /\ Len(t) = 3 /\ t[1] = <<w>>[1] /\ t[2] = <<x, y>>[1] /\ t[3] = <<x, y>>[2]
    BY <1>1, <1>2, ConcatProperties
  <2>2. \A i \in 1..3 : t[i] = <<w, x, y>>[i]
    <3>1. \A i \in 1..3 : i = 1 \/ i = 2 \/ i = 3
      OBVIOUS
    <3> QED  BY <2>1, <3>1
  <2> HIDE DEF t, S
  <2> QED  BY <1>1, <1>2, <2>1, <2>2, SeqEqual DEF t
<1>6. <<w, x>> \o <<y, z>> = <<w, x, y, z>>
  <2> DEFINE t == <<w, x>> \o <<y, z>>
  <2>1. /\ t \in Seq(S) /\ Len(t) = 4
        /\ t[1] = <<w, x>>[1] /\ t[2] = <<w, x>>[2]
        /\ t[3] = <<y, z>>[1] /\ t[4] = <<y, z>>[2]
    BY <1>1, <1>2, ConcatProperties
  <2>2. \A i \in 1..4 : t[i] = <<w, x, y, z>>[i]
    <3>1. \A i \in 1..4 : i = 1 \/ i = 2 \/ i = 3 \/ i = 4
      OBVIOUS
    <3> QED  BY <2>1, <3>1
  <2> HIDE DEF t, S
  <2> QED  BY <1>1, <1>2, <2>1, <2>2, SeqEqual DEF t
<1> QED  BY <1>3, <1>4, <1>5, <1>6

(* The bytes of a message without and with a body. *)
Length(m) == <<"length", Len(m.body), m.spelling>>

LEMMA BytesPlain ==
    ASSUME NEW i \in Nat, NEW m \in Messages, m.body = <<>>
    PROVE  Bytes(i, m) = << <<"first", i>>, End, End>>
<1> DEFINE f == <<"first", i>>
<1>1. Bytes(i, m) = ((<<f>> \o <<>>) \o <<End, End>>) \o <<>>
  BY DEF Bytes
<1>2. <<f>> \o <<>> = <<f>> /\ <<f>> \o <<End, End>> = <<f, End, End>>
  BY Join
<1>3. <<f, End, End>> \in Seq({f, End})
  OBVIOUS
<1>4. <<f, End, End>> \o <<>> = <<f, End, End>>
  BY <1>3, ConcatEmptySeq
<1> HIDE DEF f
<1>5. Bytes(i, m) = <<f, End, End>>
  BY <1>1, <1>2, <1>4
<1> QED  BY <1>5 DEF f

LEMMA BytesBody ==
    ASSUME NEW i \in Nat, NEW m \in Messages, m.body # <<>>
    PROVE  Bytes(i, m) = << <<"first", i>>, Length(m), End, End>> \o m.body
<1> DEFINE f == <<"first", i>>
<1>1. Bytes(i, m) = ((<<f>> \o <<Length(m)>>) \o <<End, End>>) \o m.body
  BY DEF Bytes, Length
<1> HIDE DEF f
<1>2. <<f>> \o <<Length(m)>> = <<f, Length(m)>>
  BY Join
<1>3. <<f, Length(m)>> \o <<End, End>> = <<f, Length(m), End, End>>
  BY Join
<1>4. Bytes(i, m) = <<f, Length(m), End, End>> \o m.body
  BY <1>1, <1>2, <1>3
<1> QED  BY <1>4 DEF f

LEMMA BytesType ==
    ASSUME NEW i \in Nat, NEW m \in Messages
    PROVE  /\ Bytes(i, m) \in Seq(Token) /\ Len(Bytes(i, m)) \in Nat /\ Len(Bytes(i, m)) >= 3
           /\ Len(Bytes(i, m)) = IF m.body = <<>> THEN 3 ELSE 4 + Len(m.body)
<1> DEFINE f == <<"first", i>>
           b == Bytes(i, m)
<1>1. End \in Token /\ f \in Token
  BY DEF Token
<1>2. CASE m.body = <<>>
  <2>1. b = <<f, End, End>>
    BY <1>2, BytesPlain
  <2> HIDE DEF f, b
  <2>2. <<f, End, End>> \in Seq(Token) /\ Len(<<f, End, End>>) = 3
    BY <1>1
  <2>3. b \in Seq(Token) /\ Len(b) = 3
    BY <2>1, <2>2
  <2> QED  BY <2>3, <1>2 DEF b
<1>3. CASE m.body # <<>>
  <2> DEFINE h == <<f, Length(m), End, End>>
  <2>1. m.body \in Seq(Token) /\ m.spelling \in Spelling /\ Len(m.body) \in Nat
    BY <1>3, BodyType
  <2>2. Length(m) \in Token
    BY <2>1 DEF Token, Length
  <2>3. b = h \o m.body
    BY <1>3, BytesBody
  <2> HIDE DEF f, b
  <2>4. h \in Seq(Token) /\ Len(h) = 4
    BY <2>2, <1>1
  <2> HIDE DEF h
  <2>5. h \o m.body \in Seq(Token) /\ Len(h \o m.body) = Len(h) + Len(m.body)
    BY <2>1, <2>4, ConcatProperties
  <2>6. b \in Seq(Token) /\ Len(b) = 4 + Len(m.body)
    BY <2>3, <2>4, <2>5
  <2> QED  BY <2>1, <2>6, <1>3 DEF b
<1> QED  BY <1>2, <1>3

-----------------------------------------------------------------------------
(* Where a message ends *)

LEMMA HeaderEndIs ==
    ASSUME NEW b \in Seq(Token), NEW n \in 1..Len(b) - 1,
           b[n] = End, b[n + 1] = End,
           \A j \in 1..n - 1 : ~(b[j] = End /\ b[j + 1] = End)
    PROVE  HeaderEnd(b) = n
<1> DEFINE P(i) == /\ b[i] = End /\ b[i + 1] = End
                   /\ \A j \in 1..i - 1 : ~(b[j] = End /\ b[j + 1] = End)
<1>1. P(n)
  OBVIOUS
<1>2. \A i \in 1..Len(b) - 1 : P(i) => i = n
  <2> SUFFICES ASSUME NEW i \in 1..Len(b) - 1, P(i), i # n PROVE FALSE
    OBVIOUS
  <2>1. Len(b) \in Nat
    OBVIOUS
  <2>2. i < n \/ n < i
    BY <2>1
  <2>3. CASE i < n
    BY <2>1, <2>3, i \in 1..n - 1
  <2>4. CASE n < i
    BY <2>1, <2>4, n \in 1..i - 1
  <2> QED  BY <2>2, <2>3, <2>4
<1>3. HeaderEnd(b) = CHOOSE i \in 1..Len(b) - 1 : P(i)
  BY DEF HeaderEnd
<1> HIDE DEF P
<1> QED  BY <1>1, <1>2, <1>3

LEMMA HeaderEndFound ==
    ASSUME NEW b \in Seq(Token), HeaderEnd(b) # 0
    PROVE  \E i \in 1..Len(b) - 1 : b[i] = End /\ b[i + 1] = End
BY DEF HeaderEnd

(* A reader that has the end of a header in its buffer finds the length of *)
(* the message that the buffer starts with, whatever follows it.           *)
LEMMA FramedLenIs ==
    ASSUME NEW r, NEW i \in Nat, NEW m \in Messages,
           Understands(r, m.spelling),
           NEW b \in Seq(Token), NEW rest \in Seq(Token), NEW more \in Seq(Token),
           b \o more = Bytes(i, m) \o rest,
           HeaderEnd(b) # 0
    PROVE  FramedLen(r, b) = Len(Bytes(i, m))
<1> DEFINE w == Bytes(i, m)
<1>1. w \in Seq(Token) /\ Len(w) \in Nat /\ Len(w) >= 3
  BY BytesType
<1>2. \A j \in 1..Len(b) : j <= Len(w) => b[j] = w[j]
  <2> SUFFICES ASSUME NEW j \in 1..Len(b), j <= Len(w) PROVE b[j] = w[j]
    OBVIOUS
  <2> HIDE DEF w
  <2>0. b \o more = w \o rest
    BY DEF w
  <2>1. (b \o more)[j] = b[j]
    BY ConcatProperties
  <2>2. (w \o rest)[j] = w[j]
    BY <1>1, ConcatProperties
  <2> QED  BY <2>0, <2>1, <2>2
<1>3. PICK e \in 1..Len(b) - 1 : b[e] = End /\ b[e + 1] = End
  BY HeaderEndFound
<1>4. CASE m.body = <<>>
  <2>1. w = << <<"first", i>>, End, End>> /\ Len(w) = 3
    BY <1>4, BytesPlain
  <2>2. Len(b) >= 2 /\ b[1] = <<"first", i>> /\ b[1] # End
    BY <1>1, <1>2, <1>3, <2>1, Tokens
  <2>3. e # 1
    BY <2>2, <1>3
  <2>4. Len(b) >= 3
    BY <2>3, <1>3
  <2>5. b[2] = End /\ b[3] = End
    BY <2>1, <2>4, <1>2
  <2>6. HeaderEnd(b) = 2
    <3>1. \A j \in 1..2 - 1 : ~(b[j] = End /\ b[j + 1] = End)
      <4>1. \A j \in 1..2 - 1 : j = 1
        OBVIOUS
      <4> QED  BY <4>1, <2>2
    <3> QED  BY <3>1, <2>4, <2>5, HeaderEndIs
  <2>7. {j \in 1..2 : b[j][1] = "length" /\ Understands(r, b[j][3])} = {}
    BY <2>2, <2>5, Tokens
  <2>8. ContentLength(r, b) = 0
    BY <2>6, <2>7 DEF ContentLength
  <2> QED  BY <2>1, <2>6, <2>8 DEF FramedLen
<1>5. CASE m.body # <<>>
  <2> DEFINE l == Length(m)
             h == << <<"first", i>>, l, End, End>>
  <2>0. m.body \in Seq(Token) /\ Len(m.body) \in Nat
    BY BodyType
  <2>1. w = h \o m.body /\ Len(w) = 4 + Len(m.body)
    BY <1>5, BytesBody, BytesType
  <2>2. l # End /\ l[1] = "length" /\ l[2] = Len(m.body) /\ l[3] = m.spelling
    BY Tokens DEF Length
  <2>3. w[1] = <<"first", i>> /\ w[2] = l /\ w[3] = End /\ w[4] = End
    <3> HIDE DEF l
    <3>1. h \in Seq({<<"first", i>>, l, End} \cup Token) /\ Len(h) = 4
      OBVIOUS
    <3>2. m.body \in Seq({<<"first", i>>, l, End} \cup Token)
      BY <2>0
    <3>3. h[1] = <<"first", i>> /\ h[2] = l /\ h[3] = End /\ h[4] = End
      OBVIOUS
    <3> HIDE DEF h, w
    <3> QED  BY <2>0, <2>1, <3>1, <3>2, <3>3, ConcatProperties
  <2> HIDE DEF l, h, w
  <2>4. Len(b) >= 2 /\ b[1] = <<"first", i>> /\ b[1] # End /\ b[2] = l
    <3>1. Len(b) >= 2 /\ 1 \in 1..Len(b) /\ 2 \in 1..Len(b)
      BY <1>3
    <3>2. b[1] = w[1] /\ b[2] = w[2]
      BY <3>1, <1>1, <1>2
    <3> QED  BY <3>1, <3>2, <2>3, Tokens
  <2>5. e # 1 /\ e # 2
    BY <2>2, <2>4, <1>3
  <2>6. Len(b) >= 4
    BY <2>5, <1>3
  <2>7. b[3] = End /\ b[4] = End
    <3>1. 3 \in 1..Len(b) /\ 4 \in 1..Len(b) /\ 3 <= Len(w) /\ 4 <= Len(w)
      BY <2>0, <2>1, <2>6
    <3> QED  BY <3>1, <2>3, <1>2
  <2>8. HeaderEnd(b) = 3
    <3>1. \A j \in 1..3 - 1 : ~(b[j] = End /\ b[j + 1] = End)
      BY <2>2, <2>4
    <3> QED  BY <3>1, <2>6, <2>7, HeaderEndIs
  <2>9. {j \in 1..3 : b[j][1] = "length" /\ Understands(r, b[j][3])} = {2}
    <3>1. b[1][1] # "length" /\ b[3][1] # "length"
      BY <2>4, <2>7, Tokens
    <3>2. b[2][1] = "length" /\ Understands(r, b[2][3])
      BY <2>2, <2>4
    <3>3. \A j \in 1..3 : j = 1 \/ j = 2 \/ j = 3
      OBVIOUS
    <3> QED  BY <3>1, <3>2, <3>3
  <2>10. ContentLength(r, b) = Len(m.body)
    <3>1. (CHOOSE j \in {2} : \A k \in {2} : j <= k) = 2
      OBVIOUS
    <3> QED  BY <3>1, <2>2, <2>4, <2>8, <2>9 DEF ContentLength
  <2> QED  BY <2>0, <2>1, <2>8, <2>10 DEF FramedLen, w
<1> QED  BY <1>4, <1>5

(* When a whole message is in the buffer, what the reader takes off is     *)
(* that message and what it leaves is the rest.                            *)
Taken(r, b) == SubSeq(b, 1, FramedLen(r, b))
Left(r, b) == SubSeq(b, FramedLen(r, b) + 1, Len(b))

(* The bytes of a message whose length the reader understands. *)
Readable(r, w) == \E i \in Nat, m \in Messages : w = Bytes(i, m) /\ Understands(r, m.spelling)

LEMMA TakesTheMessage ==
    ASSUME NEW r, NEW w, Readable(r, w),
           NEW b \in Seq(Token), NEW rest \in Seq(Token), NEW more \in Seq(Token),
           Cat(b, more) = Cat(w, rest),
           Framed(r, b)
    PROVE  /\ Taken(r, b) = w
           /\ Left(r, b) \in Seq(Token) /\ Cat(Left(r, b), more) = rest
           /\ rest = <<>> => b = w /\ more = <<>>
<1> DEFINE n == Len(w)
           left == SubSeq(b, n + 1, Len(b))
<1>a. PICK i \in Nat, m \in Messages : w = Bytes(i, m) /\ Understands(r, m.spelling)
  BY DEF Readable
<1>1. FramedLen(r, b) = n /\ Len(b) >= n
  <2>1. b \o more = Bytes(i, m) \o rest
    BY <1>a DEF Cat
  <2>2. HeaderEnd(b) # 0 /\ Len(b) >= FramedLen(r, b)
    BY DEF Framed
  <2>3. FramedLen(r, b) = Len(Bytes(i, m))
    BY <2>1, <2>2, <1>a, FramedLenIs
  <2> QED  BY <2>2, <2>3, <1>a
<1>2. w \in Seq(Token) /\ n \in Nat /\ n >= 3
  BY <1>a, BytesType
<1>0. b \o more = w \o rest
  BY DEF Cat
<1>3. SubSeq(b, 1, n) \in Seq(Token) /\ left \in Seq(Token)
  BY <1>1, <1>2
<1>4. SubSeq(b, 1, n) = w
  <2>1. Len(SubSeq(b, 1, n)) = n
    BY <1>1, <1>2
  <2>2. \A j \in 1..n : SubSeq(b, 1, n)[j] = b[j]
    BY <1>1, <1>2
  <2>3. \A j \in 1..n : b[j] = (b \o more)[j]
    BY <1>1, <1>2, ConcatProperties
  <2>4. \A j \in 1..n : w[j] = (w \o rest)[j]
    BY <1>1, <1>2, ConcatProperties
  <2>5. \A j \in 1..Len(SubSeq(b, 1, n)) : SubSeq(b, 1, n)[j] = w[j]
    BY <1>0, <2>1, <2>2, <2>3, <2>4
  <2> QED  BY <1>2, <1>3, <2>1, <2>5, SeqEqual
<1>5. b = w \o left
  <2>1. SubSeq(b, 1, n) \o SubSeq(b, n + 1, Len(b)) = SubSeq(b, 1, Len(b))
    <3>1. 1 \in 1..Len(b) + 1 /\ n \in 1 - 1..Len(b) /\ Len(b) \in n..Len(b)
      BY <1>1, <1>2
    <3> HIDE DEF n
    <3> QED  BY <3>1, ConcatAdjacentSubSeq
  <2> QED  BY <2>1, <1>4, SubSeqFull
<1> HIDE DEF left
<1>6. Cat(b, more) = Cat(w, rest) /\ b = Cat(w, left)
  BY <1>0, <1>5 DEF Cat
<1>7. Cat(left, more) = rest
  <2>1. Cat(w, Cat(left, more)) = Cat(w, rest)
    BY <1>2, <1>3, <1>6, CatAssociative
  <2>2. Cat(left, more) \in Seq(Token)
    BY <1>3, CatType
  <2> QED  BY <2>1, <2>2, <1>2, CatCancel
<1>8. ASSUME rest = <<>> PROVE b = w /\ more = <<>>
  <2>1. left = <<>> /\ more = <<>>
    BY <1>3, <1>7, <1>8, CatType
  <2> QED  BY <2>1, <1>2, <1>6, CatType
<1> QED  BY <1>1, <1>3, <1>4, <1>7, <1>8 DEF left, Taken, Left

(* What the reader computes from any bytes is a length. *)
LEMMA Least ==
    ASSUME NEW T, T \subseteq Nat, T # {}
    PROVE  \E x \in T : \A y \in T : x <= y
<1>1. PICK x \in T : \A y \in T : ~(<<y, x>> \in OpToRel(<, Nat))
  BY NatLessThanWellFounded, WFMin
<1>2. \A y \in T : ~(y < x)
  BY <1>1 DEF OpToRel
<1> QED  BY <1>2

LEMMA HeaderEndType ==
    ASSUME NEW b \in Seq(Token)
    PROVE  HeaderEnd(b) \in Nat /\ (HeaderEnd(b) # 0 => HeaderEnd(b) < Len(b))
<1> DEFINE T == {i \in 1..Len(b) - 1 : b[i] = End /\ b[i + 1] = End}
<1>1. CASE T = {}
  BY <1>1 DEF HeaderEnd
<1>2. CASE T # {}
  <2>1. PICK n \in T : \A j \in T : n <= j
    <3>1. T \subseteq Nat
      OBVIOUS
    <3> HIDE DEF T
    <3> QED  BY <3>1, <1>2, Least
  <2>2. \A j \in 1..n - 1 : ~(b[j] = End /\ b[j + 1] = End)
    BY <2>1
  <2>3. HeaderEnd(b) = n
    BY <2>1, <2>2, HeaderEndIs
  <2> QED  BY <2>3
<1> QED  BY <1>1, <1>2

LEMMA LengthToken ==
    ASSUME NEW t \in Token, t[1] = "length"
    PROVE  t[2] \in Nat
BY DEF Token, End, Data

LEMMA FramedLenType ==
    ASSUME NEW r, NEW b \in Seq(Token)
    PROVE  FramedLen(r, b) \in Nat
<1> DEFINE T == {i \in 1..HeaderEnd(b) : b[i][1] = "length" /\ Understands(r, b[i][3])}
<1>1. HeaderEnd(b) \in Nat /\ (HeaderEnd(b) # 0 => HeaderEnd(b) < Len(b))
  BY HeaderEndType
<1>2. ContentLength(r, b) \in Nat
  <2>1. CASE T = {}
    BY <2>1 DEF ContentLength
  <2>2. CASE T # {}
    <3>1. T \subseteq Nat
      BY <1>1
    <3>2. PICK x \in T : \A y \in T : x <= y
      BY <2>2, <3>1, Least
    <3> DEFINE c == CHOOSE i \in T : \A j \in T : i <= j
    <3>3. c \in T
      BY <3>2
    <3>4. ContentLength(r, b) = b[c][2]
      BY <2>2 DEF ContentLength
    <3> HIDE DEF c
    <3>5. b[c] \in Token /\ b[c][1] = "length"
      BY <3>3, <1>1
    <3> QED  BY <3>4, <3>5, LengthToken
  <2> QED  BY <2>1, <2>2
<1> QED  BY <1>1, <1>2 DEF FramedLen

-----------------------------------------------------------------------------
(* The steps *)

(* Actions that leave the messages and the bytes alone. *)
LEMMA SameBytes ==
    ASSUME FramingInv, reader' = reader, sent' = sent, got' = got,
           buf' \in Seq(Token), net' \in Seq(Token), Cat(buf', net') = Cat(buf, net),
           closed' \in BOOLEAN, reading' \in BOOLEAN, failed' \in BOOLEAN
    PROVE  FramingInv'
<1>1. FramingTypeOK'
  BY DEF FramingInv, FramingTypeOK
<1>2. Conserved'
  BY DEF FramingInv, Conserved, Splits, Understood
<1>3. OneAtATime' /\ ReadsAsSent'
  BY DEF FramingInv, OneAtATime, ReadsAsSent, Understood
<1> QED  BY <1>1, <1>2, <1>3 DEF FramingInv

LEMMA ReceiveInv ==
    ASSUME FramingInv, NEW k \in 1..Len(net), Receive(k)
    PROVE  FramingInv'
<1> DEFINE a == SubSeq(net, 1, k)
           c == SubSeq(net, k + 1, Len(net))
<1>1. net \in Seq(Token) /\ buf \in Seq(Token) /\ Len(net) \in Nat
  BY DEF FramingInv, FramingTypeOK
<1>2. a \in Seq(Token) /\ c \in Seq(Token)
  BY <1>1
<1>3. net = Cat(a, c)
  <2>1. 1 \in 1..Len(net) + 1 /\ k \in 1 - 1..Len(net) /\ Len(net) \in k..Len(net)
    BY <1>1
  <2>2. a \o c = SubSeq(net, 1, Len(net))
    BY <1>1, <2>1, ConcatAdjacentSubSeq
  <2> QED  BY <2>2, <1>1, SubSeqFull DEF Cat
<1>4. buf' = Cat(buf, a) /\ net' = c
  BY DEF Receive, Cat
<1> HIDE DEF a, c
<1>5. Cat(buf', net') = Cat(buf, net)
  BY <1>1, <1>2, <1>3, <1>4, CatAssociative
<1>6. buf' \in Seq(Token) /\ net' \in Seq(Token)
  BY <1>1, <1>2, <1>4, CatType
<1> QED  BY <1>5, <1>6, SameBytes DEF Receive, FramingInv, FramingTypeOK

LEMMA PeerSendsInv ==
    ASSUME FramingInv, NEW m \in Messages, PeerSends(m)
    PROVE  FramingInv'
<1> DEFINE n == Len(sent)
           k == Len(got)
           w == Bytes(n + 1, m)
<1>1. /\ sent \in Seq(Messages) /\ n \in Nat /\ k \in Nat
      /\ buf \in Seq(Token) /\ net \in Seq(Token)
  BY DEF FramingInv, FramingTypeOK
<1>2. /\ sent' \in Seq(Messages) /\ Len(sent') = n + 1 /\ sent'[n + 1] = m
      /\ \A i \in 1..n : sent'[i] = sent[i]
  BY <1>1 DEF PeerSends
<1>3. w \in Seq(Token)
  BY <1>1, BytesType
<1>4. net' = Cat(net, w) /\ net' \in Seq(Token)
  BY <1>1, <1>3, CatType DEF PeerSends, Cat
<1>5. got' = got /\ buf' = buf /\ reader' = reader /\ closed' = closed
      /\ reading' = reading /\ failed' = failed
  BY DEF PeerSends
<1>6. FramingTypeOK'
  BY <1>2, <1>4, <1>5 DEF FramingInv, FramingTypeOK
<1>7. \A i : Understood(i)' => Understood(i)
  BY <1>1, <1>2, <1>5 DEF Understood
<1>8. Conserved'
  <2> SUFFICES ASSUME Understood(k)
               PROVE  /\ k <= n + 1
                      /\ \E rest \in [Nat -> Seq(Token)] : Splits(rest, Cat(buf, net'), sent', k)
    BY <1>2, <1>5, <1>7 DEF Conserved
  <2>1. k <= n
    BY DEF FramingInv, Conserved
  <2>2. PICK rest \in [Nat -> Seq(Token)] : Splits(rest, Cat(buf, net), sent, k)
    BY DEF FramingInv, Conserved
  <2> DEFINE more == [j \in Nat |-> IF j <= n THEN Cat(rest[j], w) ELSE <<>>]
  <2> HIDE DEF w
  <2>3. \A j \in Nat : rest[j] \in Seq(Token)
    BY <2>2
  <2>4. more \in [Nat -> Seq(Token)]
    BY <2>3, <1>3, CatType
  <2>5. more[k] = Cat(buf, net')
    <3>1. more[k] = Cat(rest[k], w)
      BY <1>1, <2>1
    <3>2. rest[k] = Cat(buf, net)
      BY <2>2 DEF Splits
    <3> QED  BY <3>1, <3>2, <1>1, <1>3, <1>4, CatAssociative
  <2>6. more[n + 1] = <<>>
    BY <1>1
  <2>7. ASSUME NEW j \in k..n PROVE more[j] = Cat(Bytes(j + 1, sent'[j + 1]), more[j + 1])
    <3>1. j \in Nat /\ j + 1 \in Nat /\ more[j] = Cat(rest[j], w)
      BY <1>1
    <3>2. CASE j = n
      <4>1. rest[j] = <<>>
        BY <3>2, <2>2 DEF Splits
      <4>2. more[j] = w
        BY <4>1, <3>1, <1>3, CatType
      <4>3. Bytes(j + 1, sent'[j + 1]) = w
        BY <3>2, <1>2 DEF w
      <4> QED  BY <4>2, <4>3, <3>2, <2>6, <1>3, CatType
    <3>3. CASE j # n
      <4>1. j \in k..n - 1 /\ j + 1 \in 1..n /\ j + 1 <= n
        BY <1>1, <3>3
      <4>2. rest[j] = Cat(Bytes(j + 1, sent[j + 1]), rest[j + 1])
        BY <4>1, <2>2 DEF Splits
      <4>3. more[j + 1] = Cat(rest[j + 1], w) /\ sent'[j + 1] = sent[j + 1]
        BY <4>1, <3>1, <1>2
      <4>4. Bytes(j + 1, sent[j + 1]) \in Seq(Token)
        <5>1. sent[j + 1] \in Messages
          BY <4>1, <1>1
        <5> QED  BY <5>1, <3>1, BytesType
      <4> HIDE DEF more
      <4> QED  BY <4>2, <4>3, <4>4, <3>1, <2>3, <1>3, CatAssociative
    <3> QED  BY <3>2, <3>3
  <2> HIDE DEF more
  <2>8. Splits(more, Cat(buf, net'), sent', k)
    <3>1. Len(sent') = n + 1 /\ (n + 1) - 1 = n
      BY <1>1, <1>2
    <3> HIDE DEF n, k
    <3> QED  BY <3>1, <2>5, <2>6, <2>7 DEF Splits
  <2>9. k <= n + 1
    BY <1>1, <2>1
  <2> HIDE DEF n, k
  <2> QED  BY <2>4, <2>8, <2>9
<1>9. OneAtATime'
  BY <1>1, <1>2, <1>5 DEF FramingInv, OneAtATime, PeerSends
<1>10. ReadsAsSent'
  <2> SUFFICES ASSUME NEW i \in 1..k, Understood(i)
               PROVE  i <= n + 1 /\ got[i] = Bytes(i, sent'[i])
    BY <1>2, <1>5, <1>7 DEF ReadsAsSent
  <2>1. i <= n /\ got[i] = Bytes(i, sent[i])
    BY DEF FramingInv, ReadsAsSent
  <2>2. i \in 1..n
    BY <2>1, <1>1
  <2> QED  BY <2>1, <2>2, <1>1, <1>2
<1> QED  BY <1>6, <1>8, <1>9, <1>10 DEF FramingInv

LEMMA TakeMessageInv ==
    ASSUME FramingInv, TakeMessage
    PROVE  FramingInv'
<1> DEFINE n == Len(sent)
           k == Len(got)
           len == FramedLen(reader, buf)
           x == IF reader = "http" THEN buf ELSE SubSeq(buf, 1, len)
<1>1. /\ sent \in Seq(Messages) /\ n \in Nat /\ k \in Nat /\ got \in Seq(Seq(Token))
      /\ buf \in Seq(Token) /\ net \in Seq(Token) /\ reader \in {"rtsp", "http", "hap"}
  BY DEF FramingInv, FramingTypeOK
<1>2. Framed(reader, buf) /\ len \in Nat /\ len <= Len(buf) /\ HeaderEnd(buf) # 0
  BY <1>1, FramedLenType DEF TakeMessage, Framed
<1>3. /\ got' = Append(got, x)
      /\ buf' = IF reader = "rtsp" THEN SubSeq(buf, len + 1, Len(buf)) ELSE <<>>
      /\ sent' = sent /\ net' = net /\ reader' = reader /\ closed' = closed
      /\ reading' = FALSE /\ failed' = failed
  BY DEF TakeMessage
<1> HIDE DEF len
<1>4. SubSeq(buf, 1, len) \in Seq(Token) /\ SubSeq(buf, len + 1, Len(buf)) \in Seq(Token)
  BY <1>1, <1>2
<1>5. x \in Seq(Token)
  BY <1>1, <1>4
<1> HIDE DEF x
<1>6. /\ got' \in Seq(Seq(Token)) /\ Len(got') = k + 1 /\ got'[k + 1] = x
      /\ \A i \in 1..k : got'[i] = got[i]
  BY <1>1, <1>3, <1>5
<1>7. FramingTypeOK'
  <2>1. buf' \in Seq(Token)
    BY <1>3, <1>4
  <2> QED  BY <2>1, <1>1, <1>3, <1>6 DEF FramingInv, FramingTypeOK
<1>8. \A i : Understood(i)' = Understood(i)
  BY <1>3 DEF Understood
(* What the step takes off is the next message. *)
<1>9. ASSUME Understood(k + 1)
      PROVE  /\ k + 1 <= n /\ x = Bytes(k + 1, sent[k + 1])
             /\ \E rest \in [Nat -> Seq(Token)] : Splits(rest, Cat(buf', net), sent, k + 1)
  <2>1. Understood(k)
    BY <1>1, <1>9 DEF Understood
  <2>2. k <= n
    BY <2>1 DEF FramingInv, Conserved
  <2>3. PICK rest \in [Nat -> Seq(Token)] : Splits(rest, Cat(buf, net), sent, k)
    BY <2>1 DEF FramingInv, Conserved
  <2>4. k # n
    <3> SUFFICES ASSUME k = n PROVE FALSE
      OBVIOUS
    <3>1. Cat(buf, net) = <<>>
      BY <2>3 DEF Splits
    <3>2. buf = <<>>
      BY <3>1, <1>1, CatType
    <3>3. HeaderEnd(buf) < Len(buf) /\ HeaderEnd(buf) \in Nat
      BY <1>1, <1>2, HeaderEndType
    <3> QED  BY <3>2, <3>3
  <2>5. k + 1 \in 1..n /\ k + 1 <= n /\ k \in k..n - 1
    <3>1. n \in Nat /\ k \in Nat
      BY <1>1
    <3> HIDE DEF n, k
    <3> QED  BY <3>1, <2>2, <2>4
  <2> DEFINE m == sent[k + 1]
             w == Bytes(k + 1, m)
  <2>6. m \in Messages /\ Understands(reader, m.spelling)
    <3>1. m \in Messages
      BY <2>5, <1>1
    <3>2. k + 1 <= k + 1
      BY <1>1
    <3> QED  BY <3>1, <3>2, <2>5, <1>9 DEF Understood
  <2>7. Cat(buf, net) = Cat(w, rest[k + 1])
    BY <2>3, <2>5 DEF Splits
  <2>8. rest[k + 1] \in Seq(Token) /\ w \in Seq(Token)
    <3>1. k + 1 \in Nat
      BY <1>1
    <3> HIDE DEF m, k
    <3> QED  BY <3>1, <2>3, <2>6, BytesType
  <2>9. /\ SubSeq(buf, 1, len) = w
        /\ Cat(SubSeq(buf, len + 1, Len(buf)), net) = rest[k + 1]
        /\ rest[k + 1] = <<>> => buf = w /\ net = <<>>
    <3>1. k + 1 \in Nat
      BY <1>1
    <3> HIDE DEF m, k
    <3> DEFINE q == rest[k + 1]
    <3>2. q \in Seq(Token) /\ Cat(buf, net) = Cat(w, q)
      BY <2>7, <2>8
    <3>3. buf \in Seq(Token) /\ net \in Seq(Token)
      BY <1>1
    <3>4. Framed(reader, buf) /\ Readable(reader, w)
      BY <1>2, <2>6, <3>1 DEF Readable
    <3> HIDE DEF q, w
    <3>5. /\ Taken(reader, buf) = w /\ Cat(Left(reader, buf), net) = q
          /\ q = <<>> => buf = w /\ net = <<>>
      BY <3>2, <3>3, <3>4, TakesTheMessage
    <3> QED  BY <3>5 DEF q, len, Taken, Left
  <2>10. x = w /\ Cat(buf', net) = rest[k + 1]
    <3>1. CASE reader = "rtsp"
      BY <3>1, <1>3, <2>9 DEF x
    <3>2. CASE reader # "rtsp"
      <4>1. n <= k + 1
        BY <3>2 DEF FramingInv, OneAtATime
      <4>2. n = k + 1
        BY <4>1, <2>5, <1>1
      <4>3. rest[k + 1] = <<>>
        BY <4>2, <2>3 DEF Splits
      <4>4. buf = w /\ net = <<>>
        BY <4>3, <2>9
      <4>5. x = w
        BY <4>4, <2>9 DEF x
      <4>6. Cat(buf', net) = <<>>
        BY <4>4, <3>2, <1>1, <1>3, CatType
      <4> QED  BY <4>3, <4>5, <4>6
    <3> QED  BY <3>1, <3>2
  <2>11. Splits(rest, Cat(buf', net), sent, k + 1)
    <3>1. \A j \in k + 1..n - 1 : j \in k..n - 1
      BY <1>1
    <3> QED  BY <3>1, <2>3, <2>10 DEF Splits
  <2> QED  BY <2>3, <2>5, <2>10, <2>11
<1>10. Conserved'
  BY <1>3, <1>6, <1>8, <1>9 DEF Conserved
<1>11. OneAtATime'
  BY <1>1, <1>3, <1>6 DEF FramingInv, OneAtATime
<1>12. ReadsAsSent'
  <2> SUFFICES ASSUME NEW i \in 1..k + 1, Understood(i)
               PROVE  i <= n /\ got'[i] = Bytes(i, sent[i])
    BY <1>3, <1>6, <1>8 DEF ReadsAsSent
  <2>1. CASE i = k + 1
    BY <2>1, <1>6, <1>9
  <2>2. CASE i # k + 1
    <3>1. i \in 1..k
      BY <2>2, <1>1
    <3> QED  BY <3>1, <1>6 DEF FramingInv, ReadsAsSent
  <2> QED  BY <2>1, <2>2
<1> QED  BY <1>7, <1>10, <1>11, <1>12 DEF FramingInv

LEMMA InitInv == Init => FramingInv
<1> SUFFICES ASSUME Init PROVE FramingInv
  OBVIOUS
<1>1. FramingTypeOK
  <2>1. <<>> \in Seq(Messages) /\ <<>> \in Seq(Token) /\ <<>> \in Seq(Seq(Token))
    OBVIOUS
  <2> QED  BY <2>1 DEF Init, FramingTypeOK
<1>2. Conserved
  <2> DEFINE rest == [j \in Nat |-> <<>>]
  <2>1. Len(sent) = 0 /\ Len(got) = 0
    BY DEF Init
  <2>2. rest \in [Nat -> Seq(Token)]
    OBVIOUS
  <2>3. Cat(buf, net) = <<>>
    BY <1>1, CatType DEF Init, FramingTypeOK
  <2>4. rest[0] = <<>>
    OBVIOUS
  <2> HIDE DEF rest
  <2>5. Splits(rest, Cat(buf, net), sent, Len(got))
    BY <2>1, <2>3, <2>4 DEF Splits
  <2> QED  BY <2>1, <2>2, <2>5 DEF Conserved
<1>3. OneAtATime /\ ReadsAsSent
  BY DEF Init, OneAtATime, ReadsAsSent
<1> QED  BY <1>1, <1>2, <1>3 DEF FramingInv

LEMMA NextInv == FramingInv /\ [Next]_vars => FramingInv'
<1> SUFFICES ASSUME FramingInv, [Next]_vars PROVE FramingInv'
  OBVIOUS
<1>0. FramingTypeOK
  BY DEF FramingInv
<1>1. CASE StartRead
  BY <1>0, <1>1, SameBytes DEF StartRead, FramingTypeOK
<1>2. CASE TakeMessage
  BY <1>2, TakeMessageInv
<1>3. CASE ReceiveSome
  BY <1>3, ReceiveInv DEF ReceiveSome
<1>4. CASE GiveUp
  BY <1>0, <1>4, SameBytes DEF GiveUp, FramingTypeOK
<1>5. CASE Cancel
  BY <1>0, <1>5, SameBytes DEF Cancel, FramingTypeOK
<1>6. CASE PeerCloses
  BY <1>0, <1>6, SameBytes DEF PeerCloses, FramingTypeOK
<1>7. CASE \E m \in Messages : PeerSends(m)
  BY <1>7, PeerSendsInv
<1>8. CASE UNCHANGED vars
  BY <1>0, <1>8, SameBytes DEF vars, FramingTypeOK
<1> QED  BY <1>1, <1>2, <1>3, <1>4, <1>5, <1>6, <1>7, <1>8 DEF Next

LEMMA Invariance == Spec => []FramingInv
BY InitInv, NextInv, PTL DEF Spec

-----------------------------------------------------------------------------
(* Theorems *)

(* Whatever a peer sends, buffer, connection and results hold tokens of    *)
(* messages, and what a reader cuts off its buffer lies within it.         *)
THEOREM FramingTypeCorrect == Spec => []FramingTypeOK
<1>1. FramingInv => FramingTypeOK
  BY DEF FramingInv
<1> QED  BY <1>1, Invariance, PTL

(* RtspConnection, read_http_response and recv_response leave the          *)
(* connection where the next message starts: what is in the buffer and on  *)
(* the way is what was sent and not returned, also when a read is          *)
(* cancelled halfway, as long as the lengths so far were understood.       *)
THEOREM NoByteLost == Spec => []Conserved
<1>1. FramingInv => Conserved
  BY DEF FramingInv
<1> QED  BY <1>1, Invariance, PTL

(* The messages the three readers return are those sent, in order and      *)
(* whole, in whatever pieces they arrive and whatever their bodies look    *)
(* like, as long as the reader understands how their length is written.    *)
THEOREM WholeMessages == Spec => []ReadsAsSent
<1>1. FramingInv => ReadsAsSent
  BY DEF FramingInv
<1> QED  BY <1>1, Invariance, PTL

=============================================================================
