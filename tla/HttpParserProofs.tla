-------------------------- MODULE HttpParserProofs --------------------------
(***************************************************************************)
(* Theorems about the parser and the formatter of Http, for every text and *)
(* every message: what parse can return, and that it undoes to_string.     *)
(*                                                                         *)
(* A text is shorter than npos, as every std::string is.                   *)
(***************************************************************************)
EXTENDS Http, TLAPS, FiniteSetTheorems, SequenceTheorems, WellFoundedInduction

-----------------------------------------------------------------------------
(* Induction on natural numbers, over sets.                                *)

\* A nonempty set of natural numbers has a least element.
LEMMA LeastElement ==
  ASSUME NEW T, T \subseteq Nat, T # {}
  PROVE  \E x \in T : \A y \in T : x <= y
<1> DEFINE R == {ss \in Nat \X Nat : ss[1] < ss[2]}
<1>1. IsWellFoundedOn(R, Nat)
  BY Zenon, NatLessThanWellFounded DEF OpToRel
<1>2. \A x, y \in Nat : y < x => <<y, x>> \in R
  OBVIOUS
<1> HIDE DEF R
<1>3. PICK x \in T : \A y \in T : ~(<<y, x>> \in R)
  BY <1>1, WFMin
<1>4. ASSUME NEW y \in T
      PROVE  x <= y
  <2>1. x \in Nat /\ y \in Nat /\ ~(<<y, x>> \in R)
    BY <1>3
  <2>2. ~(y < x)
    BY <1>2, <2>1
  <2>3. QED
    BY <2>1, <2>2
<1>5. QED
  BY <1>4

\* A set with 0, and with n + 1 whenever it has n, has every natural number.
LEMMA Induction ==
  ASSUME NEW S, 0 \in S, \A n \in Nat : n \in S => n + 1 \in S
  PROVE  \A n \in Nat : n \in S
<1> SUFFICES ASSUME NEW k \in Nat, k \notin S
             PROVE  FALSE
  OBVIOUS
<1> DEFINE T == {n \in Nat : n \notin S}
<1>1. PICK x \in T : \A y \in T : x <= y
  <2>1. k \in T
    OBVIOUS
  <2>2. QED
    BY <2>1, LeastElement
<1>2. x \in Nat /\ x # 0 /\ x \notin S
  OBVIOUS
<1>3. x - 1 \in Nat /\ x - 1 \in S
  BY <1>1, <1>2
<1>4. QED
  BY <1>2, <1>3

-----------------------------------------------------------------------------
(* std::string.                                                            *)

\* The text has the part at an offset when its characters are there.
LEMMA StartsWith ==
  ASSUME NEW text \in Text, NEW part \in Text, NEW i \in 0..Len(text)
  PROVE  starts_with(text, i, part) <=>
           /\ i + Len(part) <= Len(text)
           /\ \A j \in 1..Len(part) : text[i + j] = part[j]
<1> DEFINE rest == SubSeq(text, i + 1, Len(text))
<1>1. rest \in Seq(Char) /\ Len(rest) = Len(text) - i
  BY DEF Text
<1>2. \A j \in 1..Len(rest) : rest[j] = text[i + j]
  BY <1>1 DEF Text
<1> HIDE DEF rest
<1>3. CASE Len(part) > Len(rest)
  BY <1>1, <1>3 DEF starts_with, substr, IsPrefix, Text, rest
<1>4. CASE Len(part) <= Len(rest)
  <2>1. starts_with(text, i, part) <=> SubSeq(part, 1, Len(part)) = SubSeq(rest, 1, Len(part))
    BY <1>4 DEF starts_with, substr, IsPrefix, rest
  <2>2. SubSeq(part, 1, Len(part)) = part
    BY DEF Text
  <2> DEFINE cut == SubSeq(rest, 1, Len(part))
  <2>3. cut \in Seq(Char) /\ Len(cut) = Len(part) /\ \A j \in 1..Len(part) : cut[j] = rest[j]
    BY <1>1, <1>4 DEF Text
  <2> HIDE DEF cut
  <2>4. part = cut <=> \A j \in 1..Len(part) : part[j] = cut[j]
    BY <2>3 DEF Text
  <2>5. \A j \in 1..Len(part) : cut[j] = text[i + j]
    BY <1>1, <1>2, <1>4, <2>3 DEF Text
  <2>6. starts_with(text, i, part) <=> \A j \in 1..Len(part) : text[i + j] = part[j]
    BY <2>1, <2>2, <2>4, <2>5 DEF cut
  <2>7. QED
    BY <1>1, <1>4, <2>6 DEF Text
<1>5. QED
  BY <1>1, <1>3, <1>4 DEF Text

\* The parts that the parser looks for.
LEMMA Parts ==
  /\ Space \in Text /\ Len(Space) = 1 /\ Space[1] = "SP"
  /\ Colon \in Text /\ Len(Colon) = 1 /\ Colon[1] = ":"
  /\ crlf \in Text /\ Len(crlf) = 2 /\ crlf[1] = "CR" /\ crlf[2] = "LF"
<1>1. Space \in Text /\ Colon \in Text /\ crlf \in Text
  BY CharAssumption
<1>2. QED
  BY <1>1 DEF Space, Colon, crlf

\* A colon at the end of a line, as three characters.
LEMMA ColonCrlf ==
  /\ Colon \o crlf \in Text /\ Len(Colon \o crlf) = 3
  /\ (Colon \o crlf)[1] = ":" /\ (Colon \o crlf)[2] = "CR" /\ (Colon \o crlf)[3] = "LF"
<1>1. Colon \in Seq(Char) /\ crlf \in Seq(Char)
  BY Parts DEF Text
<1>2. /\ Colon \o crlf \in Seq(Char)
      /\ Len(Colon \o crlf) = Len(Colon) + Len(crlf)
      /\ \A i \in 1..Len(Colon) + Len(crlf) :
           (Colon \o crlf)[i] = IF i <= Len(Colon) THEN Colon[i] ELSE crlf[i - Len(Colon)]
  BY <1>1, ConcatProperties
<1>3. /\ (Colon \o crlf)[1] = Colon[1] /\ (Colon \o crlf)[2] = crlf[1]
      /\ (Colon \o crlf)[3] = crlf[2]
  BY <1>2, Parts
<1>4. QED
  BY <1>2, <1>3, Parts DEF Text

\* A space at a place.
LEMMA StartsWithSpace ==
  ASSUME NEW text \in Text, NEW i \in 0..Len(text)
  PROVE  starts_with(text, i, Space) <=> i < Len(text) /\ text[i + 1] = "SP"
<1>1. starts_with(text, i, Space) <=>
        i + Len(Space) <= Len(text) /\ \A j \in 1..Len(Space) : text[i + j] = Space[j]
  BY Parts, StartsWith
<1>2. Len(Space) = 1 /\ Space[1] = "SP"
  BY Parts
<1>3. i \in Nat /\ Len(text) \in Nat
  BY DEF Text
<1>4. (\A j \in 1..Len(Space) : text[i + j] = Space[j]) <=> text[i + 1] = "SP"
  BY <1>2, <1>3
<1>5. i + Len(Space) <= Len(text) <=> i < Len(text)
  BY <1>2, <1>3
<1>6. QED
  BY <1>1, <1>4, <1>5

\* A colon at a place.
LEMMA StartsWithColon ==
  ASSUME NEW text \in Text, NEW i \in 0..Len(text)
  PROVE  starts_with(text, i, Colon) <=> i < Len(text) /\ text[i + 1] = ":"
<1>1. starts_with(text, i, Colon) <=>
        i + Len(Colon) <= Len(text) /\ \A j \in 1..Len(Colon) : text[i + j] = Colon[j]
  BY Parts, StartsWith
<1>2. Len(Colon) = 1 /\ Colon[1] = ":"
  BY Parts
<1>3. i \in Nat /\ Len(text) \in Nat
  BY DEF Text
<1>4. (\A j \in 1..Len(Colon) : text[i + j] = Colon[j]) <=> text[i + 1] = ":"
  BY <1>2, <1>3
<1>5. i + Len(Colon) <= Len(text) <=> i < Len(text)
  BY <1>2, <1>3
<1>6. QED
  BY <1>1, <1>4, <1>5

\* A line end at a place.
LEMMA StartsWithCrlf ==
  ASSUME NEW text \in Text, NEW i \in 0..Len(text)
  PROVE  starts_with(text, i, crlf) <=> 
           i + 1 < Len(text) /\ text[i + 1] = "CR" /\ text[i + 2] = "LF"
<1>1. starts_with(text, i, crlf) <=>
        i + Len(crlf) <= Len(text) /\ \A j \in 1..Len(crlf) : text[i + j] = crlf[j]
  BY Parts, StartsWith
<1>2. Len(crlf) = 2 /\ crlf[1] = "CR" /\ crlf[2] = "LF"
  BY Parts
<1>3. i \in Nat /\ Len(text) \in Nat
  BY DEF Text
<1>4. (\A j \in 1..Len(crlf) : text[i + j] = crlf[j]) <=> text[i + 1] = "CR" /\ text[i + 2] = "LF"
  BY <1>2, <1>3
<1>5. i + Len(crlf) <= Len(text) <=> i + 1 < Len(text)
  BY <1>2, <1>3
<1>6. QED
  BY <1>1, <1>4, <1>5

\* find returns the first place of the part, or npos when there is none.
LEMMA Find ==
  ASSUME NEW text \in Text, NEW part \in Text, NEW start \in Nat
  PROVE  \/ /\ find(text, part, start) = npos
            /\ \A i \in start..Len(text) - Len(part) : ~starts_with(text, i, part)
         \/ /\ find(text, part, start) \in start..Len(text) - Len(part)
            /\ starts_with(text, find(text, part, start), part)
            /\ \A i \in start..find(text, part, start) - 1 : ~starts_with(text, i, part)
<1> DEFINE found == {i \in start..Len(text) - Len(part) : starts_with(text, i, part)}
<1>0. Len(text) \in Nat /\ Len(part) \in Nat
  BY DEF Text
<1>1. CASE found = {}
  BY <1>1 DEF find
<1>2. CASE found # {}
  <2>1. find(text, part, start) = Min(found)
    BY <1>2 DEF find
  <2>2. found \subseteq Nat
    BY <1>0
  <2>3. \E x \in found : \A y \in found : x =< y
    BY <1>2, <2>2, LeastElement
  <2>4. Min(found) \in found /\ \A y \in found : Min(found) =< y
    BY <2>3 DEF Min
  <2>5. QED
    BY <1>0, <2>1, <2>2, <2>4
<1>3. QED
  BY <1>1, <1>2

-----------------------------------------------------------------------------
(* A line of a header.                                                     *)

\* The first crlf from the offset on is at end, the first colon at colon.
LineAt(text, offset, colon, end) ==
  /\ colon \in offset..end - 1 /\ end + 2 <= Len(text)
  /\ starts_with(text, end, crlf) /\ \A i \in offset..end - 1 : ~starts_with(text, i, crlf)
  /\ starts_with(text, colon, Colon) /\ \A i \in offset..colon - 1 : ~starts_with(text, i, Colon)

\* What try_get_header makes of it.
HeaderAt(text, offset, colon, end) ==
  Found([name |-> SubSeq(text, offset + 1, colon),
         value |-> SubSeq(text, colon + 3, IF colon + 1 = end THEN Len(text) ELSE end)],
        end + 2)

\* No line ends, or begins with a colon, after the offset.
NoLineAt(text, offset) ==
  \A colon, end \in Nat : ~LineAt(text, offset, colon, end)

\* try_get_header finds the line, when there is one, and fails when there is none.
LEMMA TryGetHeader ==
  ASSUME NEW text \in Text, Len(text) < npos, NEW offset \in Nat
  PROVE  \/ /\ try_get_header(text, offset) = Fails("parse_error_headers")
            /\ NoLineAt(text, offset)
         \/ \E colon, end \in Nat :
              /\ LineAt(text, offset, colon, end)
              /\ try_get_header(text, offset) = HeaderAt(text, offset, colon, end)
<1> DEFINE end == find(text, crlf, offset)
           colon == find(text, Colon, offset)
<1>1. Len(text) \in Nat /\ SizeMod \in Nat /\ npos = SizeMod - 1 /\ Len(text) + 1 < SizeMod
  BY SizeModAssumption DEF Text, npos
<1>2. \/ end = npos /\ \A i \in offset..Len(text) - 2 : ~starts_with(text, i, crlf)
      \/ /\ end \in offset..Len(text) - 2 /\ starts_with(text, end, crlf)
         /\ \A i \in offset..end - 1 : ~starts_with(text, i, crlf)
  BY Find, Parts
<1>3. \/ colon = npos /\ \A i \in offset..Len(text) - 1 : ~starts_with(text, i, Colon)
      \/ /\ colon \in offset..Len(text) - 1 /\ starts_with(text, colon, Colon)
         /\ \A i \in offset..colon - 1 : ~starts_with(text, i, Colon)
  BY Find, Parts
<1>4. try_get_header(text, offset) =
        IF colon = npos \/ end = npos \/ colon > end THEN Fails("parse_error_headers")
        ELSE Found([name |-> Copy(text, offset, colon - offset),
                    value |-> Copy(text, colon + 2, end - (colon + 2))],
                   end + Len(crlf))
  BY DEF try_get_header
<1> HIDE DEF end, colon
<1>5. CASE colon = npos \/ end = npos \/ colon > end
  <2>1. ASSUME NEW c \in Nat, NEW e \in Nat, LineAt(text, offset, c, e)
        PROVE  FALSE
    <3>1. /\ c \in offset..Len(text) - 1 /\ e \in offset..Len(text) - 2 /\ c < e
          /\ starts_with(text, c, Colon) /\ starts_with(text, e, crlf)
          /\ \A i \in offset..c - 1 : ~starts_with(text, i, Colon)
          /\ \A i \in offset..e - 1 : ~starts_with(text, i, crlf)
      BY <1>1, <2>1 DEF LineAt
    <3>2. end # npos /\ colon # npos
      BY <1>2, <1>3, <3>1
    <3>3. colon = c
      BY <1>1, <1>3, <3>1, <3>2
    <3>4. end = e
      BY <1>1, <1>2, <3>1, <3>2
    <3>5. QED
      BY <1>5, <3>1, <3>2, <3>3, <3>4
  <2>2. QED
    BY <1>4, <1>5, <2>1 DEF NoLineAt
<1>6. CASE ~(colon = npos \/ end = npos \/ colon > end)
  <2>1. /\ end \in offset..Len(text) - 2 /\ starts_with(text, end, crlf)
        /\ colon \in offset..end /\ starts_with(text, colon, Colon)
    BY <1>1, <1>2, <1>3, <1>6
  <2>2. colon # end
    <3>1. text[colon + 1] = ":" /\ text[end + 1] = "CR"
      BY <1>1, <2>1, StartsWithColon, StartsWithCrlf
    <3>2. QED
      BY <3>1
  <2>3. LineAt(text, offset, colon, end)
    BY <1>1, <1>2, <1>3, <1>6, <2>1, <2>2 DEF LineAt
  <2>4. Copy(text, offset, colon - offset) = SubSeq(text, offset + 1, colon)
    <3>1. (colon - offset) % SizeMod = colon - offset
      BY <1>1, <2>1
    <3>2. Min({offset + (colon - offset), Len(text)}) = colon
      BY <1>1, <2>1 DEF Min
    <3>3. QED
      BY <3>1, <3>2 DEF Copy
  <2>5. Copy(text, colon + 2, end - (colon + 2)) =
          SubSeq(text, colon + 3, IF colon + 1 = end THEN Len(text) ELSE end)
    <3>0. /\ (colon + 2) + 1 = colon + 3
          /\ Copy(text, colon + 2, end - (colon + 2)) =
               SubSeq(text, (colon + 2) + 1,
                      Min({(colon + 2) + ((end - (colon + 2)) % SizeMod), Len(text)}))
      BY <1>1, <2>1 DEF Copy
    <3>1. CASE colon + 1 = end
      <4>1. (end - (colon + 2)) % SizeMod = SizeMod - 1
        BY <1>1, <2>1, <3>1
      <4>2. Min({(colon + 2) + (SizeMod - 1), Len(text)}) = Len(text)
        BY <1>1, <2>1 DEF Min
      <4>3. QED
        BY <3>0, <3>1, <4>1, <4>2
    <3>2. CASE colon + 1 # end
      <4>1. (end - (colon + 2)) % SizeMod = end - (colon + 2)
        BY <1>1, <2>1, <2>2, <3>2
      <4>2. Min({(colon + 2) + (end - (colon + 2)), Len(text)}) = end
        BY <1>1, <2>1 DEF Min
      <4>3. QED
        BY <3>0, <3>2, <4>1, <4>2
    <3>3. QED
      BY <3>1, <3>2
  <2>6. try_get_header(text, offset) = HeaderAt(text, offset, colon, end)
    BY <1>4, <1>6, <2>4, <2>5, Parts DEF HeaderAt
  <2>7. colon \in Nat /\ end \in Nat
    BY <1>1, <2>1
  <2>8. QED
    BY <2>3, <2>6, <2>7
<1>7. QED
  BY <1>5, <1>6

\* A header that is there ends behind the offset, within the text.
LEMMA TryGetHeaderOffset ==
  ASSUME NEW text \in Text, Len(text) < npos, NEW offset \in Nat,
         try_get_header(text, offset).error = "success"
  PROVE  /\ try_get_header(text, offset).offset \in Nat
         /\ try_get_header(text, offset).offset > offset
         /\ try_get_header(text, offset).offset <= Len(text)
<1>1. try_get_header(text, offset) # Fails("parse_error_headers")
  BY DEF Fails
<1>2. PICK colon, end \in Nat : /\ LineAt(text, offset, colon, end)
                                /\ try_get_header(text, offset) = HeaderAt(text, offset, colon, end)
  BY <1>1, TryGetHeader
<1>3. try_get_header(text, offset).offset = end + 2
  BY <1>2 DEF HeaderAt, Found
<1>4. end \in Nat /\ end > offset /\ end + 2 <= Len(text)
  BY <1>2 DEF LineAt
<1>5. QED
  BY <1>3, <1>4 DEF Text

-----------------------------------------------------------------------------
(* All the headers.                                                        *)

\* The loop of try_get_headers: each line comes before those that follow it.
LEMMA TryGetHeaders ==
  ASSUME NEW text \in Text, Len(text) < npos, NEW offset \in Nat
  PROVE  try_get_headers(text, offset) =
           IF offset >= Len(text) THEN Found(NoHeaders, offset)
           ELSE IF starts_with(text, offset, crlf) THEN Found(NoHeaders, offset + Len(crlf))
           ELSE LET r == try_get_header(text, offset)
                    later == try_get_headers(text, r.offset)
                IN IF r.error # "success" THEN r
                   ELSE IF later.error # "success" THEN later
                   ELSE Found(Before(r.value, later.value), later.offset)
<1> DEFINE Header(o) == try_get_header(text, o)
           Step(f, o) ==
             IF o >= Len(text) THEN Found(NoHeaders, o)
             ELSE IF starts_with(text, o, crlf) THEN Found(NoHeaders, o + Len(crlf))
             ELSE IF Header(o).error = "success"
             THEN IF f[Header(o).offset].error = "success"
                  THEN Found(Before(Header(o).value, f[Header(o).offset].value),
                             f[Header(o).offset].offset)
                  ELSE f[Header(o).offset]
             ELSE Header(o)
           from == CHOOSE f : f = [o \in Nat |-> Step(f, o)]
<1>1. \A start : try_get_headers(text, start) = from[start]
  BY DEF try_get_headers, Then
<1>2. \A o \in Nat : Header(o).error = "success" =>
        /\ Header(o).offset \in Nat /\ Header(o).offset > o /\ Header(o).offset <= Len(text)
  BY TryGetHeaderOffset
<1> HIDE DEF Header
<1>3. ASSUME NEW f, NEW g, NEW o \in Nat,
             \A n \in Nat : n > o /\ n <= Len(text) => f[n] = g[n]
      PROVE  Step(f, o) = Step(g, o)
  BY <1>2, <1>3
<1> HIDE DEF Step
<1> DEFINE S == {d \in Nat : \E f : \A o \in Nat : Len(text) - o < d => f[o] = Step(f, o)}
<1>4. \A d \in Nat : d \in S
  <2>1. 0 \in S
    <3> DEFINE f == [o \in Nat |-> Step(<<>>, o)]
    <3>1. ASSUME NEW o \in Nat, Len(text) - o < 0
          PROVE  f[o] = Step(f, o)
      <4>1. Step(<<>>, o) = Step(f, o)
        <5>1. \A n \in Nat : ~(n > o /\ n <= Len(text))
          BY <3>1 DEF Text
        <5>2. QED
          BY <1>3, <5>1
      <4>2. QED
        BY <4>1
    <3>2. QED
      BY <3>1
  <2>2. ASSUME NEW d \in Nat, d \in S
        PROVE  d + 1 \in S
    <3>1. PICK f : \A o \in Nat : Len(text) - o < d => f[o] = Step(f, o)
      BY <2>2
    <3> DEFINE g == [o \in Nat |-> Step(f, o)]
    <3>2. ASSUME NEW o \in Nat, Len(text) - o < d + 1
          PROVE  g[o] = Step(g, o)
      <4>1. \A n \in Nat : n > o => g[n] = f[n]
        BY <3>1, <3>2 DEF Text
      <4>2. Step(f, o) = Step(g, o)
        BY <1>3, <4>1
      <4>3. QED
        BY <4>2
    <3>3. \A o \in Nat : Len(text) - o < d + 1 => g[o] = Step(g, o)
      BY <3>2
    <3> HIDE DEF g
    <3>4. QED
      BY <3>3
  <2> HIDE DEF S
  <2>3. QED
    BY <2>1, <2>2, Induction
<1>5. from = [o \in Nat |-> Step(from, o)]
  <2>1. Len(text) + 1 \in S
    BY <1>4 DEF Text
  <2>2. PICK f : \A o \in Nat : Len(text) - o < Len(text) + 1 => f[o] = Step(f, o)
    BY <2>1
  <2> DEFINE g == [o \in Nat |-> Step(f, o)]
  <2>3. \A o \in Nat : f[o] = g[o]
    BY <2>2 DEF Text
  <2>4. \A o \in Nat : Step(f, o) = Step(g, o)
    BY <1>3, <2>3
  <2>5. g = [o \in Nat |-> Step(g, o)]
    BY <2>4
  <2>6. QED
    BY <2>5
<1>6. from[offset] = Step(from, offset)
  BY <1>5
<1> HIDE DEF from
<1>7. QED
  BY <1>1, <1>6 DEF Step, Header

\* What a part of a text holds, the text holds.
LEMMA HoldsPart ==
  ASSUME NEW text \in Text, NEW part \in Text,
         NEW a \in 0..Len(text), NEW b \in a..Len(text),
         Holds(SubSeq(text, a + 1, b), part)
  PROVE  \E i \in a..b - Len(part) : starts_with(text, i, part)
<1> DEFINE cut == SubSeq(text, a + 1, b)
<1>1. Len(text) \in Nat /\ a \in Nat /\ b \in Nat /\ Len(part) \in Nat
  BY DEF Text
<1>2. cut \in Text /\ Len(cut) = b - a /\ \A j \in 1..b - a : cut[j] = text[a + j]
  BY <1>1 DEF Text
<1> HIDE DEF cut
<1>3. PICK i \in 0..Len(cut) : starts_with(cut, i, part)
  BY DEF Holds, cut
<1>4. i + Len(part) <= b - a /\ \A j \in 1..Len(part) : cut[i + j] = part[j]
  BY <1>2, <1>3, StartsWith
<1>5. \A j \in 1..Len(part) : text[(a + i) + j] = part[j]
  BY <1>1, <1>2, <1>4
<1>6. a + i \in 0..Len(text) /\ (a + i) + Len(part) <= b /\ b <= Len(text)
  BY <1>1, <1>2, <1>4
<1>7. starts_with(text, a + i, part)
  BY <1>1, <1>5, <1>6, StartsWith
<1>8. QED
  BY <1>1, <1>6, <1>7

\* The name of a header has no colon and is of one line; so is the value, unless its
\* length wraps.
HeaderInLine(text, name, value) ==
  /\ name \in Text /\ value \in Text
  /\ ~Holds(name, Colon) /\ ~Holds(name, crlf)
  /\ ~Holds(value, crlf) \/ RunsOn(text, value)

\* What try_get_header finds is a header in its line.
LEMMA LineIsHeader ==
  ASSUME NEW text \in Text, NEW offset \in Nat, NEW colon \in Nat, NEW end \in Nat,
         LineAt(text, offset, colon, end)
  PROVE  HeaderInLine(text, HeaderAt(text, offset, colon, end).value.name,
                            HeaderAt(text, offset, colon, end).value.value)
<1> DEFINE name == SubSeq(text, offset + 1, colon)
           value == SubSeq(text, colon + 3, IF colon + 1 = end THEN Len(text) ELSE end)
<1>1. /\ Len(text) \in Nat /\ offset <= colon /\ colon < end /\ end + 2 <= Len(text)
      /\ starts_with(text, colon, Colon) /\ starts_with(text, end, crlf)
      /\ \A i \in offset..colon - 1 : ~starts_with(text, i, Colon)
      /\ \A i \in offset..end - 1 : ~starts_with(text, i, crlf)
  BY DEF LineAt, Text
<1>2. name \in Text /\ value \in Text
  BY <1>1 DEF Text
<1>3. ~Holds(name, Colon) /\ ~Holds(name, crlf)
  <2>1. offset \in 0..Len(text) /\ colon \in offset..Len(text)
    BY <1>1
  <2>2. ASSUME Holds(name, Colon)
        PROVE  FALSE
    <3>1. \E i \in offset..colon - Len(Colon) : starts_with(text, i, Colon)
      BY <2>1, <2>2, HoldsPart, Parts
    <3>2. QED
      BY <1>1, <3>1, Parts
  <2>3. ASSUME Holds(name, crlf)
        PROVE  FALSE
    <3>1. PICK i \in offset..colon - Len(crlf) : starts_with(text, i, crlf)
      BY <2>1, <2>3, HoldsPart, Parts
    <3>2. i \in offset..end - 1
      BY <1>1, Parts
    <3>3. QED
      BY <1>1, <3>1, <3>2
  <2>4. QED
    BY <2>2, <2>3
<1>4. CASE colon + 1 = end
  <2>3. text[colon + 1] = ":" /\ text[colon + 2] = "CR" /\ text[colon + 3] = "LF"
    <3>1. text[colon + 1] = ":"
      BY <1>1, StartsWithColon
    <3>2. text[end + 1] = "CR" /\ text[end + 2] = "LF"
      BY <1>1, StartsWithCrlf
    <3>3. end + 1 = colon + 2 /\ end + 2 = colon + 3
      BY <1>4
    <3>4. QED
      BY <3>1, <3>2, <3>3
  <2>4. \A j \in 1..3 : text[colon + j] = (Colon \o crlf)[j]
    <3>1. \A j \in 1..3 : j = 1 \/ j = 2 \/ j = 3
      OBVIOUS
    <3>2. QED
      BY <2>3, <3>1, ColonCrlf
  <2>5. starts_with(text, colon, Colon \o crlf)
    <3>1. colon \in 0..Len(text) /\ colon + 3 <= Len(text)
      BY <1>1, <1>4
    <3>2. QED
      BY <2>4, <3>1, ColonCrlf, StartsWith
  <2>6. value = substr(text, colon + 2)
    <3>1. (colon + 2) + 1 = colon + 3
      OBVIOUS
    <3>2. QED
      BY <1>4, <3>1 DEF substr
  <2>7. RunsOn(text, value)
    BY <1>1, <2>5, <2>6 DEF RunsOn
  <2>8. QED
    BY <1>2, <1>3, <2>7 DEF HeaderInLine, HeaderAt, Found
<1>5. CASE colon + 1 # end
  <2>1. colon + 2 \in 0..Len(text) /\ end \in colon + 2..Len(text) /\ (colon + 2) + 1 = colon + 3
    BY <1>1, <1>5
  <2>2. ASSUME Holds(value, crlf)
        PROVE  FALSE
    <3>1. Holds(SubSeq(text, (colon + 2) + 1, end), crlf)
      BY <1>5, <2>1, <2>2
    <3>2. PICK i \in colon + 2..end - Len(crlf) : starts_with(text, i, crlf)
      BY <2>1, <3>1, HoldsPart, Parts
    <3>3. i \in offset..end - 1
      BY <1>1, Parts
    <3>4. QED
      BY <1>1, <3>2, <3>3
  <2>3. QED
    BY <1>2, <1>3, <2>2 DEF HeaderInLine, HeaderAt, Found
<1>6. QED
  BY <1>4, <1>5

\* What the headers of a text can be.
HeadersFrom(text, offset, r) ==
  \/ r = Fails("parse_error_headers")
  \/ /\ r = Found(r.value, r.offset)
     /\ r.offset \in Nat /\ r.offset >= offset
     /\ \A name \in DOMAIN r.value : HeaderInLine(text, name, r.value[name])

\* A header before others is one of them.
LEMMA BeforeInLine ==
  ASSUME NEW text, NEW header, NEW later,
         HeaderInLine(text, header.name, header.value),
         \A name \in DOMAIN later : HeaderInLine(text, name, later[name])
  PROVE  \A name \in DOMAIN Before(header, later) :
           HeaderInLine(text, name, Before(header, later)[name])
  BY DEF Before

\* Either a line is no header, or every header is in its line.
LEMMA ParsedHeaders ==
  ASSUME NEW text \in Text, Len(text) < npos, NEW offset \in Nat
  PROVE  HeadersFrom(text, offset, try_get_headers(text, offset))
<1> DEFINE Good(o) == HeadersFrom(text, o, try_get_headers(text, o))
           S == {d \in Nat : \A o \in Nat : Len(text) - o < d => Good(o)}
<1>1. ASSUME NEW o \in Nat,
             \A n \in Nat : n > o /\ n <= Len(text) => Good(n)
      PROVE  Good(o)
  <2> DEFINE r == try_get_header(text, o)
             later == try_get_headers(text, r.offset)
  <2>1. CASE o >= Len(text) \/ starts_with(text, o, crlf)
    <3>1. \/ try_get_headers(text, o) = Found(NoHeaders, o)
          \/ try_get_headers(text, o) = Found(NoHeaders, o + Len(crlf))
      BY <2>1, TryGetHeaders
    <3>2. DOMAIN NoHeaders = {} /\ NoHeaders = [name \in {} |-> NoHeaders[name]] /\ o + Len(crlf) = o + 2
      BY Parts DEF NoHeaders
    <3>3. QED
      BY <3>1, <3>2 DEF HeadersFrom, Found
  <2>2. CASE /\ ~(o >= Len(text) \/ starts_with(text, o, crlf))
             /\ r.error # "success"
    <3>1. try_get_headers(text, o) = r
      BY <2>2, TryGetHeaders
    <3>2. r = Fails("parse_error_headers")
      BY <2>2, TryGetHeader DEF HeaderAt, Found
    <3>3. QED
      BY <3>1, <3>2 DEF HeadersFrom
  <2>3. CASE /\ ~(o >= Len(text) \/ starts_with(text, o, crlf))
             /\ r.error = "success"
    <3>1. r.offset \in Nat /\ r.offset > o /\ r.offset <= Len(text)
      BY <2>3, TryGetHeaderOffset
    <3>2. HeadersFrom(text, r.offset, later)
      BY <1>1, <3>1
    <3>3. try_get_headers(text, o) =
            IF later.error # "success" THEN later
            ELSE Found(Before(r.value, later.value), later.offset)
      BY <2>3, TryGetHeaders
    <3>4. CASE later.error # "success"
      <4>1. later = Fails("parse_error_headers")
        BY <3>2, <3>4 DEF HeadersFrom, Found
      <4>2. QED
        BY <3>3, <3>4, <4>1 DEF HeadersFrom
    <3>5. CASE later.error = "success"
      <4>1. /\ later.offset \in Nat /\ later.offset >= r.offset
            /\ \A name \in DOMAIN later.value : HeaderInLine(text, name, later.value[name])
        BY <3>2, <3>5 DEF HeadersFrom, Fails
      <4>2. HeaderInLine(text, r.value.name, r.value.value)
        <5>1. PICK colon, end \in Nat : /\ LineAt(text, o, colon, end)
                                        /\ r = HeaderAt(text, o, colon, end)
          BY <2>3, TryGetHeader DEF Fails
        <5>2. QED
          BY <5>1, LineIsHeader
      <4> DEFINE all == Before(r.value, later.value)
      <4>3. \A name \in DOMAIN all : HeaderInLine(text, name, all[name])
        BY <4>1, <4>2, BeforeInLine
      <4>4. try_get_headers(text, o) = Found(all, later.offset)
        BY <3>3, <3>5
      <4>5. later.offset >= o
        BY <3>1, <4>1
      <4> HIDE DEF all, later
      <4>6. QED
        BY <4>1, <4>3, <4>4, <4>5 DEF HeadersFrom, Found
    <3>6. QED
      BY <3>4, <3>5
  <2>4. QED
    BY <2>1, <2>2, <2>3
<1> HIDE DEF Good
<1>2. \A d \in Nat : d \in S
  <2>1. 0 \in S
    <3>1. ASSUME NEW o \in Nat, Len(text) - o < 0
          PROVE  Good(o)
      <4>1. \A n \in Nat : ~(n > o /\ n <= Len(text))
        BY <3>1 DEF Text
      <4>2. QED
        BY <1>1, <4>1
    <3>2. QED
      BY <3>1
  <2>2. ASSUME NEW d \in Nat, d \in S
        PROVE  d + 1 \in S
    <3>1. ASSUME NEW o \in Nat, Len(text) - o < d + 1
          PROVE  Good(o)
      <4>1. \A n \in Nat : n > o => Good(n)
        BY <2>2, <3>1 DEF Text
      <4>2. QED
        BY <1>1, <4>1
    <3>2. QED
      BY <3>1
  <2> HIDE DEF S
  <2>3. QED
    BY <2>1, <2>2, Induction
<1>3. Len(text) + 1 \in S
  BY <1>2 DEF Text
<1>4. Good(offset)
  BY <1>3 DEF Text
<1>5. QED
  BY <1>4 DEF Good

-----------------------------------------------------------------------------
(* The first line.                                                         *)

\* The strings of the methods, of the versions and of the statuses: one character each.
IsStrings(strings) ==
  \A key \in DOMAIN strings : strings[key] \in Text /\ Len(strings[key]) = 1

\* The strings of the methods, versions and statuses are one character each.
LEMMA StringsAreCharacters ==
  /\ IsStrings(http_method_strings)
  /\ IsStrings(http_version_strings)
  /\ IsStrings(http_status_strings)
<1>1. /\ \A key \in DOMAIN http_method_strings : http_method_strings[key] \in Text
      /\ \A key \in DOMAIN http_version_strings : http_version_strings[key] \in Text
      /\ \A key \in DOMAIN http_status_strings : http_status_strings[key] \in Text
  BY CharAssumption
<1>2. \A key \in DOMAIN http_method_strings : Len(http_method_strings[key]) = 1
  BY DEF http_method_strings
<1>3. \A key \in DOMAIN http_version_strings : Len(http_version_strings[key]) = 1
  BY DEF http_version_strings
<1>4. \A key \in DOMAIN http_status_strings : Len(http_status_strings[key]) = 1
  BY DEF http_status_strings
<1>5. QED
  BY <1>1, <1>2, <1>3, <1>4 DEF IsStrings

\* The key of one of them is at the offset.
KeyAt(strings, text, offset, key) ==
  key \in DOMAIN strings /\ offset < Len(text) /\ text[offset + 1] = strings[key][1]

\* A key is found where it is, and nothing is found where there is none.
LEMMA LiteralAt ==
  ASSUME NEW strings, IsStrings(strings), NEW text \in Text, NEW offset \in Nat, NEW error
  PROVE  \/ /\ offset > Len(text)
            /\ Literal(strings, text, offset, error) = Fails("out_of_range")
         \/ /\ offset <= Len(text)
            /\ \A key : ~KeyAt(strings, text, offset, key)
            /\ Literal(strings, text, offset, error) = Fails(error)
         \/ /\ offset < Len(text)
            /\ \E key : /\ KeyAt(strings, text, offset, key)
                        /\ Literal(strings, text, offset, error) = Found(key, offset + 1)
<1> DEFINE found == {k \in DOMAIN strings : starts_with(text, offset, strings[k])}
           key == CHOOSE k \in found : TRUE
<1>1. Literal(strings, text, offset, error) =
        IF offset > Len(text) THEN Fails("out_of_range")
        ELSE IF found = {} THEN Fails(error)
        ELSE Found(key, offset + Len(strings[key]))
  BY DEF Literal
<1>2. Len(text) \in Nat
  BY DEF Text
<1>3. ASSUME offset <= Len(text), NEW k \in DOMAIN strings
      PROVE  starts_with(text, offset, strings[k]) <=> KeyAt(strings, text, offset, k)
  <2>1. strings[k] \in Text /\ Len(strings[k]) = 1
    BY DEF IsStrings
  <2>2. starts_with(text, offset, strings[k]) <=>
          /\ offset + Len(strings[k]) <= Len(text)
          /\ \A j \in 1..Len(strings[k]) : text[offset + j] = strings[k][j]
    <3> DEFINE part == strings[k]
    <3>1. part \in Text /\ offset \in 0..Len(text)
      BY <1>2, <1>3, <2>1
    <3> HIDE DEF part
    <3>2. starts_with(text, offset, part) <=>
            /\ offset + Len(part) <= Len(text)
            /\ \A j \in 1..Len(part) : text[offset + j] = part[j]
      BY <3>1, StartsWith
    <3>3. QED
      BY <3>2 DEF part
  <2>3. (\A j \in 1..Len(strings[k]) : text[offset + j] = strings[k][j]) <=>
          text[offset + 1] = strings[k][1]
    BY <2>1
  <2>4. offset + Len(strings[k]) <= Len(text) <=> offset < Len(text)
    BY <1>2, <2>1
  <2>5. QED
    BY <2>2, <2>3, <2>4 DEF KeyAt
<1>4. CASE offset > Len(text)
  BY <1>1, <1>4
<1>5. CASE offset <= Len(text) /\ found = {}
  BY <1>1, <1>2, <1>3, <1>5 DEF KeyAt
<1>6. CASE offset <= Len(text) /\ found # {}
  <2>1. key \in found
    BY <1>6
  <2>2. Len(strings[key]) = 1
    BY <2>1 DEF IsStrings
  <2>3. KeyAt(strings, text, offset, key)
    BY <1>3, <1>6, <2>1
  <2> HIDE DEF key
  <2>4. Literal(strings, text, offset, error) = Found(key, offset + 1)
    BY <1>1, <1>2, <1>6, <2>2
  <2>5. QED
    BY <2>3, <2>4 DEF KeyAt
<1>7. QED
  BY <1>2, <1>4, <1>5, <1>6

\* A uri from the offset on ends at the first space.
UriAt(text, offset, end) ==
  /\ end \in offset + 1..Len(text) - 1
  /\ text[offset + 1] = "/"
  /\ text[end + 1] = "SP" /\ \A i \in offset..end - 1 : text[i + 1] # "SP"

\* A uri is found where it is, and nothing is found where there is none.
LEMMA TryGetUri ==
  ASSUME NEW text \in Text, Len(text) < npos, NEW offset \in Nat
  PROVE  \/ /\ offset >= Len(text)
            /\ try_get_uri(text, offset) = Fails("out_of_range")
         \/ /\ offset < Len(text)
            /\ \A end \in Nat : ~UriAt(text, offset, end)
            /\ try_get_uri(text, offset) = Fails("parse_error_uri")
         \/ /\ offset < Len(text)
            /\ \E end \in Nat :
                 /\ UriAt(text, offset, end)
                 /\ try_get_uri(text, offset) = Found(SubSeq(text, offset + 1, end), end)
<1> DEFINE end == find(text, Space, offset)
<1>1. Len(text) \in Nat /\ SizeMod \in Nat /\ npos = SizeMod - 1 /\ Len(text) + 1 < SizeMod
  BY SizeModAssumption DEF Text, npos
<1>2. \A i \in 0..Len(text) - 1 : starts_with(text, i, Space) <=> text[i + 1] = "SP"
  BY <1>1, StartsWithSpace
<1>3. \/ end = npos /\ \A i \in offset..Len(text) - 1 : ~starts_with(text, i, Space)
      \/ /\ end \in offset..Len(text) - 1 /\ starts_with(text, end, Space)
         /\ \A i \in offset..end - 1 : ~starts_with(text, i, Space)
  BY Find, Parts
<1>4. try_get_uri(text, offset) =
        IF offset >= Len(text) THEN Fails("out_of_range")
        ELSE IF text[offset + 1] # "/" \/ end = npos THEN Fails("parse_error_uri")
        ELSE Found(SubSeq(text, offset + 1, end), end)
  BY DEF try_get_uri
<1> HIDE DEF end
<1>5. CASE offset >= Len(text)
  BY <1>4, <1>5
<1>6. CASE offset < Len(text) /\ (text[offset + 1] # "/" \/ end = npos)
  <2>1. ASSUME NEW e \in Nat, UriAt(text, offset, e)
        PROVE  FALSE
    <3>1. e \in offset..Len(text) - 1 /\ text[e + 1] = "SP" /\ text[offset + 1] = "/"
      BY <1>1, <2>1 DEF UriAt
    <3>2. end = npos
      BY <1>6, <3>1
    <3>3. \A i \in offset..Len(text) - 1 : ~starts_with(text, i, Space)
      BY <1>1, <1>3, <3>2
    <3>4. e \in 0..Len(text) - 1
      BY <1>1, <3>1
    <3>5. QED
      BY <1>2, <3>1, <3>3, <3>4
  <2>2. QED
    BY <1>1, <1>4, <1>6, <2>1
<1>7. CASE offset < Len(text) /\ ~(text[offset + 1] # "/" \/ end = npos)
  <2>1. /\ end \in offset..Len(text) - 1 /\ text[end + 1] = "SP"
        /\ \A i \in offset..end - 1 : text[i + 1] # "SP"
    BY <1>1, <1>2, <1>3, <1>7
  <2>2. end # offset
    BY <1>7, <2>1
  <2>3. UriAt(text, offset, end)
    BY <1>1, <1>7, <2>1, <2>2 DEF UriAt
  <2>4. end \in Nat
    BY <1>1, <2>1
  <2>5. QED
    BY <1>1, <1>4, <1>7, <2>3, <2>4
<1>8. QED
  BY <1>1, <1>5, <1>6, <1>7

-----------------------------------------------------------------------------
(* The whole message.                                                      *)

\* The message with these fields.
Message(method, uri, status, version, headers, body) ==
  [method |-> method, uri |-> uri, status |-> status, version |-> version,
   headers |-> headers, body |-> body]

\* A message before anything is known of it.
LEMMA Empty == EmptyMessage = Message("get", <<>>, "ok", "http_1_1", NoHeaders, <<>>)
  BY Zenon DEF EmptyMessage, Message

\* The body is all that follows the headers, be it nothing.
LEMMA RestAt ==
  ASSUME NEW text \in Text, Len(text) < npos, NEW offset \in Nat,
         NEW method, NEW uri, NEW status, NEW version, NEW message,
         message = Message(method, uri, status, version, NoHeaders, <<>>)
  PROVE  LET r == try_get_headers(text, offset)
             rest == Rest(text, offset, message)
         IN /\ r.error # "success" => rest = r
            /\ r.error = "success" =>
                 /\ rest.error = "success"
                 /\ rest.value =
                      Message(method, uri, status, version, r.value, substr(text, r.offset))
<1> DEFINE r == try_get_headers(text, offset)
           rest == Rest(text, offset, message)
           Headed(h) == [message EXCEPT !.headers = h]
           Full(h, b) == [message EXCEPT !.headers = h, !.body = b]
<1>1. rest =
        IF r.error = "success"
        THEN IF r.offset < Len(text)
             THEN IF try_get_body(text, r.offset).error = "success"
                  THEN Found(Full(r.value, try_get_body(text, r.offset).value),
                             try_get_body(text, r.offset).offset)
                  ELSE try_get_body(text, r.offset)
             ELSE Found(Headed(r.value), r.offset)
        ELSE r
  BY Zenon DEF Rest, Then
<1>2. HeadersFrom(text, offset, r)
  BY ParsedHeaders
<1>3. ASSUME NEW h
      PROVE  Headed(h) = Message(method, uri, status, version, h, <<>>)
  BY DEF Message
<1>4. ASSUME NEW h, NEW b
      PROVE  Full(h, b) = Message(method, uri, status, version, h, b)
  <2> DEFINE m1 == [message EXCEPT !.headers = h]
  <2>1. Full(h, b) = [m1 EXCEPT !.body = b]
    BY Zenon
  <2>2. m1 = Message(method, uri, status, version, h, <<>>)
    BY <1>3
  <2> HIDE DEF m1, Full
  <2>3. [m1 EXCEPT !.body = b] = Message(method, uri, status, version, h, b)
    BY <2>2 DEF Message
  <2>4. QED
    BY <2>1, <2>3
<1> HIDE DEF r, rest, Headed, Full
<1>5. CASE r.error # "success"
  BY <1>1, <1>5 DEF r, rest
<1>6. CASE r.error = "success" /\ r.offset < Len(text)
  <2>1. r.offset \in Nat
    BY <1>2, <1>6 DEF HeadersFrom, Fails
  <2>2. try_get_body(text, r.offset) = Found(substr(text, r.offset), Len(text))
    BY <1>6, <2>1 DEF try_get_body, Text
  <2>3. rest = Found(Message(method, uri, status, version, r.value, substr(text, r.offset)),
                     Len(text))
    BY <1>1, <1>4, <1>6, <2>2 DEF Found
  <2>4. QED
    BY <1>6, <2>3 DEF Found, r, rest
<1>7. CASE r.error = "success" /\ ~(r.offset < Len(text))
  <2>1. r.offset \in Nat /\ Len(text) \in Nat
    BY <1>2, <1>7 DEF HeadersFrom, Fails, Text
  <2>2. substr(text, r.offset) = <<>>
    <3>1. r.offset + 1 > Len(text)
      BY <1>7, <2>1
    <3>2. QED
      BY <2>1, <3>1, SubSeqEmpty DEF substr
  <2>3. rest = Found(Message(method, uri, status, version, r.value, substr(text, r.offset)),
                     r.offset)
    BY <1>1, <1>3, <1>7, <2>2
  <2>4. QED
    BY <1>7, <2>3 DEF Found, r, rest
<1>8. QED
  BY <1>5, <1>6, <1>7

\* The first line of a request: a method, any character, a uri up to end, a space, the version.
RequestLine(text, method, end) ==
  /\ KeyAt(http_method_strings, text, 0, method) /\ ~Splits(text, 1)
  /\ UriAt(text, 2, end)
  /\ KeyAt(http_version_strings, text, end + 1, "http_1_1")

\* The first line of a response: the version, any character, a status.
StatusLine(text, status) ==
  /\ KeyAt(http_version_strings, text, 0, "http_1_1") /\ ~Splits(text, 1)
  /\ KeyAt(http_status_strings, text, 2, status)

\* What parse has of the message after its first line.
RequestStart(text, method, end) ==
  Message(method, SubSeq(text, 3, end), "ok", "http_1_1", NoHeaders, <<>>)

ResponseStart(status) ==
  Message("get", <<>>, status, "http_1_1", NoHeaders, <<>>)

LineErrors == {"parse_error_method", "parse_error_uri", "parse_error_version", "parse_error_status"}

\* A text that ends before a first line can be told from an error.
TooShort(kind, text) ==
  IF kind = "request"
  THEN /\ Len(text) <= 2 /\ ~Splits(text, 1)
       /\ \E method : KeyAt(http_method_strings, text, 0, method)
  ELSE Len(text) <= 1 /\ KeyAt(http_version_strings, text, 0, "http_1_1")

\* A space is a character of its own.
LEMMA SpaceSplitsNot ==
  ASSUME NEW text, text[2] = "SP"
  PROVE  ~Splits(text, 1)
<1>1. <<text[1 + 1]>> = <<"SP">>
  OBVIOUS
<1>2. <<"SP">> \notin Range(http_method_strings)
  BY DEF Range, http_method_strings
<1>3. <<"SP">> \notin Range(http_version_strings)
  BY DEF Range, http_version_strings
<1>4. <<"SP">> \notin Range(http_status_strings)
  BY DEF Range, http_status_strings
<1>5. <<"SP">> # ContentLength
  BY DEF ContentLength
<1>6. QED
  BY <1>1, <1>2, <1>3, <1>4, <1>5 DEF Splits

\* The one version there is.
LEMMA OneVersion == \A key : key \in DOMAIN http_version_strings <=> key = "http_1_1"
  BY DEF http_version_strings

\* A request is parsed from its first line on; a text without one is an error, an exception
\* when it is too short.
LEMMA ParseRequest ==
  ASSUME NEW text \in Text, Len(text) > 0, Len(text) < npos
  PROVE  \/ /\ \E e \in LineErrors : parse_request(text) = Fails(e)
            /\ \A method : \A end \in Nat : ~RequestLine(text, method, end)
            /\ ~TooShort("request", text)
         \/ /\ parse_request(text) = Fails("out_of_range")
            /\ TooShort("request", text)
         \/ /\ ~TooShort("request", text)
            /\ \E method : \E end \in Nat :
                 /\ RequestLine(text, method, end)
                 /\ parse_request(text) = Rest(text, end + 4, RequestStart(text, method, end))
<1> DEFINE m == try_get_method(text, 0)
           u == try_get_uri(text, m.offset + 1)
           v == try_get_version(text, u.offset + 1)
           Start(method, uri, version) ==
             [EmptyMessage EXCEPT !.method = method, !.uri = uri, !.version = version]
<1>0. Len(text) \in Nat
  BY DEF Text
<1>1. parse_request(text) =
        IF m.error = "success"
        THEN IF Splits(text, m.offset) THEN Fails("parse_error_uri")
             ELSE IF u.error = "success"
             THEN IF v.error = "success"
                  THEN Rest(text, v.offset + Len(crlf), Start(m.value, u.value, v.value))
                  ELSE v
             ELSE u
        ELSE m
  BY Zenon DEF parse_request, Then
<1>6. ASSUME NEW method, NEW uri, NEW version
      PROVE  Start(method, uri, version) = Message(method, uri, "ok", version, NoHeaders, <<>>)
  <2> DEFINE m1 == [EmptyMessage EXCEPT !.method = method]
             m2 == [m1 EXCEPT !.uri = uri]
  <2>1. Start(method, uri, version) = [m2 EXCEPT !.version = version]
    BY Zenon
  <2>2. m1 = Message(method, <<>>, "ok", "http_1_1", NoHeaders, <<>>)
    BY Empty DEF Message
  <2> HIDE DEF m1, Start
  <2>3. m2 = Message(method, uri, "ok", "http_1_1", NoHeaders, <<>>)
    BY <2>2 DEF Message
  <2> HIDE DEF m2
  <2>4. [m2 EXCEPT !.version = version] = Message(method, uri, "ok", version, NoHeaders, <<>>)
    BY <2>3 DEF Message
  <2>5. QED
    BY <2>1, <2>4
<1> HIDE DEF Start
<1>2. \/ /\ \A method : ~KeyAt(http_method_strings, text, 0, method)
         /\ m = Fails("parse_error_method")
      \/ \E method : KeyAt(http_method_strings, text, 0, method) /\ m = Found(method, 1)
  <2>1. ~(0 > Len(text)) /\ 0 + 1 = 1
    BY <1>0
  <2>2. QED
    BY <2>1, LiteralAt, StringsAreCharacters DEF try_get_method
<1> HIDE DEF m
<1>3. CASE /\ \A method : ~KeyAt(http_method_strings, text, 0, method)
           /\ m = Fails("parse_error_method")
  BY <1>1, <1>3 DEF Fails, LineErrors, RequestLine, TooShort
<1>7. CASE /\ \E method : KeyAt(http_method_strings, text, 0, method) /\ m = Found(method, 1)
           /\ Splits(text, 1)
  <2>1. m.error = "success" /\ m.offset = 1
    BY <1>7 DEF Found
  <2>2. parse_request(text) = Fails("parse_error_uri")
    BY <1>1, <1>7, <2>1
  <2>3. QED
    BY <1>7, <2>2 DEF LineErrors, RequestLine, TooShort
<1>4. CASE /\ \E method : KeyAt(http_method_strings, text, 0, method) /\ m = Found(method, 1)
           /\ ~Splits(text, 1)
  <2>1. PICK method : KeyAt(http_method_strings, text, 0, method) /\ m = Found(method, 1)
    BY <1>4
  <2>2. m.error = "success" /\ m.value = method /\ m.offset = 1 /\ m.offset + 1 = 2
    BY <2>1 DEF Found
  <2>3. u = try_get_uri(text, 2)
    BY <2>2
  <2>4. \/ 2 >= Len(text) /\ u = Fails("out_of_range")
        \/ /\ 2 < Len(text)
           /\ \A end \in Nat : ~UriAt(text, 2, end)
           /\ u = Fails("parse_error_uri")
        \/ /\ 2 < Len(text)
           /\ \E end \in Nat : UriAt(text, 2, end) /\ u = Found(SubSeq(text, 3, end), end)
    <3>1. 2 + 1 = 3
      OBVIOUS
    <3>2. QED
      BY <2>3, <3>1, TryGetUri
  <2> HIDE DEF u
  <2>5. CASE 2 >= Len(text) /\ u = Fails("out_of_range")
    <3>1. parse_request(text) = Fails("out_of_range")
      BY <1>1, <1>4, <2>2, <2>5 DEF Fails
    <3>2. Len(text) <= 2
      BY <1>0, <2>5
    <3>3. QED
      BY <1>4, <2>1, <3>1, <3>2 DEF TooShort
  <2>6. CASE /\ 2 < Len(text)
             /\ \A end \in Nat : ~UriAt(text, 2, end)
             /\ u = Fails("parse_error_uri")
    <3>1. parse_request(text) = Fails("parse_error_uri")
      BY <1>1, <1>4, <2>2, <2>6 DEF Fails
    <3>2. ~(Len(text) <= 2)
      BY <1>0, <2>6
    <3>3. \A method2 : \A end \in Nat : ~RequestLine(text, method2, end)
      BY <2>6 DEF RequestLine
    <3>4. ~TooShort("request", text)
      BY <3>2 DEF TooShort
    <3>5. QED
      BY <3>1, <3>3, <3>4 DEF LineErrors
  <2>7. CASE /\ 2 < Len(text)
             /\ \E end \in Nat : UriAt(text, 2, end) /\ u = Found(SubSeq(text, 3, end), end)
    <3>1. PICK end \in Nat : UriAt(text, 2, end) /\ u = Found(SubSeq(text, 3, end), end)
      BY <2>7
    <3>2. u.error = "success" /\ u.value = SubSeq(text, 3, end) /\ u.offset = end
      BY <3>1 DEF Found
    <3>3. v = try_get_version(text, end + 1)
      BY <3>2
    <3>4. end + 1 <= Len(text) /\ end + 1 \in Nat
      BY <1>0, <3>1 DEF UriAt
    <3>5. \/ /\ ~KeyAt(http_version_strings, text, end + 1, "http_1_1")
             /\ v = Fails("parse_error_version")
          \/ /\ KeyAt(http_version_strings, text, end + 1, "http_1_1")
             /\ v = Found("http_1_1", (end + 1) + 1)
      <4>1. ~(end + 1 > Len(text))
        BY <1>0, <3>4
      <4>2. \/ /\ \A key : ~KeyAt(http_version_strings, text, end + 1, key)
               /\ v = Fails("parse_error_version")
            \/ \E key : /\ KeyAt(http_version_strings, text, end + 1, key)
                        /\ v = Found(key, (end + 1) + 1)
        BY <3>3, <3>4, <4>1, LiteralAt, StringsAreCharacters DEF try_get_version
      <4>3. QED
        BY <4>2, OneVersion DEF KeyAt
    <3> HIDE DEF v
    <3>6. ~TooShort("request", text)
      <4>1. ~(Len(text) <= 2)
        BY <1>0, <2>7
      <4>2. QED
        BY <4>1 DEF TooShort
    <3>7. CASE /\ ~KeyAt(http_version_strings, text, end + 1, "http_1_1")
               /\ v = Fails("parse_error_version")
      <4>1. ASSUME NEW e \in Nat, UriAt(text, 2, e)
            PROVE  e = end
        BY <1>0, <3>1, <4>1 DEF UriAt
      <4>2. parse_request(text) = Fails("parse_error_version")
        BY <1>1, <1>4, <2>2, <3>2, <3>7 DEF Fails
      <4>3. \A method2 : \A end2 \in Nat : ~RequestLine(text, method2, end2)
        BY <3>7, <4>1 DEF RequestLine
      <4>4. QED
        BY <3>6, <4>2, <4>3 DEF LineErrors
    <3>8. CASE /\ KeyAt(http_version_strings, text, end + 1, "http_1_1")
               /\ v = Found("http_1_1", (end + 1) + 1)
      <4>1. v.error = "success" /\ v.value = "http_1_1" /\ v.offset + Len(crlf) = end + 4
        BY <3>8, Parts DEF Found
      <4>2. parse_request(text) = Rest(text, end + 4, RequestStart(text, method, end))
        BY <1>1, <1>4, <1>6, <2>2, <3>2, <4>1 DEF RequestStart
      <4>3. RequestLine(text, method, end)
        BY <1>4, <2>1, <3>1, <3>8 DEF RequestLine
      <4>4. QED
        BY <3>6, <4>2, <4>3
    <3>9. QED
      BY <3>5, <3>7, <3>8
  <2>8. QED
    BY <2>4, <2>5, <2>6, <2>7
<1>5. QED
  BY <1>2, <1>3, <1>4, <1>7

\* A response is parsed from its first line on; a text without one is an error, an
\* exception when it is too short.
LEMMA ParseResponse ==
  ASSUME NEW text \in Text, Len(text) > 0, Len(text) < npos
  PROVE  \/ /\ \E e \in LineErrors : parse_response(text) = Fails(e)
            /\ \A status : ~StatusLine(text, status)
            /\ ~TooShort("response", text)
         \/ /\ parse_response(text) = Fails("out_of_range")
            /\ TooShort("response", text)
         \/ /\ ~TooShort("response", text)
            /\ \E status :
                 /\ StatusLine(text, status)
                 /\ parse_response(text) = Rest(text, 5, ResponseStart(status))
<1> DEFINE v == try_get_version(text, 0)
           w == try_get_status(text, v.offset + 1)
           Start(status, version) == [EmptyMessage EXCEPT !.status = status, !.version = version]
<1>0. Len(text) \in Nat
  BY DEF Text
<1>1. parse_response(text) =
        IF v.error = "success"
        THEN IF Splits(text, v.offset) THEN Fails("parse_error_status")
             ELSE IF w.error = "success"
             THEN Rest(text, w.offset + Len(crlf), Start(w.value, v.value))
             ELSE w
        ELSE v
  BY Zenon DEF parse_response, Then
<1>2. ASSUME NEW status, NEW version
      PROVE  Start(status, version) = Message("get", <<>>, status, version, NoHeaders, <<>>)
  <2> DEFINE m1 == [EmptyMessage EXCEPT !.status = status]
  <2>1. Start(status, version) = [m1 EXCEPT !.version = version]
    BY Zenon
  <2>2. m1 = Message("get", <<>>, status, "http_1_1", NoHeaders, <<>>)
    BY Empty DEF Message
  <2> HIDE DEF m1, Start
  <2>3. [m1 EXCEPT !.version = version] = Message("get", <<>>, status, version, NoHeaders, <<>>)
    BY <2>2 DEF Message
  <2>4. QED
    BY <2>1, <2>3
<1> HIDE DEF Start
<1>3. \/ /\ ~KeyAt(http_version_strings, text, 0, "http_1_1")
         /\ v = Fails("parse_error_version")
      \/ /\ KeyAt(http_version_strings, text, 0, "http_1_1")
         /\ v = Found("http_1_1", 1)
  <2>1. ~(0 > Len(text)) /\ 0 + 1 = 1
    BY <1>0
  <2>2. \/ /\ \A key : ~KeyAt(http_version_strings, text, 0, key)
           /\ v = Fails("parse_error_version")
        \/ \E key : KeyAt(http_version_strings, text, 0, key) /\ v = Found(key, 1)
    BY <2>1, LiteralAt, StringsAreCharacters DEF try_get_version
  <2>3. QED
    BY <2>2, OneVersion DEF KeyAt
<1> HIDE DEF v
<1>4. CASE /\ ~KeyAt(http_version_strings, text, 0, "http_1_1")
           /\ v = Fails("parse_error_version")
  BY <1>1, <1>4 DEF Fails, LineErrors, StatusLine, TooShort
<1>7. CASE /\ KeyAt(http_version_strings, text, 0, "http_1_1")
           /\ v = Found("http_1_1", 1) /\ Splits(text, 1)
  <2>1. v.error = "success" /\ v.offset = 1
    BY <1>7 DEF Found
  <2>2. parse_response(text) = Fails("parse_error_status")
    BY <1>1, <1>7, <2>1
  <2>3. ~(Len(text) <= 1)
    BY <1>0, <1>7 DEF Splits
  <2>4. QED
    BY <1>7, <2>2, <2>3 DEF LineErrors, StatusLine, TooShort
<1>5. CASE /\ KeyAt(http_version_strings, text, 0, "http_1_1")
           /\ v = Found("http_1_1", 1) /\ ~Splits(text, 1)
  <2>1. v.error = "success" /\ v.value = "http_1_1" /\ v.offset = 1 /\ v.offset + 1 = 2
    BY <1>5 DEF Found
  <2>2. w = try_get_status(text, 2)
    BY <2>1
  <2>3. \/ 2 > Len(text) /\ w = Fails("out_of_range")
        \/ /\ 2 <= Len(text)
           /\ \A key : ~KeyAt(http_status_strings, text, 2, key)
           /\ w = Fails("parse_error_status")
        \/ /\ 2 < Len(text)
           /\ \E key : KeyAt(http_status_strings, text, 2, key) /\ w = Found(key, 2 + 1)
    BY <2>2, LiteralAt, StringsAreCharacters DEF try_get_status
  <2> HIDE DEF w
  <2>4. CASE 2 > Len(text) /\ w = Fails("out_of_range")
    <3>1. parse_response(text) = Fails("out_of_range")
      BY <1>1, <1>5, <2>1, <2>4 DEF Fails
    <3>2. Len(text) <= 1
      BY <1>0, <2>4
    <3>3. QED
      BY <1>5, <3>1, <3>2 DEF TooShort
  <2>5. CASE /\ 2 <= Len(text)
             /\ \A key : ~KeyAt(http_status_strings, text, 2, key)
             /\ w = Fails("parse_error_status")
    <3>1. parse_response(text) = Fails("parse_error_status")
      BY <1>1, <1>5, <2>1, <2>5 DEF Fails
    <3>2. ~(Len(text) <= 1)
      BY <1>0, <2>5
    <3>3. QED
      BY <2>5, <3>1, <3>2 DEF TooShort, StatusLine, LineErrors
  <2>6. CASE /\ 2 < Len(text)
             /\ \E key : KeyAt(http_status_strings, text, 2, key) /\ w = Found(key, 2 + 1)
    <3>1. PICK status : KeyAt(http_status_strings, text, 2, status) /\ w = Found(status, 2 + 1)
      BY <2>6
    <3>2. w.error = "success" /\ w.value = status /\ w.offset + Len(crlf) = 5
      BY <3>1, Parts DEF Found
    <3>3. parse_response(text) = Rest(text, 5, ResponseStart(status))
      BY <1>1, <1>2, <1>5, <2>1, <3>2 DEF ResponseStart
    <3>4. ~(Len(text) <= 1)
      BY <1>0, <2>6
    <3>5. QED
      BY <1>5, <3>1, <3>3, <3>4 DEF TooShort, StatusLine
  <2>7. QED
    BY <2>3, <2>4, <2>5, <2>6
<1>6. QED
  BY <1>3, <1>4, <1>5, <1>7

\* A message that has been parsed from a text: its uri and its headers are in their lines.
Understood(text, m) ==
  \E headers :
  \E method \in DOMAIN http_method_strings, status \in DOMAIN http_status_strings,
     uri \in Text, body \in Text :
    /\ m = Message(method, uri, status, "http_1_1", headers, body)
    /\ \A name \in DOMAIN headers : HeaderInLine(text, name, headers[name])

\* What Rest makes of a text behind the first line.
LEMMA RestUnderstood ==
  ASSUME NEW text \in Text, Len(text) < npos, NEW offset \in Nat,
         NEW method \in DOMAIN http_method_strings, NEW status \in DOMAIN http_status_strings,
         NEW uri \in Text, NEW message,
         message = Message(method, uri, status, "http_1_1", NoHeaders, <<>>)
  PROVE  \/ Rest(text, offset, message) = Fails("parse_error_headers")
         \/ /\ Rest(text, offset, message).error = "success"
            /\ Understood(text, Rest(text, offset, message).value)
            /\ Rest(text, offset, message).value.uri = uri
<1> DEFINE r == try_get_headers(text, offset)
           rest == Rest(text, offset, message)
<1>1. HeadersFrom(text, offset, r)
  BY ParsedHeaders
<1>2. /\ r.error # "success" => rest = r
      /\ r.error = "success" =>
           /\ rest.error = "success"
           /\ rest.value = Message(method, uri, status, "http_1_1", r.value, substr(text, r.offset))
  BY RestAt
<1> HIDE DEF r, rest
<1>3. CASE r.error # "success"
  BY <1>1, <1>2, <1>3 DEF HeadersFrom, Found, rest
<1>4. CASE r.error = "success"
  <2>1. r.offset \in Nat /\ \A name \in DOMAIN r.value : HeaderInLine(text, name, r.value[name])
    BY <1>1, <1>4 DEF HeadersFrom, Fails
  <2>2. substr(text, r.offset) \in Text
    <3>1. r.offset + 1 \in Int /\ Len(text) \in Int
      BY <2>1 DEF Text
    <3>2. \A i \in r.offset + 1..Len(text) : text[i] \in Char
      BY <2>1 DEF Text
    <3>3. QED
      BY <3>1, <3>2, SubSeqProperties DEF substr, Text
  <2>3. /\ rest.error = "success"
        /\ rest.value = Message(method, uri, status, "http_1_1", r.value, substr(text, r.offset))
    BY <1>2, <1>4
  <2>4. Understood(text, rest.value)
    BY <2>1, <2>2, <2>3 DEF Understood
  <2>5. rest.value.uri = uri
    BY <2>3 DEF Message
  <2>6. QED
    BY <2>3, <2>4, <2>5 DEF rest
<1>5. QED
  BY <1>3, <1>4

\* What parse makes of any text: an error, an exception when the text is too short, or a
\* message; a request then begins with its uri, up to the first space.
LEMMA Parsed ==
  ASSUME NEW kind \in Kinds, NEW text \in Text, Len(text) > 0, Len(text) < npos
  PROVE  \/ /\ ~TooShort(kind, text)
            /\ \E e \in LineErrors \cup {"parse_error_headers"} : parse(kind, text) = Fails(e)
         \/ /\ TooShort(kind, text)
            /\ parse(kind, text) = Fails("out_of_range")
         \/ /\ ~TooShort(kind, text)
            /\ parse(kind, text).error = "success"
            /\ Understood(text, parse(kind, text).value)
            /\ kind = "request" =>
                 \E end \in Nat : UriAt(text, 2, end) /\ parse(kind, text).value.uri = SubSeq(text, 3, end)
<1>0. Len(text) \in Nat
  BY DEF Text
<1>1. CASE kind = "request"
  <2>1. parse(kind, text) = parse_request(text)
    BY <1>1 DEF parse
  <2>2. CASE \E method : \E end \in Nat :
               /\ RequestLine(text, method, end)
               /\ parse_request(text) = Rest(text, end + 4, RequestStart(text, method, end))
    <3>1. PICK method : \E end \in Nat :
               /\ RequestLine(text, method, end)
               /\ parse_request(text) = Rest(text, end + 4, RequestStart(text, method, end))
      BY <2>2
    <3>2. PICK end \in Nat :
               /\ RequestLine(text, method, end)
               /\ parse_request(text) = Rest(text, end + 4, RequestStart(text, method, end))
      BY <3>1
    <3>3. method \in DOMAIN http_method_strings /\ UriAt(text, 2, end)
      BY <3>2 DEF RequestLine, KeyAt
    <3>4. SubSeq(text, 3, end) \in Text
      <4>1. end \in 3..Len(text)
        BY <1>0, <3>3 DEF UriAt
      <4>2. QED
        BY <1>0, <4>1 DEF Text
    <3>5. "ok" \in DOMAIN http_status_strings
      BY DEF http_status_strings
    <3>6. ~TooShort(kind, text)
      BY <1>0, <1>1, <3>3 DEF TooShort, UriAt
    <3> DEFINE start == RequestStart(text, method, end)
               rest == Rest(text, end + 4, start)
    <3>7. start = Message(method, SubSeq(text, 3, end), "ok", "http_1_1", NoHeaders, <<>>)
      BY DEF RequestStart
    <3> HIDE DEF start
    <3>8. \/ rest = Fails("parse_error_headers")
          \/ /\ rest.error = "success" /\ Understood(text, rest.value)
             /\ rest.value.uri = SubSeq(text, 3, end)
      <4> DEFINE uri == SubSeq(text, 3, end)
                 offset == end + 4
      <4>1. offset \in Nat /\ uri \in Text
        BY <3>4
      <4>2. start = Message(method, uri, "ok", "http_1_1", NoHeaders, <<>>)
        BY <3>7
      <4>3. rest = Rest(text, offset, start)
        OBVIOUS
      <4> HIDE DEF uri, offset, rest
      <4>4. \/ rest = Fails("parse_error_headers")
            \/ rest.error = "success" /\ Understood(text, rest.value) /\ rest.value.uri = uri
        BY <3>3, <3>5, <4>1, <4>2, <4>3, RestUnderstood
      <4>5. QED
        BY <4>4 DEF uri
    <3>9. parse(kind, text) = rest
      BY <2>1, <3>2 DEF start
    <3> HIDE DEF rest
    <3>10. QED
      BY <3>3, <3>6, <3>8, <3>9
  <2>3. QED
    BY <1>0, <1>1, <2>1, <2>2, ParseRequest
<1>2. CASE kind = "response"
  <2>1. parse(kind, text) = parse_response(text)
    BY <1>2 DEF parse
  <2>2. CASE \E status : /\ StatusLine(text, status)
                         /\ parse_response(text) = Rest(text, 5, ResponseStart(status))
    <3>1. PICK status : /\ StatusLine(text, status)
                        /\ parse_response(text) = Rest(text, 5, ResponseStart(status))
      BY <2>2
    <3>2. status \in DOMAIN http_status_strings /\ 2 < Len(text)
      BY <3>1 DEF StatusLine, KeyAt
    <3>3. "get" \in DOMAIN http_method_strings
      BY DEF http_method_strings
    <3>4. <<>> \in Text
      BY DEF Text
    <3>5. ~TooShort(kind, text)
      BY <1>0, <1>2, <3>2 DEF TooShort
    <3> DEFINE start == ResponseStart(status)
               rest == Rest(text, 5, start)
    <3>6. start = Message("get", <<>>, status, "http_1_1", NoHeaders, <<>>)
      BY DEF ResponseStart
    <3> HIDE DEF start
    <3>7. \/ rest = Fails("parse_error_headers")
          \/ rest.error = "success" /\ Understood(text, rest.value)
      BY <3>2, <3>3, <3>4, <3>6, RestUnderstood
    <3>8. parse(kind, text) = rest
      BY <2>1, <3>1 DEF start
    <3> HIDE DEF rest
    <3>9. QED
      BY <1>2, <3>5, <3>7, <3>8
  <2>3. QED
    BY <1>2, <2>1, <2>2, ParseResponse
<1>3. QED
  BY <1>1, <1>2 DEF Kinds

-----------------------------------------------------------------------------
(* Parts of a text in a row.                                               *)

\* The text has the part behind the first p characters.
At(text, p, part) ==
  p + Len(part) <= Len(text) /\ \A j \in 1..Len(part) : text[p + j] = part[j]

\* Texts in a row are a text.
LEMMA TextConcat ==
  ASSUME NEW a \in Text, NEW b \in Text
  PROVE  a \o b \in Text /\ Len(a \o b) = Len(a) + Len(b)
  BY ConcatProperties DEF Text

\* Where two texts in a row are, the second begins at the end of the first.
LEMMA AtConcat ==
  ASSUME NEW text \in Text, NEW p \in Nat, NEW a \in Text, NEW b \in Text,
         At(text, p, a \o b)
  PROVE  At(text, p, a) /\ At(text, p + Len(a), b)
<1> DEFINE ab == a \o b
<1>1. /\ Len(a) \in Nat /\ Len(b) \in Nat /\ Len(ab) = Len(a) + Len(b)
      /\ \A i \in 1..Len(a) + Len(b) : ab[i] = IF i <= Len(a) THEN a[i] ELSE b[i - Len(a)]
  BY ConcatProperties DEF Text
<1>2. At(text, p, ab)
  OBVIOUS
<1> HIDE DEF ab
<1>3. ASSUME NEW j \in 1..Len(a)
      PROVE  text[p + j] = a[j]
  BY <1>1, <1>2 DEF At
<1>4. ASSUME NEW j \in 1..Len(b)
      PROVE  text[p + Len(a) + j] = b[j]
  <2> DEFINE k == Len(a) + j
  <2>1. k \in 1..Len(ab) /\ ~(k <= Len(a)) /\ k - Len(a) = j
    BY <1>1
  <2>2. p + Len(a) + j = p + k
    BY <1>1
  <2> HIDE DEF k
  <2>3. ab[k] = b[j]
    BY <1>1, <2>1
  <2>4. text[p + k] = ab[k]
    BY <1>2, <2>1 DEF At
  <2>5. QED
    BY <2>2, <2>3, <2>4
<1>5. p + Len(a) + Len(b) <= Len(text)
  BY <1>1, <1>2 DEF At, Text
<1>6. QED
  BY <1>1, <1>3, <1>4, <1>5 DEF At, Text

\* FlattenSeq puts one text behind the other.
LEMMA Flatten ==
  ASSUME NEW seqs \in Seq(Text)
  PROVE  \E f : /\ f[0] = <<>> /\ FlattenSeq(seqs) = f[Len(seqs)]
                /\ \A i \in 0..Len(seqs) : f[i] \in Text
                /\ \A i \in 1..Len(seqs) : f[i] = f[i - 1] \o seqs[i]
<1> DEFINE n == Len(seqs)
           Step(f, i) == IF i = 1 THEN seqs[i] ELSE f[i - 1] \o seqs[i]
           flatten == CHOOSE f : f = [i \in 1..n |-> Step(f, i)]
<1>0. n \in Nat /\ DOMAIN seqs = 1..n /\ <<>> \in Text /\ \A i \in 1..n : seqs[i] \in Text
  BY DEF Text
<1>1. ~(n = 0) => FlattenSeq(seqs) = flatten[n]
  BY DEF FlattenSeq
<1>2. n <= 0 => FlattenSeq(seqs) = <<>>
  <2> SUFFICES ASSUME n <= 0
               PROVE  FlattenSeq(seqs) = <<>>
    OBVIOUS
  <2>1. seqs = <<>>
    BY <1>0, EmptySeq
  <2>2. QED
    BY <2>1 DEF FlattenSeq
<1>3. ASSUME NEW f, NEW g, NEW i \in 1..n, i > 1 => f[i - 1] = g[i - 1]
      PROVE  Step(f, i) = Step(g, i)
  BY <1>0, <1>3
<1>4. ASSUME NEW f
      PROVE  /\ \A i \in 1..n : i <= 1 => Step(f, i) = seqs[i]
             /\ \A i \in 1..n : i > 1 => Step(f, i) = f[i - 1] \o seqs[i]
  BY <1>0
<1> HIDE DEF n, Step
<1> DEFINE S == {d \in Nat : \E f : \A i \in 1..n : i <= d => f[i] = Step(f, i)}
<1>5. \A d \in Nat : d \in S
  <2>1. 0 \in S
    BY <1>0
  <2>2. ASSUME NEW d \in Nat, d \in S
        PROVE  d + 1 \in S
    <3>1. PICK f : \A i \in 1..n : i <= d => f[i] = Step(f, i)
      BY <2>2
    <3> DEFINE g == [i \in 1..n |-> Step(f, i)]
    <3>2. ASSUME NEW i \in 1..n, i <= d + 1
          PROVE  g[i] = Step(g, i)
      <4>1. i > 1 => g[i - 1] = f[i - 1]
        BY <1>0, <3>1, <3>2
      <4> HIDE DEF g
      <4>2. Step(f, i) = Step(g, i)
        BY <1>3, <4>1
      <4>3. QED
        BY <4>2 DEF g
    <3> HIDE DEF g
    <3>3. QED
      BY <3>2
  <2> HIDE DEF S
  <2>3. QED
    BY <2>1, <2>2, Induction
<1>6. flatten = [i \in 1..n |-> Step(flatten, i)]
  <2>1. n \in S
    BY <1>0, <1>5
  <2>2. PICK f : \A i \in 1..n : i <= n => f[i] = Step(f, i)
    BY <2>1
  <2> DEFINE g == [i \in 1..n |-> Step(f, i)]
  <2>3. \A i \in 1..n : f[i] = g[i]
    BY <1>0, <2>2
  <2> HIDE DEF g
  <2>4. \A i \in 1..n : Step(f, i) = Step(g, i)
    BY <1>0, <1>3, <2>3
  <2>5. g = [i \in 1..n |-> Step(g, i)]
    BY <2>4 DEF g
  <2> HIDE DEF S
  <2>6. QED
    BY <2>5
<1> HIDE DEF flatten, S
<1> DEFINE f == [i \in 0..n |-> IF i = 0 THEN <<>> ELSE flatten[i]]
<1>7. f[0] = <<>> /\ \A i \in 1..n : f[i] = flatten[i]
  BY <1>0
<1> HIDE DEF f
<1>8. ASSUME NEW i \in 1..n
      PROVE  f[i] = f[i - 1] \o seqs[i]
  <2>0. flatten[i] = Step(flatten, i)
    BY <1>6
  <2>1. CASE i <= 1
    <3>1. f[i] = seqs[i] /\ f[i - 1] = <<>> /\ seqs[i] \in Seq(Char)
      BY <1>0, <1>4, <1>7, <2>0, <2>1 DEF Text
    <3>2. QED
      BY <3>1, ConcatEmptySeq
  <2>2. CASE i > 1
    <3>1. i - 1 \in 1..n
      BY <1>0, <2>2
    <3>2. QED
      BY <1>4, <1>7, <2>0, <2>2, <3>1
  <2>3. QED
    BY <1>0, <2>1, <2>2
<1> DEFINE T == {d \in Nat : d <= n => f[d] \in Text}
<1>9. \A d \in Nat : d \in T
  <2>1. 0 \in T
    BY <1>0, <1>7
  <2>2. ASSUME NEW d \in Nat, d \in T
        PROVE  d + 1 \in T
    <3> SUFFICES ASSUME d + 1 <= n
                 PROVE  f[d + 1] \in Text
      OBVIOUS
    <3>1. d + 1 \in 1..n /\ (d + 1) - 1 = d /\ f[d] \in Text
      BY <1>0, <2>2
    <3>2. f[d + 1] = f[d] \o seqs[d + 1]
      BY <1>8, <3>1
    <3>3. QED
      BY <1>0, <3>1, <3>2, ConcatProperties DEF Text
  <2> HIDE DEF T
  <2>3. QED
    BY <2>1, <2>2, Induction
<1>10. \A i \in 0..n : f[i] \in Text
  BY <1>0, <1>9
<1>11. FlattenSeq(seqs) = f[n]
  <2>1. CASE n <= 0
    BY <1>0, <1>2, <1>7, <2>1
  <2>2. CASE n > 0
    BY <1>0, <1>1, <1>7, <2>2
  <2>3. QED
    BY <1>0, <2>1, <2>2
<1>12. QED
  BY <1>7, <1>8, <1>10, <1>11 DEF n

\* The flattened texts follow each other in a text that has them all.
LEMMA FlattenAt ==
  ASSUME NEW text \in Text, NEW s \in Nat, NEW seqs \in Seq(Text),
         At(text, s, FlattenSeq(seqs))
  PROVE  \E pos : /\ pos[0] = s /\ pos[Len(seqs)] = s + Len(FlattenSeq(seqs))
                  /\ \A i \in 0..Len(seqs) : pos[i] \in Nat
                  /\ \A i \in 1..Len(seqs) :
                       At(text, pos[i - 1], seqs[i]) /\ pos[i] = pos[i - 1] + Len(seqs[i])
<1> DEFINE n == Len(seqs)
<1>0. n \in Nat /\ \A i \in 1..n : seqs[i] \in Text
  BY DEF Text
<1>1. PICK f : /\ f[0] = <<>> /\ FlattenSeq(seqs) = f[n]
               /\ \A i \in 0..n : f[i] \in Text
               /\ \A i \in 1..n : f[i] = f[i - 1] \o seqs[i]
  BY Flatten
<1> HIDE DEF n
<1> DEFINE pos == [i \in 0..n |-> s + Len(f[i])]
           S == {d \in Nat : d <= n => At(text, s, f[n - d])}
<1>2. \A d \in Nat : d \in S
  <2>1. 0 \in S
    BY <1>0, <1>1
  <2>2. ASSUME NEW d \in Nat, d \in S
        PROVE  d + 1 \in S
    <3> SUFFICES ASSUME d + 1 <= n
                 PROVE  At(text, s, f[n - (d + 1)])
      OBVIOUS
    <3> DEFINE i == n - d
               a == f[i - 1]
               b == seqs[i]
    <3>1. i \in 1..n /\ i - 1 \in 0..n /\ n - (d + 1) = i - 1 /\ At(text, s, f[i])
      BY <1>0, <2>2
    <3> HIDE DEF i
    <3>2. a \in Text /\ b \in Text /\ f[i] = a \o b
      BY <1>0, <1>1, <3>1
    <3>3. At(text, s, a \o b)
      BY <3>1, <3>2
    <3> HIDE DEF a, b
    <3>4. At(text, s, a)
      BY <3>2, <3>3, AtConcat
    <3>5. QED
      BY <3>1, <3>4 DEF a
  <2> HIDE DEF S
  <2>3. QED
    BY <2>1, <2>2, Induction
<1>3. \A i \in 0..n : At(text, s, f[i])
  <2> SUFFICES ASSUME NEW i \in 0..n
               PROVE  At(text, s, f[i])
    OBVIOUS
  <2>1. n - i \in Nat /\ n - i <= n /\ n - (n - i) = i
    BY <1>0
  <2>2. QED
    BY <1>2, <2>1
<1> HIDE DEF S
<1>4. \A i \in 0..n : Len(f[i]) \in Nat
  BY <1>1 DEF Text
<1>5. ASSUME NEW i \in 1..n
      PROVE  At(text, pos[i - 1], seqs[i]) /\ pos[i] = pos[i - 1] + Len(seqs[i])
  <2> DEFINE a == f[i - 1]
             b == seqs[i]
  <2>1. i \in 0..n /\ i - 1 \in 0..n
    BY <1>0
  <2>2. a \in Text /\ b \in Text /\ f[i] = a \o b
    BY <1>0, <1>1, <2>1
  <2>3. At(text, s, a \o b)
    BY <1>3, <2>1, <2>2
  <2>4. pos[i - 1] = s + Len(a) /\ pos[i] = s + Len(f[i])
    BY <2>1
  <2> HIDE DEF a, b
  <2>5. At(text, s + Len(a), b)
    BY <2>2, <2>3, AtConcat
  <2>6. Len(f[i]) = Len(a) + Len(b) /\ Len(a) \in Nat /\ Len(b) \in Nat
    BY <2>2, ConcatProperties DEF Text
  <2>7. QED
    BY <2>4, <2>5, <2>6 DEF b
<1>6. pos[0] = s /\ pos[n] = s + Len(FlattenSeq(seqs)) /\ \A i \in 0..n : pos[i] \in Nat
  <2>1. Len(f[0]) = 0
    BY <1>1
  <2>2. QED
    BY <1>0, <1>1, <1>4, <2>1
<1>7. QED
  BY <1>5, <1>6 DEF n

\* The line of a header.
HeaderLine(name, value) == name \o Colon \o Space \o value \o crlf

\* A line that is there is the line that try_get_header finds, when its name and its
\* value have no separator in them.
LEMMA LineOfHeader ==
  ASSUME NEW text \in Text, NEW p \in Nat, NEW name \in Text, NEW value \in Text,
         At(text, p, HeaderLine(name, value)),
         ~Holds(name, Colon), ~Holds(name, crlf), ~Holds(value, crlf)
  PROVE  LET colon == p + Len(name)
             end == p + Len(name) + 2 + Len(value)
         IN /\ Len(HeaderLine(name, value)) = Len(name) + Len(value) + 4
            /\ HeaderLine(name, value) \in Text
            /\ LineAt(text, p, colon, end)
            /\ SubSeq(text, p + 1, colon) = name
            /\ SubSeq(text, colon + 3, end) = value
<1> DEFINE n == Len(name)
           v == Len(value)
           colon == p + n
           end == p + n + 2 + v
           a == name \o Colon
           b == a \o Space
           c == b \o value
           d == c \o crlf
<1>1. n \in Nat /\ v \in Nat /\ Len(text) \in Nat
  BY DEF Text
<1>2. a \in Text /\ Len(a) = n + 1
  BY <1>1, Parts, TextConcat
<1> HIDE DEF a
<1>3. b \in Text /\ Len(b) = n + 2
  <2>1. b \in Text /\ Len(b) = Len(a) + Len(Space)
    BY <1>2, Parts, TextConcat
  <2>2. QED
    BY <1>1, <1>2, <2>1, Parts
<1> HIDE DEF b
<1>4. c \in Text /\ Len(c) = n + 2 + v
  BY <1>1, <1>3, TextConcat
<1> HIDE DEF c
<1>5. d \in Text /\ Len(d) = n + v + 4
  <2>1. d \in Text /\ Len(d) = Len(c) + Len(crlf)
    BY <1>4, Parts, TextConcat
  <2> HIDE DEF d
  <2>2. QED
    BY <1>1, <1>4, <2>1, Parts
<1>6. At(text, p, d) /\ HeaderLine(name, value) = d
  BY DEF HeaderLine, a, b, c
<1>7. At(text, p, c) /\ At(text, p + Len(c), crlf)
  BY <1>4, <1>6, Parts, AtConcat
<1> HIDE DEF d
<1>8. At(text, p, b) /\ At(text, p + Len(b), value)
  BY <1>3, <1>7, AtConcat DEF c
<1>9. At(text, p, a) /\ At(text, p + Len(a), Space)
  BY <1>2, <1>8, Parts, AtConcat DEF b
<1>10. At(text, p, name) /\ At(text, colon, Colon)
  BY <1>9, Parts, AtConcat DEF a
<1>11. end + 2 <= Len(text)
  BY <1>1, <1>5, <1>6 DEF At
<1>12. \A j \in 1..n : text[p + j] = name[j]
  BY <1>10 DEF At
<1>13. text[colon + 1] = ":"
  BY <1>1, <1>10, Parts DEF At
<1>14. text[colon + 2] = "SP"
  <2>1. text[p + Len(a) + 1] = "SP"
    BY <1>9, Parts DEF At
  <2>2. p + Len(a) + 1 = colon + 2
    BY <1>1, <1>2
  <2>3. QED
    BY <2>1, <2>2
<1>15. \A j \in 1..v : text[colon + 2 + j] = value[j]
  <2>1. \A j \in 1..v : text[p + Len(b) + j] = value[j]
    BY <1>8 DEF At
  <2>2. p + Len(b) = colon + 2
    BY <1>1, <1>3
  <2>3. QED
    BY <2>1, <2>2
<1>16. text[end + 1] = "CR" /\ text[end + 2] = "LF"
  <2>1. text[p + Len(c) + 1] = "CR" /\ text[p + Len(c) + 2] = "LF"
    BY <1>7, Parts DEF At
  <2>2. p + Len(c) = end
    BY <1>1, <1>4
  <2>3. QED
    BY <2>1, <2>2
<1>17. /\ \A j \in 1..n : ~(j < n /\ name[j] = "CR" /\ name[j + 1] = "LF")
       /\ \A j \in 1..n : ~(name[j] = ":")
       /\ \A j \in 1..v : ~(j < v /\ value[j] = "CR" /\ value[j + 1] = "LF")
  <2>1. ASSUME NEW part \in Text, ~Holds(part, crlf), NEW j \in 1..Len(part), j < Len(part)
        PROVE  ~(part[j] = "CR" /\ part[j + 1] = "LF")
    <3> DEFINE i == j - 1
    <3>1. i \in 0..Len(part) /\ i + 1 = j /\ i + 2 = j + 1 /\ i + 1 < Len(part)
      BY <2>1 DEF Text
    <3> HIDE DEF i
    <3>2. ~starts_with(part, i, crlf)
      BY <2>1, <3>1 DEF Holds
    <3>3. QED
      BY <3>1, <3>2, StartsWithCrlf
  <2>2. ASSUME NEW j \in 1..n
        PROVE  ~(name[j] = ":")
    <3> DEFINE i == j - 1
    <3>1. i \in 0..Len(name) /\ i + 1 = j /\ i < Len(name)
      BY <1>1
    <3> HIDE DEF i
    <3>2. ~starts_with(name, i, Colon)
      BY <3>1 DEF Holds
    <3>3. QED
      BY <3>1, <3>2, StartsWithColon
  <2>3. QED
    BY <2>1, <2>2
<1> HIDE DEF n, v
<1>18. ASSUME NEW i \in p..end - 1
       PROVE  ~starts_with(text, i, crlf)
  <2> SUFFICES ASSUME text[i + 1] = "CR", text[i + 2] = "LF"
               PROVE  FALSE
    BY <1>1, <1>11, StartsWithCrlf
  <2>1. CASE i < colon
    <3> DEFINE j == i - p + 1
    <3>1. j \in 1..n /\ p + j = i + 1 /\ p + (j + 1) = i + 2
      BY <1>1, <2>1
    <3> HIDE DEF j
    <3>2. name[j] = "CR"
      BY <1>12, <3>1
    <3>3. CASE j < n
      <4>1. j + 1 \in 1..n
        BY <1>1, <3>1, <3>3
      <4>2. name[j + 1] = "LF"
        BY <1>12, <3>1, <4>1
      <4>3. QED
        BY <1>17, <3>1, <3>2, <3>3, <4>2
    <3>4. CASE j = n
      BY <1>1, <1>13, <3>1, <3>4
    <3>5. QED
      BY <1>1, <3>1, <3>3, <3>4
  <2>2. CASE i = colon
    BY <1>13, <2>2
  <2>3. CASE i = colon + 1
    BY <1>1, <1>14, <2>3
  <2>4. CASE i > colon + 1
    <3> DEFINE j == i - colon - 1
    <3>1. j \in 1..v /\ colon + 2 + j = i + 1 /\ colon + 2 + (j + 1) = i + 2
      BY <1>1, <2>4
    <3>2. j = v => i + 2 = end + 1
      BY <1>1
    <3> HIDE DEF j
    <3>3. value[j] = "CR"
      BY <1>15, <3>1
    <3>4. CASE j < v
      <4>1. j + 1 \in 1..v
        BY <1>1, <3>1, <3>4
      <4>2. value[j + 1] = "LF"
        BY <1>15, <3>1, <4>1
      <4>3. QED
        BY <1>17, <3>1, <3>3, <3>4, <4>2
    <3>5. CASE j = v
      BY <1>16, <3>2, <3>5
    <3>6. QED
      BY <1>1, <3>1, <3>4, <3>5
  <2>5. QED
    BY <1>1, <2>1, <2>2, <2>3, <2>4
<1>19. ASSUME NEW i \in p..colon - 1
       PROVE  ~starts_with(text, i, Colon)
  <2> DEFINE j == i - p + 1
  <2>1. j \in 1..n /\ p + j = i + 1
    BY <1>1
  <2> HIDE DEF j
  <2>2. text[i + 1] = name[j]
    BY <1>12, <2>1
  <2>3. QED
    BY <1>1, <1>11, <1>17, <2>1, <2>2, StartsWithColon
<1>20. LineAt(text, p, colon, end)
  <2>1. starts_with(text, end, crlf)
    BY <1>1, <1>11, <1>16, StartsWithCrlf
  <2>2. starts_with(text, colon, Colon)
    BY <1>1, <1>11, <1>13, StartsWithColon
  <2>3. colon \in p..end - 1
    BY <1>1
  <2>4. QED
    BY <1>11, <1>18, <1>19, <2>1, <2>2, <2>3 DEF LineAt
<1>21. SubSeq(text, p + 1, colon) = name
  <2> DEFINE s == SubSeq(text, p + 1, colon)
  <2>1. s \in Seq(Char) /\ Len(s) = n /\ \A j \in 1..n : s[j] = text[p + j]
    BY <1>1, <1>11 DEF Text
  <2> HIDE DEF s
  <2>2. QED
    BY <1>12, <2>1, SeqEqual DEF n, Text, s
<1>22. SubSeq(text, colon + 3, end) = value
  <2> DEFINE s == SubSeq(text, colon + 3, end)
  <2>1. s \in Seq(Char) /\ Len(s) = v /\ \A j \in 1..v : s[j] = text[colon + 2 + j]
    BY <1>1, <1>11 DEF Text
  <2> HIDE DEF s
  <2>2. QED
    BY <1>15, <2>1, SeqEqual DEF v, Text, s
<1>23. QED
  BY <1>5, <1>6, <1>20, <1>21, <1>22 DEF n, v

-----------------------------------------------------------------------------
(* The beginning of a text.                                                *)

Begins(text, whole) ==
  Len(text) <= Len(whole) /\ \A i \in 1..Len(text) : text[i] = whole[i]

\* A prefix, character by character.
LEMMA Beginning ==
  ASSUME NEW text \in Text, NEW whole \in Text
  PROVE  IsPrefix(text, whole) <=> Begins(text, whole)
<1> DEFINE n == Len(text)
           a == SubSeq(text, 1, n)
           b == SubSeq(whole, 1, n)
<1>1. n \in Nat /\ Len(whole) \in Nat /\ a = text
  BY SubSeqFull DEF Text
<1>2. IsPrefix(text, whole) <=> n <= Len(whole) /\ a = b
  BY DEF IsPrefix
<1>3. ASSUME n <= Len(whole)
      PROVE  b \in Seq(Char) /\ Len(b) = n /\ \A i \in 1..n : b[i] = whole[i]
  BY <1>1, <1>3 DEF Text
<1> HIDE DEF a, b
<1>4. CASE n <= Len(whole)
  <2>1. b \in Seq(Char) /\ Len(b) = Len(text) /\ text \in Seq(Char)
    BY <1>3, <1>4 DEF Text
  <2>2. (\A i \in 1..Len(text) : text[i] = b[i]) => text = b
    BY <2>1, SeqEqual
  <2>3. \A i \in 1..n : b[i] = whole[i]
    BY <1>3, <1>4
  <2>4. text = b <=> \A i \in 1..n : text[i] = whole[i]
    BY <2>2, <2>3
  <2>5. QED
    BY <1>1, <1>2, <1>4, <2>4 DEF Begins
<1>5. CASE ~(n <= Len(whole))
  BY <1>2, <1>5 DEF Begins
<1>6. QED
  BY <1>4, <1>5

\* What the beginning has in it is there in the whole.
LEMMA BeginsStartsWith ==
  ASSUME NEW text \in Text, NEW whole \in Text, Begins(text, whole),
         NEW part \in Text, NEW i \in Nat, i + Len(part) <= Len(text)
  PROVE  starts_with(text, i, part) <=> starts_with(whole, i, part)
<1>1. Len(part) \in Nat /\ Len(text) \in Nat /\ Len(whole) \in Nat /\ Len(text) <= Len(whole)
  BY DEF Text, Begins
<1>2. i \in 0..Len(text) /\ i \in 0..Len(whole) /\ i + Len(part) <= Len(whole)
  BY <1>1
<1>3. starts_with(text, i, part) <=> \A j \in 1..Len(part) : text[i + j] = part[j]
  BY <1>2, StartsWith
<1>4. starts_with(whole, i, part) <=> \A j \in 1..Len(part) : whole[i + j] = part[j]
  BY <1>2, StartsWith
<1>5. \A j \in 1..Len(part) : text[i + j] = whole[i + j]
  <2> SUFFICES ASSUME NEW j \in 1..Len(part)
               PROVE  text[i + j] = whole[i + j]
    OBVIOUS
  <2>1. i + j \in 1..Len(text)
    BY <1>1
  <2>2. QED
    BY <2>1 DEF Begins
<1>6. QED
  BY <1>3, <1>4, <1>5

\* A line of the beginning is one of the whole, and the other way round when it ends there.
LEMMA BeginsLineAt ==
  ASSUME NEW text \in Text, NEW whole \in Text, Begins(text, whole),
         NEW offset \in Nat, NEW colon \in Nat, NEW end \in Nat, end + 2 <= Len(text)
  PROVE  LineAt(text, offset, colon, end) <=> LineAt(whole, offset, colon, end)
<1>1. Len(text) \in Nat /\ Len(whole) \in Nat /\ end + 2 <= Len(whole)
  BY DEF Text, Begins
<1>2. ASSUME NEW i \in Nat, i <= end
      PROVE  starts_with(text, i, crlf) <=> starts_with(whole, i, crlf)
  <2>1. i + Len(crlf) <= Len(text)
    BY <1>1, <1>2, Parts
  <2>2. QED
    BY <2>1, Parts, BeginsStartsWith
<1>3. ASSUME NEW i \in Nat, i <= end
      PROVE  starts_with(text, i, Colon) <=> starts_with(whole, i, Colon)
  <2>1. i + Len(Colon) <= Len(text)
    BY <1>1, <1>3, Parts
  <2>2. QED
    BY <2>1, Parts, BeginsStartsWith
<1>4. CASE colon \in offset..end - 1
  <2>1. \A i \in offset..end - 1 : i \in Nat /\ i <= end
    OBVIOUS
  <2>2. \A i \in offset..colon - 1 : i \in Nat /\ i <= end
    BY <1>4
  <2>3. starts_with(text, end, crlf) <=> starts_with(whole, end, crlf)
    BY <1>2
  <2>4. starts_with(text, colon, Colon) <=> starts_with(whole, colon, Colon)
    BY <1>3, <1>4
  <2>5. QED
    BY <1>1, <1>2, <1>3, <2>1, <2>2, <2>3, <2>4 DEF LineAt
<1>5. CASE ~(colon \in offset..end - 1)
  BY <1>5 DEF LineAt
<1>6. QED
  BY <1>4, <1>5

\* There is one first line from an offset on.
LEMMA OneLineAt ==
  ASSUME NEW text, NEW offset \in Nat,
         NEW colon \in Nat, NEW end \in Nat, LineAt(text, offset, colon, end),
         NEW colon2 \in Nat, NEW end2 \in Nat, LineAt(text, offset, colon2, end2)
  PROVE  colon = colon2 /\ end = end2
<1>1. ~(end < end2)
  <2>1. end < end2 => end \in offset..end2 - 1
    BY DEF LineAt
  <2>2. QED
    BY <2>1 DEF LineAt
<1>2. ~(end2 < end)
  <2>1. end2 < end => end2 \in offset..end - 1
    BY DEF LineAt
  <2>2. QED
    BY <2>1 DEF LineAt
<1>3. ~(colon < colon2)
  <2>1. colon < colon2 => colon \in offset..colon2 - 1
    BY DEF LineAt
  <2>2. QED
    BY <2>1 DEF LineAt
<1>4. ~(colon2 < colon)
  <2>1. colon2 < colon => colon2 \in offset..colon - 1
    BY DEF LineAt
  <2>2. QED
    BY <2>1 DEF LineAt
<1>5. QED
  BY <1>1, <1>2, <1>3, <1>4

\* What a text makes of the headers h, named names, whose lines end at end with an empty
\* line: all of them when it has the empty line; else an error or some of them.
SomeOf(text, r, h, names, end) ==
  \/ r = Fails("parse_error_headers") /\ Len(text) < end + 2
  \/ /\ r = Found(r.value, r.offset) /\ r.offset \in Nat
     /\ r.value = [name \in DOMAIN r.value |-> r.value[name]]
     /\ \A name \in DOMAIN r.value : name \in names /\ r.value[name] = h[name]
     /\ Len(text) >= end + 2 => r.offset = end + 2 /\ DOMAIN r.value = names
     /\ Len(text) < end + 2 => r.offset >= Len(text)

\* The lines of the headers begin at pos, in the order of names; one is no line of another.
LinesAt(whole, n, names, h, pos) ==
  /\ \A i \in 0..n : pos[i] \in Nat
  /\ \A i \in 1..n :
       /\ names[i] \in Text /\ h[names[i]] \in Text
       /\ ~Holds(names[i], Colon) /\ ~Holds(names[i], crlf) /\ ~Holds(h[names[i]], crlf)
       /\ At(whole, pos[i - 1], HeaderLine(names[i], h[names[i]]))
       /\ pos[i] = pos[i - 1] + Len(HeaderLine(names[i], h[names[i]]))
  /\ At(whole, pos[n], crlf)

\* The header of a line, before those of the lines that follow.
LEMMA LineBefore ==
  ASSUME NEW text \in Text, Len(text) < npos, NEW whole \in Text, Begins(text, whole),
         NEW p \in Nat, NEW colon \in Nat, NEW stop \in Nat,
         LineAt(whole, p, colon, stop), colon + 1 < stop,
         NEW name, name = SubSeq(whole, p + 1, colon),
         NEW value, value = SubSeq(whole, colon + 3, stop),
         NEW next \in Nat, next = stop + 2,
         NEW h, h[name] = value, NEW names, NEW end \in Nat, next <= end,
         SomeOf(text, try_get_headers(text, next), h, names, end)
  PROVE  SomeOf(text, try_get_headers(text, p), h, names \cup {name}, end)
<1> DEFINE later == try_get_headers(text, next)
           r == try_get_header(text, p)
           all == try_get_headers(text, p)
<1>0. Len(text) \in Nat /\ Len(whole) \in Nat /\ p <= colon
  BY DEF Text, LineAt
<1>1. all = IF p >= Len(text) THEN Found(NoHeaders, p)
            ELSE IF starts_with(text, p, crlf) THEN Found(NoHeaders, p + Len(crlf))
            ELSE LET follow == try_get_headers(text, r.offset)
                 IN IF r.error # "success" THEN r
                    ELSE IF follow.error # "success" THEN follow
                    ELSE Found(Before(r.value, follow.value), follow.offset)
  BY TryGetHeaders
<1>2. SomeOf(text, later, h, names, end)
  OBVIOUS
<1>3. r.offset = next => try_get_headers(text, r.offset) = later
  OBVIOUS
<1> HIDE DEF later, r, all
<1>4. CASE p >= Len(text)
  <2>1. all = Found(NoHeaders, p)
    BY <1>1, <1>4
  <2>2. /\ all.value = NoHeaders /\ all.offset = p /\ DOMAIN NoHeaders = {}
        /\ NoHeaders = [other \in {} |-> NoHeaders[other]]
    BY <2>1 DEF Found, NoHeaders
  <2>3. Len(text) < end + 2
    BY <1>0, <1>4
  <2>4. QED
    BY <1>0, <1>4, <2>1, <2>2, <2>3 DEF SomeOf, all
<1>5. CASE p < Len(text)
  <2>1. ~starts_with(text, p, crlf)
    <3>1. p \in p..stop - 1
      BY <1>0
    <3>2. ~starts_with(whole, p, crlf)
      BY <3>1 DEF LineAt
    <3>3. starts_with(text, p, crlf) => p + 1 < Len(text)
      BY <1>0, <1>5, StartsWithCrlf
    <3>4. p + 1 < Len(text) => p + Len(crlf) <= Len(text)
      BY <1>0, Parts
    <3>5. QED
      BY <3>2, <3>3, <3>4, Parts, BeginsStartsWith
  <2>2. \/ r = Fails("parse_error_headers") /\ NoLineAt(text, p)
        \/ \E c, e \in Nat : LineAt(text, p, c, e) /\ r = HeaderAt(text, p, c, e)
    BY TryGetHeader DEF r
  <2>3. CASE next <= Len(text)
    <3>1. LineAt(text, p, colon, stop)
      BY <2>3, BeginsLineAt
    <3>2. PICK c, e \in Nat : LineAt(text, p, c, e) /\ r = HeaderAt(text, p, c, e)
      BY <2>2, <3>1 DEF NoLineAt
    <3>3. c = colon /\ e = stop
      BY <3>1, <3>2, OneLineAt
    <3>4. SubSeq(text, p + 1, colon) = name /\ SubSeq(text, colon + 3, stop) = value
      BY <1>0, <2>3 DEF Begins, Text
    <3>5. r.error = "success" /\ r.value.name = name /\ r.value.value = value /\ r.offset = next
      BY <3>2, <3>3, <3>4 DEF HeaderAt, Found
    <3>6. all = IF later.error # "success" THEN later
                ELSE Found(Before(r.value, later.value), later.offset)
      BY <1>0, <1>1, <1>3, <1>5, <2>1, <3>5
    <3>7. CASE later = Fails("parse_error_headers") /\ Len(text) < end + 2
      <4>1. all = later
        BY <3>6, <3>7 DEF Fails
      <4>2. QED
        BY <3>7, <4>1 DEF SomeOf, all
    <3>8. CASE later = Found(later.value, later.offset)
      <4> DEFINE headers == Before(r.value, later.value)
      <4>1. all = Found(headers, later.offset)
        BY <3>6, <3>8 DEF Found
      <4>2. all.value = headers /\ all.offset = later.offset
        BY <4>1 DEF Found
      <4>3. DOMAIN headers = DOMAIN later.value \cup {name}
        BY <3>5 DEF Before
      <4>4. /\ later.offset \in Nat
            /\ \A x \in DOMAIN later.value : x \in names /\ later.value[x] = h[x]
            /\ Len(text) >= end + 2 => later.offset = end + 2 /\ DOMAIN later.value = names
            /\ Len(text) < end + 2 => later.offset >= Len(text)
        BY <1>2, <3>8 DEF SomeOf, Fails, Found
      <4>5. \A x \in DOMAIN headers : x \in names \cup {name} /\ headers[x] = h[x]
        BY <3>5, <4>4 DEF Before
      <4>6. headers = [x \in DOMAIN headers |-> headers[x]]
        BY DEF Before
      <4> HIDE DEF headers
      <4>7. QED
        BY <4>1, <4>2, <4>3, <4>4, <4>5, <4>6 DEF SomeOf, all
    <3>9. QED
      BY <1>2, <3>7, <3>8 DEF SomeOf
  <2>4. CASE Len(text) < next
    <3>1. \A c, e \in Nat : ~LineAt(text, p, c, e)
      <4> SUFFICES ASSUME NEW c \in Nat, NEW e \in Nat, LineAt(text, p, c, e)
                   PROVE  FALSE
        OBVIOUS
      <4>1. e + 2 <= Len(text)
        BY DEF LineAt
      <4>2. LineAt(whole, p, c, e)
        BY <4>1, BeginsLineAt
      <4>3. e = stop
        BY <4>2, OneLineAt
      <4>4. QED
        BY <1>0, <2>4, <4>1, <4>3
    <3>2. r = Fails("parse_error_headers")
      BY <2>2, <3>1
    <3>3. all = r
      BY <1>0, <1>1, <1>5, <2>1, <3>2 DEF Fails
    <3>4. Len(text) < end + 2
      BY <1>0, <2>4
    <3>5. QED
      BY <3>2, <3>3, <3>4 DEF SomeOf, all
  <2>5. QED
    BY <1>0, <2>3, <2>4
<1>6. QED
  BY <1>0, <1>4, <1>5

\* An empty line ends the headers.
LEMMA NoLineLeft ==
  ASSUME NEW text \in Text, Len(text) < npos, NEW whole \in Text, Begins(text, whole),
         NEW end \in Nat, At(whole, end, crlf), NEW h
  PROVE  SomeOf(text, try_get_headers(text, end), h, {}, end)
<1> DEFINE r == try_get_header(text, end)
           all == try_get_headers(text, end)
<1>0. Len(text) \in Nat /\ Len(whole) \in Nat /\ end + 2 <= Len(whole)
  BY Parts DEF Text, At
<1>1. all = IF end >= Len(text) THEN Found(NoHeaders, end)
            ELSE IF starts_with(text, end, crlf) THEN Found(NoHeaders, end + Len(crlf))
            ELSE LET follow == try_get_headers(text, r.offset)
                 IN IF r.error # "success" THEN r
                    ELSE IF follow.error # "success" THEN follow
                    ELSE Found(Before(r.value, follow.value), follow.offset)
  BY TryGetHeaders
<1>2. \/ r = Fails("parse_error_headers")
      \/ \E c, e \in Nat : LineAt(text, end, c, e)
  BY TryGetHeader
<1> HIDE DEF r, all
<1>3. DOMAIN NoHeaders = {} /\ NoHeaders = [name \in {} |-> NoHeaders[name]]
  BY DEF NoHeaders
<1>4. CASE end >= Len(text)
  <2>1. all = Found(NoHeaders, end)
    BY <1>1, <1>4
  <2>2. all.value = NoHeaders /\ all.offset = end
    BY <2>1 DEF Found
  <2>3. QED
    BY <1>0, <1>3, <1>4, <2>1, <2>2 DEF SomeOf, all
<1>5. CASE end + 2 <= Len(text)
  <2>1. starts_with(whole, end, crlf)
    <3>1. whole[end + 1] = "CR" /\ whole[end + 2] = "LF"
      BY Parts DEF At
    <3>2. QED
      BY <1>0, <3>1, StartsWithCrlf
  <2>2. starts_with(text, end, crlf)
    <3>1. end + Len(crlf) <= Len(text)
      BY <1>5, Parts
    <3>2. QED
      BY <2>1, <3>1, Parts, BeginsStartsWith
  <2>3. all = Found(NoHeaders, end + 2)
    <3>1. all = Found(NoHeaders, end + Len(crlf))
      BY <1>0, <1>1, <1>5, <2>2
    <3>2. QED
      BY <3>1, Parts
  <2>4. all.value = NoHeaders /\ all.offset = end + 2
    BY <2>3 DEF Found
  <2>5. QED
    BY <1>0, <1>3, <1>5, <2>3, <2>4 DEF SomeOf, all
<1>6. CASE end < Len(text) /\ Len(text) < end + 2
  <2>1. ~starts_with(text, end, crlf)
    BY <1>0, <1>6, StartsWithCrlf
  <2>2. r = Fails("parse_error_headers")
    BY <1>0, <1>2, <1>6 DEF LineAt
  <2>3. all = r
    BY <1>0, <1>1, <1>6, <2>1, <2>2 DEF Fails
  <2>4. QED
    BY <1>6, <2>2, <2>3 DEF SomeOf, all
<1>7. QED
  BY <1>0, <1>4, <1>5, <1>6

\* The headers of the beginning of a text that has the lines of h.
LEMMA HeadersBack ==
  ASSUME NEW text \in Text, Len(text) < npos, NEW whole \in Text, Begins(text, whole),
         NEW n \in Nat, NEW names, NEW h, NEW pos, LinesAt(whole, n, names, h, pos)
  PROVE  SomeOf(text, try_get_headers(text, pos[0]), h, {names[i] : i \in 1..n}, pos[n])
<1> DEFINE After(k) == {names[i] : i \in k + 1..n}
           Good(k) == /\ SomeOf(text, try_get_headers(text, pos[k]), h, After(k), pos[n])
                      /\ pos[k] <= pos[n]
           S == {d \in Nat : d <= n => Good(n - d)}
<1>1. n \in 0..n /\ \A i \in 0..n : pos[i] \in Nat
  BY DEF LinesAt
<1>2. 0 \in S
  <2>1. After(n) = {}
    OBVIOUS
  <2>2. At(whole, pos[n], crlf) /\ pos[n] \in Nat
    BY <1>1 DEF LinesAt
  <2>3. SomeOf(text, try_get_headers(text, pos[n]), h, {}, pos[n])
    BY <2>2, NoLineLeft
  <2> HIDE DEF After
  <2>4. Good(n)
    BY <2>1, <2>2, <2>3
  <2>5. n - 0 = n
    OBVIOUS
  <2> HIDE DEF Good
  <2>6. QED
    BY <2>4, <2>5
<1>3. ASSUME NEW d \in Nat, d \in S
      PROVE  d + 1 \in S
  <2> HIDE DEF After, Good
  <2> SUFFICES ASSUME d + 1 <= n
               PROVE  Good(n - (d + 1))
    OBVIOUS
  <2> DEFINE k == n - d
             p == pos[k - 1]
             name == names[k]
             value == h[name]
             next == pos[k]
             end == pos[n]
             colon == p + Len(name)
             stop == p + Len(name) + 2 + Len(value)
  <2>1. k \in 1..n /\ k - 1 \in 0..n /\ k \in 0..n /\ n - (d + 1) = k - 1
    OBVIOUS
  <2>2. Good(k)
    BY <1>3
  <2> HIDE DEF S, k
  <2>3. p \in Nat /\ next \in Nat /\ end \in Nat
    BY <1>1, <2>1
  <2>4. /\ name \in Text /\ value \in Text
        /\ ~Holds(name, Colon) /\ ~Holds(name, crlf) /\ ~Holds(value, crlf)
        /\ At(whole, p, HeaderLine(name, value))
        /\ next = p + Len(HeaderLine(name, value))
    BY <2>1 DEF LinesAt
  <2>5. After(k - 1) = After(k) \cup {name}
    BY <2>1 DEF After
  <2> DEFINE names2 == After(k)
  <2>6. SomeOf(text, try_get_headers(text, next), h, names2, end) /\ next <= end
    BY <2>2 DEF Good
  <2> HIDE DEF names2
  <2>7. Len(name) \in Nat /\ Len(value) \in Nat
    BY <2>4 DEF Text
  <2>8. h[name] = value
    OBVIOUS
  <2> HIDE DEF p, name, value, next, end
  <2>9. /\ Len(HeaderLine(name, value)) = Len(name) + Len(value) + 4
        /\ LineAt(whole, p, colon, stop)
        /\ SubSeq(whole, p + 1, colon) = name
        /\ SubSeq(whole, colon + 3, stop) = value
    BY <2>3, <2>4, LineOfHeader
  <2>10. colon \in Nat /\ stop \in Nat /\ colon + 1 < stop /\ next = stop + 2 /\ p <= next
    BY <2>3, <2>4, <2>7, <2>9
  <2> HIDE DEF colon, stop
  <2>11. SomeOf(text, try_get_headers(text, p), h, names2 \cup {name}, end)
    BY <2>3, <2>6, <2>8, <2>9, <2>10, LineBefore
  <2>12. Good(k - 1)
    <3>1. After(k - 1) = names2 \cup {name} /\ p <= end
      BY <2>3, <2>5, <2>6, <2>10 DEF names2
    <3>2. SomeOf(text, try_get_headers(text, p), h, After(k - 1), end) /\ p <= end
      BY <2>11, <3>1
    <3>3. QED
      BY <3>2 DEF Good, p, end
  <2>13. QED
    BY <2>1, <2>12
<1> HIDE DEF S
<1>4. n \in S
  BY <1>2, <1>3, Induction
<1>5. Good(0)
  BY <1>4 DEF S
<1>6. QED
  BY <1>5

-----------------------------------------------------------------------------
(* The headers as text.                                                    *)

\* The headers that a message can have.
IsHeaders(h) ==
  /\ h = [name \in DOMAIN h |-> h[name]]
  /\ IsFiniteSet(DOMAIN h) /\ DOMAIN h \subseteq Text
  /\ \A name \in DOMAIN h : h[name] \in Text

\* The elements of a finite set, in a row.
LEMMA Elements ==
  ASSUME NEW S, IsFiniteSet(S)
  PROVE  \E n \in Nat : /\ SetToSeq(S) \in [1..n -> S] /\ Len(SetToSeq(S)) = n
                        /\ {SetToSeq(S)[i] : i \in 1..n} = S
<1> DEFINE n == Cardinality(S)
           seq == SetToSeq(S)
<1>1. n \in Nat /\ ExistsBijection(1..n, S)
  BY FS_CardinalityType
<1>2. PICK f : f \in Bijection(1..n, S)
  BY <1>1 DEF ExistsBijection
<1>3. f \in [1..n -> S] /\ IsInjective(f)
  BY <1>2 DEF Bijection, Injection, IsInjective
<1>4. seq \in [1..n -> S] /\ IsInjective(seq)
  BY <1>3 DEF SetToSeq
<1> HIDE DEF seq
<1>5. seq \in Injection(1..n, S)
  BY <1>4 DEF Injection, IsInjective
<1>6. Cardinality(1..n) = n
  BY <1>1, FS_Interval
<1>7. seq \in Surjection(1..n, S)
  BY <1>5, <1>6, FS_Injection
<1>8. {seq[i] : i \in 1..n} = S
  BY <1>4, <1>7 DEF Surjection
<1>9. Len(seq) = n
  BY <1>1, <1>4
<1>10. QED
  BY <1>1, <1>4, <1>8, <1>9 DEF seq

\* The line of a header is a text.
LEMMA HeaderLineText ==
  ASSUME NEW name \in Text, NEW value \in Text
  PROVE  HeaderLine(name, value) \in Text
<1> DEFINE a == name \o Colon
           b == a \o Space
           c == b \o value
           d == c \o crlf
<1>1. a \in Text
  BY Parts, TextConcat
<1> HIDE DEF a
<1>2. b \in Text
  BY <1>1, Parts, TextConcat
<1> HIDE DEF b
<1>3. c \in Text
  BY <1>2, TextConcat
<1> HIDE DEF c
<1>4. d \in Text
  BY <1>3, Parts, TextConcat
<1>5. QED
  BY <1>4 DEF HeaderLine, a, b, c

\* The lines of the headers h from s to end, in the order of names, begin at pos.
HeaderLines(whole, s, end, h, n, names, pos) ==
  /\ pos[0] = s /\ pos[n] = end
  /\ {names[i] : i \in 1..n} = DOMAIN h
  /\ \A i \in 0..n : pos[i] \in Nat
  /\ \A i \in 1..n :
       /\ names[i] \in DOMAIN h
       /\ At(whole, pos[i - 1], HeaderLine(names[i], h[names[i]]))
       /\ pos[i] = pos[i - 1] + Len(HeaderLine(names[i], h[names[i]]))

\* The lines are a text, and each header has its line in it.
LEMMA LinesText ==
  ASSUME NEW h, IsHeaders(h)
  PROVE  /\ Lines(h) \in Text
         /\ \A whole \in Text, s \in Nat : At(whole, s, Lines(h)) =>
              \E n \in Nat : \E names, pos :
                HeaderLines(whole, s, s + Len(Lines(h)), h, n, names, pos)
<1> DEFINE names == SetToSeq(DOMAIN h)
           Line(i) == HeaderLine(names[i], h[names[i]])
           lines == [i \in 1..Len(names) |-> Line(i)]
<1>1. PICK n \in Nat : /\ names \in [1..n -> DOMAIN h] /\ Len(names) = n
                       /\ {names[i] : i \in 1..n} = DOMAIN h
  BY Elements DEF IsHeaders
<1>2. Lines(h) = FlattenSeq(lines)
  BY DEF Lines, HeaderLine
<1> HIDE DEF names
<1>3. \A i \in 1..n : names[i] \in DOMAIN h /\ Line(i) \in Text
  <2> SUFFICES ASSUME NEW i \in 1..n
               PROVE  names[i] \in DOMAIN h /\ Line(i) \in Text
    OBVIOUS
  <2>1. names[i] \in DOMAIN h
    BY <1>1
  <2>2. names[i] \in Text /\ h[names[i]] \in Text
    BY <2>1 DEF IsHeaders
  <2>3. QED
    BY <2>1, <2>2, HeaderLineText
<1> HIDE DEF Line
<1>4. lines = [i \in 1..n |-> Line(i)]
  BY <1>1
<1>5. lines \in Seq(Text) /\ Len(lines) = n /\ \A i \in 1..n : lines[i] = Line(i)
  BY <1>3, <1>4
<1> HIDE DEF lines
<1>6. Lines(h) \in Text
  <2>1. PICK f : FlattenSeq(lines) = f[Len(lines)] /\ \A i \in 0..Len(lines) : f[i] \in Text
    BY <1>5, Flatten
  <2>2. Len(lines) \in 0..Len(lines)
    BY <1>5
  <2>3. QED
    BY <1>2, <2>1, <2>2
<1>7. ASSUME NEW whole \in Text, NEW s \in Nat, At(whole, s, Lines(h))
      PROVE  \E m \in Nat : \E row, pos :
                HeaderLines(whole, s, s + Len(Lines(h)), h, m, row, pos)
  <2>1. At(whole, s, FlattenSeq(lines))
    BY <1>2, <1>7
  <2>2. PICK pos : /\ pos[0] = s /\ pos[Len(lines)] = s + Len(FlattenSeq(lines))
                   /\ \A i \in 0..Len(lines) : pos[i] \in Nat
                   /\ \A i \in 1..Len(lines) :
                        At(whole, pos[i - 1], lines[i]) /\ pos[i] = pos[i - 1] + Len(lines[i])
    BY <1>5, <2>1, FlattenAt
  <2>3. pos[0] = s /\ pos[n] = s + Len(Lines(h)) /\ \A i \in 0..n : pos[i] \in Nat
    BY <1>2, <1>5, <2>2
  <2>4. ASSUME NEW i \in 1..n
        PROVE  At(whole, pos[i - 1], Line(i)) /\ pos[i] = pos[i - 1] + Len(Line(i))
    BY <1>5, <2>2
  <2>5. HeaderLines(whole, s, s + Len(Lines(h)), h, n, names, pos)
    BY <1>1, <1>3, <2>3, <2>4 DEF Line, HeaderLines
  <2>6. QED
    BY <2>5
<1>8. QED
  BY <1>6, <1>7

\* Headers without separators in them.
Separable(h) ==
  \A name \in DOMAIN h :
    ~Holds(name, Colon) /\ ~Holds(name, crlf) /\ ~Holds(h[name], crlf)

\* The headers of the beginning of a text that has the lines of h and an empty line.
LEMMA HeadersRoundTrip ==
  ASSUME NEW text \in Text, Len(text) < npos, NEW whole \in Text, Begins(text, whole),
         NEW h, IsHeaders(h), Separable(h),
         NEW s \in Nat, At(whole, s, Lines(h)), At(whole, s + Len(Lines(h)), crlf)
  PROVE  SomeOf(text, try_get_headers(text, s), h, DOMAIN h, s + Len(Lines(h)))
<1> DEFINE end == s + Len(Lines(h))
<1>0. PICK n \in Nat : \E names, pos : HeaderLines(whole, s, end, h, n, names, pos)
  BY LinesText
<1>1. PICK names, pos : HeaderLines(whole, s, end, h, n, names, pos)
  BY <1>0
<1> HIDE DEF end
<1>2. LinesAt(whole, n, names, h, pos)
  <2>1. \A i \in 1..n : names[i] \in Text /\ h[names[i]] \in Text
    BY <1>1 DEF HeaderLines, IsHeaders
  <2>2. At(whole, pos[n], crlf)
    BY <1>1 DEF HeaderLines, end
  <2>3. QED
    BY <1>1, <2>1, <2>2 DEF HeaderLines, LinesAt, Separable
<1> DEFINE S == {names[i] : i \in 1..n}
<1>3. SomeOf(text, try_get_headers(text, pos[0]), h, S, pos[n])
  BY <1>2, HeadersBack
<1>4. S = DOMAIN h /\ pos[0] = s /\ pos[n] = end
  BY <1>1 DEF HeaderLines
<1> HIDE DEF S
<1>5. QED
  BY <1>3, <1>4 DEF end

-----------------------------------------------------------------------------
(* The whole message as text.                                              *)

\* A message of a kind: only what means something in it is set.
MessageOf(kind, m) ==
  /\ m = Message(m.method, m.uri, m.status, "http_1_1", m.headers, m.body)
  /\ m.method \in DOMAIN http_method_strings /\ m.status \in DOMAIN http_status_strings
  /\ m.uri \in Text /\ IsHeaders(m.headers) /\ m.body \in Text
  /\ IF kind = "request" THEN m.status = "ok" ELSE m.method = "get" /\ m.uri = <<>>

\* A message that has the first line of m, some of its headers and the beginning of its body.
PartOf(v, m) ==
  \E headers, body :
    /\ v = Message(m.method, m.uri, m.status, m.version, headers, body)
    /\ \A name \in DOMAIN headers :
         name \in DOMAIN m.headers /\ headers[name] = m.headers[name]
    /\ IsPrefix(body, m.body)

\* What follows a first line begins where that line ends.
LEMMA LinesAndBody ==
  ASSUME NEW line \in Text, NEW lines \in Text, NEW body \in Text
  PROVE  LET whole == line \o crlf \o lines \o crlf \o body
             s == Len(line) + 2
             end == Len(line) + 2 + Len(lines)
         IN /\ whole \in Text /\ Len(whole) = end + 2 + Len(body)
            /\ At(whole, 0, line) /\ At(whole, s, lines)
            /\ At(whole, end, crlf) /\ At(whole, end + 2, body)
<1> DEFINE whole == line \o crlf \o lines \o crlf \o body
           s == Len(line) + 2
           end == Len(line) + 2 + Len(lines)
           a == line \o crlf
           b == a \o lines
           c == b \o crlf
           d == c \o body
<1>0. Len(line) \in Nat /\ Len(lines) \in Nat /\ Len(body) \in Nat
  BY DEF Text
<1>1. a \in Text /\ Len(a) = s
  <2>1. a \in Text /\ Len(a) = Len(line) + Len(crlf)
    BY Parts, TextConcat
  <2> HIDE DEF a
  <2>2. QED
    BY <2>1, Parts
<1> HIDE DEF a
<1>2. b \in Text /\ Len(b) = end
  <2>1. b \in Text /\ Len(b) = Len(a) + Len(lines)
    BY <1>1, TextConcat
  <2> HIDE DEF b
  <2>2. QED
    BY <1>0, <1>1, <2>1
<1> HIDE DEF b
<1>3. c \in Text /\ Len(c) = end + 2
  <2>1. c \in Text /\ Len(c) = Len(b) + Len(crlf)
    BY <1>2, Parts, TextConcat
  <2> HIDE DEF c
  <2>2. QED
    BY <1>2, <2>1, Parts
<1> HIDE DEF c
<1>4. d \in Text /\ Len(d) = end + 2 + Len(body)
  BY <1>3, TextConcat
<1>5. At(d, 0, d)
  BY <1>0, <1>4 DEF At
<1>6. d = c \o body
  OBVIOUS
<1>7. whole = d
  BY DEF a, b, c
<1> HIDE DEF d, s, end
<1>8. At(d, 0, c) /\ At(d, Len(c), body)
  <2>1. At(d, 0, c) /\ At(d, 0 + Len(c), body)
    BY <1>3, <1>4, <1>5, <1>6, AtConcat
  <2>2. QED
    BY <1>3, <2>1
<1>9. At(d, 0, b) /\ At(d, Len(b), crlf)
  BY <1>2, <1>4, <1>8, Parts, AtConcat DEF c
<1>10. At(d, 0, a) /\ At(d, Len(a), lines)
  BY <1>1, <1>4, <1>9, AtConcat DEF b
<1>11. At(d, 0, line)
  BY <1>4, <1>10, Parts, AtConcat DEF a
<1>12. QED
  BY <1>1, <1>2, <1>3, <1>4, <1>7, <1>8, <1>9, <1>10, <1>11 DEF s, end

\* The body of the beginning of a text that has a body from e on.
LEMMA BodyRoundTrip ==
  ASSUME NEW text \in Text, NEW whole \in Text, Begins(text, whole),
         NEW body \in Text, NEW e \in Nat, At(whole, e, body), Len(whole) <= e + Len(body),
         NEW o \in Nat, Len(text) >= e => o = e, Len(text) < e => o >= Len(text)
  PROVE  /\ substr(text, o) \in Text /\ IsPrefix(substr(text, o), body)
         /\ Len(text) >= Len(whole) => substr(text, o) = body
<1> DEFINE part == SubSeq(text, o + 1, Len(text))
<1>0. /\ Len(text) \in Nat /\ Len(whole) \in Nat /\ Len(body) \in Nat
      /\ Len(text) <= Len(whole) /\ e + Len(body) <= Len(whole)
  BY DEF Text, Begins, At
<1>1. part \in Text
  BY <1>0 DEF Text
<1>2. substr(text, o) = part
  BY DEF substr
<1>3. CASE Len(text) < e
  <2>1. part = <<>>
    BY <1>0, <1>3, SubSeqEmpty
  <2> HIDE DEF part
  <2>2. Begins(part, body)
    BY <1>0, <2>1 DEF Begins
  <2>3. QED
    BY <1>0, <1>1, <1>2, <1>3, <2>2, Beginning
<1>4. CASE Len(text) >= e
  <2>1. /\ Len(part) >= Len(text) - e /\ Len(part) <= Len(text) - e /\ Len(part) \in Nat
        /\ \A i \in 1..Len(text) - e : part[i] = text[e + i]
    BY <1>0, <1>4 DEF Text
  <2> HIDE DEF part
  <2>2. ASSUME NEW i \in 1..Len(part)
        PROVE  part[i] = body[i]
    <3>1. i \in 1..Len(body) /\ i \in 1..Len(text) - e /\ e + i \in 1..Len(text)
      BY <1>0, <2>1
    <3>2. part[i] = text[e + i] /\ whole[e + i] = body[i] /\ text[e + i] = whole[e + i]
      BY <2>1, <3>1 DEF At, Begins
    <3>3. QED
      BY <3>2
  <2>3. Begins(part, body)
    BY <1>0, <2>1, <2>2 DEF Begins
  <2>4. ASSUME Len(text) >= Len(whole)
        PROVE  part = body
    <3>1. part \in Seq(Char) /\ body \in Seq(Char) /\ Len(part) = Len(body)
      BY <1>0, <1>1, <2>1, <2>4 DEF Text
    <3>2. QED
      BY <2>2, <3>1, SeqEqual
  <2>5. QED
    BY <1>1, <1>2, <2>3, <2>4, Beginning
<1>5. QED
  BY <1>0, <1>3, <1>4

\* A text has the lines and the body of a message from s on; the empty line is at end.
Behind(whole, s, end, m) ==
  /\ end = s + Len(Lines(m.headers))
  /\ At(whole, s, Lines(m.headers)) /\ At(whole, end, crlf) /\ At(whole, end + 2, m.body)
  /\ Len(whole) <= end + 2 + Len(m.body)

\* What Rest makes of the beginning of a text that has the lines and the body of a message
\* behind its first line.
LEMMA RestRoundTrip ==
  ASSUME NEW text \in Text, Len(text) < npos, NEW whole \in Text, Begins(text, whole),
         NEW kind, NEW m, MessageOf(kind, m), Separable(m.headers),
         NEW start, start = Message(m.method, m.uri, m.status, "http_1_1", NoHeaders, <<>>),
         NEW s \in Nat, NEW end \in Nat, Behind(whole, s, end, m)
  PROVE  /\ Rest(text, s, start).error = "success" => PartOf(Rest(text, s, start).value, m)
         /\ Len(text) >= Len(whole) =>
              Rest(text, s, start).error = "success" /\ Rest(text, s, start).value = m
<1> DEFINE h == m.headers
           r == try_get_headers(text, s)
           rest == Rest(text, s, start)
           o == r.offset
           body == substr(text, o)
           named == DOMAIN h
<1>0. Len(text) \in Nat /\ Len(whole) \in Nat
  BY DEF Text
<1>1. SomeOf(text, r, h, named, end)
  BY HeadersRoundTrip DEF MessageOf, Behind
<1>2. /\ r.error # "success" => rest = r
      /\ r.error = "success" =>
           /\ rest.error = "success"
           /\ rest.value = Message(m.method, m.uri, m.status, "http_1_1", r.value, body)
  BY RestAt
<1>3. m.version = "http_1_1" /\ m.body \in Text
  BY DEF MessageOf, Message
<1> HIDE DEF r, rest, o, named
<1>4. end + 2 <= Len(whole)
  BY <1>0, Parts DEF Behind, At
<1>5. CASE r = Fails("parse_error_headers") /\ Len(text) < end + 2
  <2>1. r.error # "success" /\ rest.error # "success"
    BY <1>2, <1>5 DEF Fails
  <2>2. ~(Len(text) >= Len(whole))
    BY <1>0, <1>4, <1>5
  <2>3. QED
    BY <2>1, <2>2 DEF rest
<1>6. CASE /\ r = Found(r.value, o) /\ o \in Nat
           /\ r.value = [name \in DOMAIN r.value |-> r.value[name]]
           /\ \A name \in DOMAIN r.value : name \in named /\ r.value[name] = h[name]
           /\ Len(text) >= end + 2 => o = end + 2 /\ DOMAIN r.value = named
           /\ Len(text) < end + 2 => o >= Len(text)
  <2> DEFINE e == end + 2
             mbody == m.body
  <2>1. rest.error = "success" /\ rest.value = Message(m.method, m.uri, m.status, m.version, r.value, body)
    BY <1>2, <1>3, <1>6 DEF Found
  <2>2. /\ e \in Nat /\ mbody \in Text /\ At(whole, e, mbody) /\ Len(whole) <= e + Len(mbody)
        /\ Len(text) >= e => o = e /\ DOMAIN r.value = named
        /\ Len(text) < e => o >= Len(text)
        /\ o \in Nat
    <3>1. At(whole, end + 2, m.body) /\ Len(whole) <= end + 2 + Len(m.body)
      BY DEF Behind
    <3>2. mbody \in Text /\ At(whole, e, mbody) /\ Len(whole) <= e + Len(mbody)
      BY Zenon, <1>3, <3>1
    <3>3. e \in Nat
      OBVIOUS
    <3>4. /\ Len(text) >= e => o = e /\ DOMAIN r.value = named
          /\ Len(text) < e => o >= Len(text)
          /\ o \in Nat
      BY <1>6
    <3>5. QED
      BY <3>2, <3>3, <3>4
  <2> HIDE DEF e, mbody, body
  <2>3. IsPrefix(body, mbody) /\ (Len(text) >= Len(whole) => body = mbody)
    BY <2>2, BodyRoundTrip DEF body
  <2>4. PartOf(rest.value, m)
    BY <1>6, <2>1, <2>3 DEF PartOf, named, mbody
  <2>5. ASSUME Len(text) >= Len(whole)
        PROVE  rest.value = m
    <3>1. DOMAIN r.value = named
      BY <1>0, <1>4, <2>2, <2>5 DEF e
    <3>2. r.value = h
      BY <1>6, <3>1 DEF named, MessageOf, IsHeaders
    <3>3. body = m.body
      BY <2>3, <2>5 DEF mbody
    <3>4. QED
      BY <1>3, <2>1, <3>2, <3>3 DEF MessageOf
  <2>6. QED
    BY <2>1, <2>4, <2>5 DEF rest
<1>7. QED
  BY <1>1, <1>5, <1>6 DEF SomeOf, o

\* A request has a first line that is told from every other.
LEMMA RequestLineText ==
  ASSUME NEW method \in Text, Len(method) = 1, NEW version \in Text, Len(version) = 1,
         NEW uri \in Text
  PROVE  LET line == method \o Space \o uri \o Space \o version
         IN /\ line \in Text /\ Len(line) = Len(uri) + 4
            /\ \A whole \in Text : At(whole, 0, line) =>
                 /\ whole[1] = method[1] /\ whole[2] = "SP"
                 /\ \A j \in 1..Len(uri) : whole[2 + j] = uri[j]
                 /\ whole[Len(uri) + 3] = "SP" /\ whole[Len(uri) + 4] = version[1]
<1> DEFINE u == Len(uri)
           a == method \o Space
           b == a \o uri
           c == b \o Space
           d == c \o version
<1>0. u \in Nat
  BY DEF Text
<1>1. a \in Text /\ Len(a) = 2
  <2>1. a \in Text /\ Len(a) = Len(method) + Len(Space)
    BY Parts, TextConcat
  <2> HIDE DEF a
  <2>2. QED
    BY <2>1, Parts
<1> HIDE DEF a
<1>2. b \in Text /\ Len(b) = u + 2
  <2>1. b \in Text /\ Len(b) = Len(a) + u
    BY <1>1, TextConcat
  <2> HIDE DEF b
  <2>2. QED
    BY <1>0, <1>1, <2>1
<1> HIDE DEF b
<1>3. c \in Text /\ Len(c) = u + 3
  <2>1. c \in Text /\ Len(c) = Len(b) + Len(Space)
    BY <1>2, Parts, TextConcat
  <2> HIDE DEF c
  <2>2. QED
    BY <1>0, <1>2, <2>1, Parts
<1> HIDE DEF c
<1>4. d \in Text /\ Len(d) = u + 4
  <2>1. d \in Text /\ Len(d) = Len(c) + Len(version)
    BY <1>3, TextConcat
  <2> HIDE DEF d
  <2>2. QED
    BY <1>0, <1>3, <2>1
<1>5. ASSUME NEW whole \in Text, At(whole, 0, d)
      PROVE  /\ whole[1] = method[1] /\ whole[2] = "SP"
             /\ \A j \in 1..u : whole[2 + j] = uri[j]
             /\ whole[u + 3] = "SP" /\ whole[u + 4] = version[1]
  <2>1. At(whole, 0, c) /\ At(whole, 0 + Len(c), version)
    BY <1>3, <1>5, AtConcat
  <2>2. At(whole, 0, b) /\ At(whole, 0 + Len(b), Space)
    BY <1>2, <2>1, Parts, AtConcat DEF c
  <2>3. At(whole, 0, a) /\ At(whole, 0 + Len(a), uri)
    BY <1>1, <2>2, AtConcat DEF b
  <2>4. At(whole, 0, method) /\ At(whole, 0 + Len(method), Space)
    BY <2>3, Parts, AtConcat DEF a
  <2>5. whole[1] = method[1] /\ whole[2] = "SP"
    BY <2>4, Parts DEF At
  <2>6. \A j \in 1..u : whole[2 + j] = uri[j]
    BY <1>1, <2>3 DEF At
  <2>7. whole[u + 3] = "SP"
    <3>1. whole[0 + Len(b) + 1] = "SP"
      BY <2>2, Parts DEF At
    <3>2. 0 + Len(b) + 1 = u + 3
      BY <1>0, <1>2
    <3>3. QED
      BY <3>1, <3>2
  <2>8. whole[u + 4] = version[1]
    <3>1. whole[0 + Len(c) + 1] = version[1]
      BY <2>1 DEF At
    <3>2. 0 + Len(c) + 1 = u + 4
      BY <1>0, <1>3
    <3>3. QED
      BY <3>1, <3>2
  <2>9. QED
    BY <2>5, <2>6, <2>7, <2>8
<1> HIDE DEF d, u
<1>6. QED
  BY <1>4, <1>5 DEF a, b, c, d, u

\* So has a response.
LEMMA StatusLineText ==
  ASSUME NEW version \in Text, Len(version) = 1, NEW status \in Text, Len(status) = 1
  PROVE  LET line == version \o Space \o status
         IN /\ line \in Text /\ Len(line) = 3
            /\ \A whole \in Text : At(whole, 0, line) =>
                 whole[1] = version[1] /\ whole[2] = "SP" /\ whole[3] = status[1]
<1> DEFINE a == version \o Space
           b == a \o status
<1>1. a \in Text /\ Len(a) = 2
  <2>1. a \in Text /\ Len(a) = Len(version) + Len(Space)
    BY Parts, TextConcat
  <2> HIDE DEF a
  <2>2. QED
    BY <2>1, Parts
<1> HIDE DEF a
<1>2. b \in Text /\ Len(b) = 3
  <2>1. b \in Text /\ Len(b) = Len(a) + Len(status)
    BY <1>1, TextConcat
  <2> HIDE DEF b
  <2>2. QED
    BY <1>1, <2>1
<1>3. ASSUME NEW whole \in Text, At(whole, 0, b)
      PROVE  whole[1] = version[1] /\ whole[2] = "SP" /\ whole[3] = status[1]
  <2>1. At(whole, 0, a) /\ At(whole, 0 + Len(a), status)
    BY <1>1, <1>3, AtConcat
  <2>2. At(whole, 0, version) /\ At(whole, 0 + Len(version), Space)
    BY <2>1, Parts, AtConcat DEF a
  <2>3. whole[0 + Len(a) + 1] = status[1]
    BY <2>1 DEF At
  <2>4. 0 + Len(a) + 1 = 3
    BY <1>1
  <2>5. whole[1] = version[1] /\ whole[2] = "SP"
    BY <2>2, Parts DEF At
  <2>6. QED
    BY <2>3, <2>4, <2>5
<1> HIDE DEF b
<1>4. QED
  BY <1>2, <1>3 DEF a, b

\* A key is known by its string.
LEMMA OneKey ==
  ASSUME NEW strings \in {http_method_strings, http_status_strings},
         NEW k1 \in DOMAIN strings, NEW k2 \in DOMAIN strings,
         strings[k1][1] = strings[k2][1]
  PROVE  k1 = k2
<1>1. CASE strings = http_method_strings
  BY <1>1 DEF http_method_strings
<1>2. CASE strings = http_status_strings
  BY <1>2 DEF http_status_strings
<1>3. QED
  BY <1>1, <1>2

\* The text of a request.
LEMMA RequestText ==
  ASSUME NEW m, MessageOf("request", m),
         NEW s \in Nat, s = Len(m.uri) + 6, NEW end \in Nat, end = s + Len(Lines(m.headers))
  PROVE  LET whole == to_string("request", m)
         IN /\ whole \in Text /\ Behind(whole, s, end, m)
            /\ whole[1] = http_method_strings[m.method][1] /\ whole[2] = "SP"
            /\ \A j \in 1..Len(m.uri) : whole[2 + j] = m.uri[j]
            /\ whole[Len(m.uri) + 3] = "SP"
            /\ whole[Len(m.uri) + 4] = http_version_strings["http_1_1"][1]
<1> DEFINE method == http_method_strings[m.method]
           version == http_version_strings["http_1_1"]
           uri == m.uri
           body == m.body
           lines == Lines(m.headers)
           line == start_line("request", m)
           whole == to_string("request", m)
<1>1. m.version = "http_1_1" /\ uri \in Text /\ body \in Text /\ m.method \in DOMAIN http_method_strings
  BY DEF MessageOf, Message
<1>2. method \in Text /\ Len(method) = 1 /\ version \in Text /\ Len(version) = 1
  BY <1>1, StringsAreCharacters, OneVersion DEF IsStrings
<1>3. lines \in Text
  BY LinesText DEF MessageOf
<1>4. line = method \o Space \o uri \o Space \o version
  BY <1>1 DEF start_line
<1>5. whole = line \o crlf \o lines \o crlf \o body
  BY DEF to_string
<1>6. s = Len(uri) + 6 /\ end = s + Len(lines)
  OBVIOUS
<1> HIDE DEF method, version, uri, body, lines, line, whole
<1>7. /\ line \in Text /\ Len(line) = Len(uri) + 4
      /\ \A w \in Text : At(w, 0, line) =>
           /\ w[1] = method[1] /\ w[2] = "SP"
           /\ \A j \in 1..Len(uri) : w[2 + j] = uri[j]
           /\ w[Len(uri) + 3] = "SP" /\ w[Len(uri) + 4] = version[1]
  BY <1>1, <1>2, <1>4, RequestLineText
<1>8. line \in Text /\ s = Len(line) + 2
  <2>1. Len(uri) \in Nat
    BY <1>1 DEF Text
  <2>2. QED
    BY <1>6, <1>7, <2>1
<1>9. /\ whole \in Text /\ Len(whole) = end + 2 + Len(body)
      /\ At(whole, 0, line) /\ At(whole, s, lines)
      /\ At(whole, end, crlf) /\ At(whole, end + 2, body)
  <2> DEFINE s2 == Len(line) + 2
             end2 == Len(line) + 2 + Len(lines)
  <2>1. /\ whole \in Text /\ Len(whole) = end2 + 2 + Len(body)
        /\ At(whole, 0, line) /\ At(whole, s2, lines)
        /\ At(whole, end2, crlf) /\ At(whole, end2 + 2, body)
    BY <1>1, <1>3, <1>5, <1>8, LinesAndBody
  <2>2. s = s2 /\ end = end2
    BY <1>6, <1>8
  <2> HIDE DEF s2, end2
  <2>3. QED
    BY <2>1, <2>2
<1>10. Behind(whole, s, end, m)
  <2>1. Len(whole) <= end + 2 + Len(body)
    <3>1. Len(body) \in Nat
      BY <1>1 DEF Text
    <3>2. QED
      BY <1>9, <3>1
  <2>2. QED
    BY <1>9, <2>1 DEF Behind, lines, body
<1>11. QED
  BY <1>7, <1>9, <1>10 DEF whole, uri, method, version

\* The text of a response.
LEMMA ResponseText ==
  ASSUME NEW m, MessageOf("response", m),
         NEW end \in Nat, end = 5 + Len(Lines(m.headers))
  PROVE  LET whole == to_string("response", m)
         IN /\ whole \in Text /\ Behind(whole, 5, end, m)
            /\ whole[1] = http_version_strings["http_1_1"][1] /\ whole[2] = "SP"
            /\ whole[3] = http_status_strings[m.status][1]
<1> DEFINE status == http_status_strings[m.status]
           version == http_version_strings["http_1_1"]
           body == m.body
           lines == Lines(m.headers)
           line == start_line("response", m)
           whole == to_string("response", m)
           s == 5
<1>1. m.version = "http_1_1" /\ body \in Text /\ m.status \in DOMAIN http_status_strings
  BY DEF MessageOf, Message
<1>2. status \in Text /\ Len(status) = 1 /\ version \in Text /\ Len(version) = 1
  BY <1>1, StringsAreCharacters, OneVersion DEF IsStrings
<1>3. lines \in Text
  BY LinesText DEF MessageOf
<1>4. line = version \o Space \o status
  BY <1>1 DEF start_line
<1>5. whole = line \o crlf \o lines \o crlf \o body
  BY DEF to_string
<1>6. end = s + Len(lines) /\ s \in Nat
  OBVIOUS
<1> HIDE DEF status, version, body, lines, line, whole
<1>7. /\ line \in Text /\ Len(line) = 3
      /\ \A w \in Text : At(w, 0, line) => w[1] = version[1] /\ w[2] = "SP" /\ w[3] = status[1]
  BY <1>2, <1>4, StatusLineText
<1>8. line \in Text /\ s = Len(line) + 2
  BY <1>7
<1> HIDE DEF s
<1>9. /\ whole \in Text /\ Len(whole) = end + 2 + Len(body)
      /\ At(whole, 0, line) /\ At(whole, s, lines)
      /\ At(whole, end, crlf) /\ At(whole, end + 2, body)
  <2> DEFINE s2 == Len(line) + 2
             end2 == Len(line) + 2 + Len(lines)
  <2>1. /\ whole \in Text /\ Len(whole) = end2 + 2 + Len(body)
        /\ At(whole, 0, line) /\ At(whole, s2, lines)
        /\ At(whole, end2, crlf) /\ At(whole, end2 + 2, body)
    BY <1>1, <1>3, <1>5, <1>8, LinesAndBody
  <2>2. s = s2 /\ end = end2
    BY <1>6, <1>8
  <2> HIDE DEF s2, end2
  <2>3. QED
    BY <2>1, <2>2
<1>10. Behind(whole, s, end, m)
  <2>1. Len(whole) <= end + 2 + Len(body)
    <3>1. Len(body) \in Nat
      BY <1>1 DEF Text
    <3>2. QED
      BY <1>9, <3>1
  <2>2. end = s + Len(Lines(m.headers))
    BY <1>6 DEF lines
  <2>3. QED
    BY <1>9, <2>1, <2>2 DEF Behind, lines, body
<1>11. QED
  BY <1>7, <1>9, <1>10 DEF whole, status, version, s

\* The first line of the beginning of the text of a request, when it has one.
LEMMA RequestLineRoundTrip ==
  ASSUME NEW text \in Text, NEW whole \in Text, Begins(text, whole),
         NEW key \in DOMAIN http_method_strings, NEW uri \in Text,
         uri # <<>>, uri[1] = "/", ~Holds(uri, Space),
         whole[1] = http_method_strings[key][1], whole[2] = "SP",
         \A j \in 1..Len(uri) : whole[2 + j] = uri[j],
         whole[Len(uri) + 3] = "SP", whole[Len(uri) + 4] = http_version_strings["http_1_1"][1]
  PROVE  /\ \A method : \A end \in Nat : RequestLine(text, method, end) =>
              method = key /\ end = Len(uri) + 2 /\ SubSeq(text, 3, end) = uri
         /\ Len(text) > Len(uri) + 4 => RequestLine(text, key, Len(uri) + 2)
<1> DEFINE u == Len(uri)
<1>0. u \in Nat /\ u >= 1 /\ Len(text) \in Nat
  BY EmptySeq DEF Text
<1>1. \A j \in 1..u : ~(uri[j] = "SP")
  <2> SUFFICES ASSUME NEW j \in 1..u
               PROVE  ~(uri[j] = "SP")
    OBVIOUS
  <2> DEFINE i == j - 1
  <2>1. i \in 0..Len(uri) /\ i + 1 = j /\ i < Len(uri)
    BY <1>0
  <2> HIDE DEF i
  <2>2. ~starts_with(uri, i, Space)
    BY <2>1 DEF Holds
  <2>3. QED
    BY <2>1, <2>2, StartsWithSpace
<1> HIDE DEF u
<1>2. \A j \in 1..u : whole[2 + j] = uri[j]
  BY DEF u
<1>3. whole[u + 3] = "SP" /\ whole[u + 4] = http_version_strings["http_1_1"][1]
  BY DEF u
<1>4. ASSUME NEW method, NEW end \in Nat, RequestLine(text, method, end)
      PROVE  method = key /\ end = u + 2 /\ SubSeq(text, 3, end) = uri
  <2>1. /\ method \in DOMAIN http_method_strings /\ 0 < Len(text)
        /\ text[1] = http_method_strings[method][1]
        /\ end \in 3..Len(text) - 1
        /\ text[end + 1] = "SP" /\ \A i \in 2..end - 1 : text[i + 1] # "SP"
    BY <1>4 DEF RequestLine, KeyAt, UriAt
  <2>2. method = key
    <3>1. text[1] = whole[1]
      BY <1>0, <2>1 DEF Begins
    <3>2. QED
      BY <2>1, <3>1, OneKey
  <2>3. ~(end > u + 2)
    <3> SUFFICES ASSUME end > u + 2
                 PROVE  FALSE
      OBVIOUS
    <3>1. u + 2 \in 2..end - 1 /\ u + 3 \in 1..Len(text)
      BY <1>0, <2>1
    <3>2. ~(text[(u + 2) + 1] = "SP")
      BY <2>1, <3>1
    <3>3. text[u + 3] = whole[u + 3]
      BY <3>1 DEF Begins
    <3>4. QED
      BY <1>0, <1>3, <3>2, <3>3
  <2>4. ~(end < u + 2)
    <3> SUFFICES ASSUME end < u + 2
                 PROVE  FALSE
      OBVIOUS
    <3> DEFINE j == end - 1
    <3>1. j \in 1..u /\ 2 + j = end + 1 /\ end + 1 \in 1..Len(text)
      BY <1>0, <2>1
    <3> HIDE DEF j
    <3>2. text[end + 1] = whole[end + 1]
      BY <3>1 DEF Begins
    <3>3. QED
      BY <1>1, <1>2, <2>1, <3>1, <3>2
  <2>5. end = u + 2
    BY <1>0, <2>3, <2>4
  <2>6. SubSeq(text, 3, end) = uri
    <3> DEFINE part == SubSeq(text, 3, end)
    <3>1. part \in Seq(Char) /\ Len(part) = u /\ \A j \in 1..u : part[j] = text[2 + j]
      BY <1>0, <2>1, <2>5 DEF Text
    <3> HIDE DEF part
    <3>2. \A j \in 1..u : text[2 + j] = whole[2 + j]
      BY <1>0, <2>1, <2>5 DEF Begins
    <3>3. uri \in Seq(Char) /\ Len(uri) = u
      BY DEF Text, u
    <3>4. \A j \in 1..u : part[j] = uri[j]
      BY <1>2, <3>1, <3>2
    <3>5. part = uri
      BY <3>1, <3>3, <3>4, SeqEqual
    <3>6. QED
      BY <3>5 DEF part
  <2>7. QED
    BY <2>2, <2>5, <2>6
<1>5. ASSUME Len(text) > u + 4
      PROVE  RequestLine(text, key, u + 2)
  <2>1. \A i \in 1..u + 4 : text[i] = whole[i]
    BY <1>0, <1>5 DEF Begins
  <2>2. KeyAt(http_method_strings, text, 0, key) /\ ~Splits(text, 1)
    <3>1. text[1] = whole[1] /\ text[2] = "SP"
      BY <1>0, <2>1
    <3>2. QED
      BY <1>0, <1>5, <3>1, SpaceSplitsNot DEF KeyAt
  <2>3. KeyAt(http_version_strings, text, u + 3, "http_1_1")
    <3>1. text[u + 4] = whole[u + 4]
      BY <1>0, <2>1
    <3>2. (u + 3) + 1 = u + 4 /\ u + 3 < Len(text)
      BY <1>0, <1>5
    <3>3. QED
      BY <1>3, <3>1, <3>2, OneVersion DEF KeyAt
  <2>4. UriAt(text, 2, u + 2)
    <3>1. text[3] = "/"
      <4>1. text[3] = whole[3] /\ whole[2 + 1] = uri[1]
        BY <1>0, <1>2, <2>1
      <4>2. QED
        BY <4>1
    <3>2. text[(u + 2) + 1] = "SP"
      <4>1. text[u + 3] = whole[u + 3]
        BY <1>0, <2>1
      <4>2. QED
        BY <1>0, <1>3, <4>1
    <3>3. ASSUME NEW i \in 2..(u + 2) - 1
          PROVE  text[i + 1] # "SP"
      <4> DEFINE j == i - 1
      <4>1. j \in 1..u /\ 2 + j = i + 1 /\ i + 1 \in 1..u + 4
        BY <1>0
      <4> HIDE DEF j
      <4>2. text[i + 1] = uri[j]
        BY <1>2, <2>1, <4>1
      <4>3. QED
        BY <1>1, <4>1, <4>2
    <3>4. u + 2 \in 2 + 1..Len(text) - 1
      BY <1>0, <1>5
    <3>5. QED
      BY <3>1, <3>2, <3>3, <3>4 DEF UriAt
  <2>5. (u + 2) + 1 = u + 3
    BY <1>0
  <2>6. QED
    BY <2>2, <2>3, <2>4, <2>5 DEF RequestLine
<1>6. QED
  BY <1>4, <1>5 DEF u

\* What parse makes of the beginning of the text of a message.
RoundTripped(text, whole, m, r) ==
  /\ r.error = "success" => PartOf(r.value, m)
  /\ Len(text) >= Len(whole) => r.error = "success" /\ r.value = m

\* parse_request over a beginning of the text of a well-formed request.
LEMMA RequestRoundTrip ==
  ASSUME NEW m, MessageOf("request", m), WellFormed("request", m),
         NEW text \in Text, Len(text) > 0, Len(text) < npos,
         Begins(text, to_string("request", m))
  PROVE  RoundTripped(text, to_string("request", m), m, parse_request(text))
<1> DEFINE whole == to_string("request", m)
           key == m.method
           uri == m.uri
           u == Len(uri)
           s == u + 6
           stop == s + Len(Lines(m.headers))
           r == parse_request(text)
<1>0. /\ key \in DOMAIN http_method_strings /\ uri \in Text /\ m.status = "ok"
      /\ uri # <<>> /\ uri[1] = "/" /\ ~Holds(uri, Space) /\ Separable(m.headers)
  BY DEF MessageOf, WellFormed, Separable
<1>1. u \in Nat /\ s \in Nat /\ stop \in Nat
  <2>1. u \in Nat
    BY <1>0 DEF Text
  <2> DEFINE n == Len(Lines(m.headers))
  <2>2. n \in Nat
    BY LinesText DEF MessageOf, Text
  <2>3. s \in Nat
    BY <2>1
  <2> HIDE DEF n, s, u
  <2>4. s + n \in Nat
    BY <2>2, <2>3
  <2>5. QED
    BY <2>1, <2>3, <2>4 DEF n
<1>2. /\ whole \in Text /\ Behind(whole, s, stop, m)
      /\ whole[1] = http_method_strings[key][1] /\ whole[2] = "SP"
      /\ \A j \in 1..u : whole[2 + j] = uri[j]
      /\ whole[u + 3] = "SP"
      /\ whole[u + 4] = http_version_strings["http_1_1"][1]
  BY <1>1, RequestText
<1>3. Begins(text, whole)
  OBVIOUS
<1> HIDE DEF whole, s, stop, r
<1>4. /\ \A method : \A end \in Nat : RequestLine(text, method, end) =>
           method = key /\ end = Len(uri) + 2 /\ SubSeq(text, 3, end) = uri
      /\ Len(text) > Len(uri) + 4 => RequestLine(text, key, Len(uri) + 2)
  BY <1>0, <1>2, <1>3, RequestLineRoundTrip
<1>5. Len(text) >= Len(whole) => Len(text) > u + 4
  <2>1. stop >= s /\ stop + 2 <= Len(whole)
    <3>1. Len(Lines(m.headers)) \in Nat
      BY LinesText DEF MessageOf, Text
    <3>2. stop >= s
      BY <1>1, <3>1 DEF stop
    <3>3. QED
      BY <1>2, <3>2, Parts DEF Behind, At
  <2>2. Len(text) \in Nat /\ Len(whole) \in Nat
    BY <1>2 DEF Text
  <2>3. QED
    BY <1>1, <2>1, <2>2 DEF s
<1>6. CASE r.error # "success" /\ (\/ \A method : \A end \in Nat : ~RequestLine(text, method, end)
                                   \/ TooShort("request", text))
  <2>1. ~(Len(text) > u + 4)
    <3>1. u + 2 \in Nat
      BY <1>1
    <3>2. CASE \A method : \A end \in Nat : ~RequestLine(text, method, end)
      BY <1>4, <3>1, <3>2
    <3>3. CASE TooShort("request", text)
      <4>1. Len(text) <= 2
        BY <3>3 DEF TooShort
      <4>2. Len(text) \in Nat
        BY DEF Text
      <4>3. QED
        BY <1>1, <4>1, <4>2
    <3>4. QED
      BY <1>6, <3>2, <3>3
  <2>2. QED
    BY <1>5, <1>6, <2>1 DEF RoundTripped, r, whole
<1>7. CASE \E method : \E end \in Nat :
             /\ RequestLine(text, method, end)
             /\ r = Rest(text, end + 4, RequestStart(text, method, end))
  <2>1. PICK method : \E end \in Nat :
             /\ RequestLine(text, method, end)
             /\ r = Rest(text, end + 4, RequestStart(text, method, end))
    BY <1>7
  <2>2. PICK end \in Nat :
             /\ RequestLine(text, method, end)
             /\ r = Rest(text, end + 4, RequestStart(text, method, end))
    BY <2>1
  <2>3. method = key /\ end = u + 2 /\ SubSeq(text, 3, end) = uri
    BY <1>4, <2>2
  <2> DEFINE start == RequestStart(text, method, end)
  <2>4. start = Message(m.method, m.uri, m.status, "http_1_1", NoHeaders, <<>>)
    BY <1>0, <2>3 DEF RequestStart
  <2>5. end + 4 = s
    BY <1>1, <2>3 DEF s
  <2>6. r = Rest(text, s, start)
    BY <2>2, <2>5
  <2> HIDE DEF start
  <2>7. /\ Rest(text, s, start).error = "success" => PartOf(Rest(text, s, start).value, m)
        /\ Len(text) >= Len(whole) =>
             Rest(text, s, start).error = "success" /\ Rest(text, s, start).value = m
    BY <1>0, <1>1, <1>2, <1>3, <2>4, RestRoundTrip
  <2>8. QED
    BY <2>6, <2>7 DEF RoundTripped, r, whole
<1>8. QED
  BY <1>6, <1>7, ParseRequest DEF r, Fails, LineErrors

\* parse_response over a beginning of the text of a well-formed response.
LEMMA ResponseRoundTrip ==
  ASSUME NEW m, MessageOf("response", m), WellFormed("response", m),
         NEW text \in Text, Len(text) > 0, Len(text) < npos,
         Begins(text, to_string("response", m))
  PROVE  RoundTripped(text, to_string("response", m), m, parse_response(text))
<1> DEFINE whole == to_string("response", m)
           key == m.status
           n == Len(Lines(m.headers))
           s == 5
           stop == s + n
           r == parse_response(text)
<1>0. /\ key \in DOMAIN http_status_strings /\ m.method = "get" /\ m.uri = <<>>
      /\ Separable(m.headers)
  BY DEF MessageOf, WellFormed, Separable
<1>1. n \in Nat /\ s \in Nat
  BY LinesText DEF MessageOf, Text
<1> HIDE DEF n
<1>2. stop \in Nat /\ stop >= 5
  BY <1>1
<1>3. /\ whole \in Text /\ Behind(whole, s, stop, m)
      /\ whole[1] = http_version_strings["http_1_1"][1] /\ whole[2] = "SP"
      /\ whole[3] = http_status_strings[key][1]
  BY <1>2, ResponseText DEF n
<1>4. Begins(text, whole)
  OBVIOUS
<1> HIDE DEF whole, s, stop, r
<1>5. Len(text) \in Nat /\ Len(whole) \in Nat /\ Len(whole) >= 7
  <2>1. Len(text) \in Nat /\ Len(whole) \in Nat
    BY <1>3 DEF Text
  <2>2. stop + 2 <= Len(whole)
    BY <1>3, Parts DEF Behind, At
  <2>3. QED
    BY <1>2, <2>1, <2>2
<1>6. ASSUME NEW status, StatusLine(text, status)
      PROVE  status = key
  <2>1. status \in DOMAIN http_status_strings /\ 2 < Len(text) /\ text[3] = http_status_strings[status][1]
    BY <1>6 DEF StatusLine, KeyAt
  <2>2. text[3] = whole[3]
    BY <1>4, <1>5, <2>1 DEF Begins
  <2>3. QED
    BY <1>0, <1>3, <2>1, <2>2, OneKey
<1>7. ASSUME Len(text) >= 7
      PROVE  StatusLine(text, key)
  <2>1. text[1] = whole[1] /\ text[2] = whole[2] /\ text[3] = whole[3]
    BY <1>4, <1>5, <1>7 DEF Begins
  <2>2. ~Splits(text, 1)
    BY <1>3, <2>1, SpaceSplitsNot
  <2>3. QED
    BY <1>0, <1>3, <1>5, <1>7, <2>1, <2>2, OneVersion DEF StatusLine, KeyAt
<1>8. CASE r.error # "success" /\ ((\A status : ~StatusLine(text, status)) \/ TooShort("response", text))
  <2>1. ~(Len(text) >= 7)
    <3>1. CASE \A status : ~StatusLine(text, status)
      BY <1>7, <3>1
    <3>2. CASE TooShort("response", text)
      BY <1>5, <3>2 DEF TooShort
    <3>3. QED
      BY <1>8, <3>1, <3>2
  <2>2. ~(Len(text) >= Len(whole))
    BY <1>5, <2>1
  <2>3. QED
    BY <1>8, <2>2 DEF RoundTripped, r, whole
<1>9. CASE \E status : StatusLine(text, status) /\ r = Rest(text, 5, ResponseStart(status))
  <2>1. PICK status : StatusLine(text, status) /\ r = Rest(text, 5, ResponseStart(status))
    BY <1>9
  <2>2. status = key
    BY <1>6, <2>1
  <2> DEFINE start == ResponseStart(status)
  <2>3. start = Message(m.method, m.uri, m.status, "http_1_1", NoHeaders, <<>>)
    BY <1>0, <2>2 DEF ResponseStart
  <2>4. r = Rest(text, s, start)
    BY <2>1 DEF s
  <2> HIDE DEF start
  <2>5. /\ Rest(text, s, start).error = "success" => PartOf(Rest(text, s, start).value, m)
        /\ Len(text) >= Len(whole) =>
             Rest(text, s, start).error = "success" /\ Rest(text, s, start).value = m
    BY <1>0, <1>1, <1>2, <1>3, <1>4, <2>3, RestRoundTrip
  <2>6. QED
    BY <2>4, <2>5 DEF RoundTripped, r, whole
<1>10. QED
  BY <1>8, <1>9, ParseResponse DEF r, Fails, LineErrors

\* The text of a message is a text, and not the empty one.
LEMMA ToStringText ==
  ASSUME NEW kind \in Kinds, NEW m, MessageOf(kind, m)
  PROVE  to_string(kind, m) \in Text /\ Len(to_string(kind, m)) > 0
<1> DEFINE n == Len(Lines(m.headers))
           u == Len(m.uri)
           whole == to_string(kind, m)
<1>1. n \in Nat /\ u \in Nat
  BY LinesText DEF MessageOf, Text
<1> HIDE DEF n, u, whole
<1>2. ASSUME NEW s \in Nat, NEW end \in Nat, whole \in Text, Behind(whole, s, end, m)
      PROVE  Len(whole) > 0
  <2>1. end + 2 <= Len(whole)
    BY <1>2, Parts DEF Behind, At
  <2>2. Len(whole) \in Nat
    BY <1>2 DEF Text
  <2>3. QED
    BY <2>1, <2>2
<1>3. CASE kind = "request"
  <2> DEFINE s == u + 6
             end == s + n
  <2>1. s \in Nat /\ end \in Nat
    BY <1>1
  <2>2. s = Len(m.uri) + 6 /\ end = s + Len(Lines(m.headers))
    BY DEF n, u
  <2> HIDE DEF s, end
  <2>3. whole \in Text /\ Behind(whole, s, end, m)
    BY <1>3, <2>1, <2>2, RequestText DEF whole
  <2>4. QED
    BY <1>2, <2>1, <2>3 DEF whole
<1>4. CASE kind = "response"
  <2> DEFINE end == 5 + n
  <2>1. end \in Nat
    BY <1>1
  <2>2. end = 5 + Len(Lines(m.headers))
    BY DEF n
  <2> HIDE DEF end
  <2>3. whole \in Text /\ Behind(whole, 5, end, m)
    BY <1>4, <2>1, <2>2, ResponseText DEF whole
  <2>4. QED
    BY <1>2, <2>1, <2>3 DEF whole
<1>5. QED
  BY <1>3, <1>4 DEF Kinds

\* parse undoes to_string: the whole text of a message that is well formed gives the message,
\* the beginning of it a part of the message, or an error.
THEOREM ParseToString ==
  ASSUME NEW kind \in Kinds, NEW m, MessageOf(kind, m), WellFormed(kind, m),
         NEW text \in Text, Len(text) > 0, Len(text) < npos,
         IsPrefix(text, to_string(kind, m))
  PROVE  /\ parse(kind, text).error = "success" => PartOf(parse(kind, text).value, m)
         /\ text = to_string(kind, m) =>
              parse(kind, text).error = "success" /\ parse(kind, text).value = m
<1> DEFINE whole == to_string(kind, m)
<1>1. whole \in Text
  BY ToStringText
<1>2. Begins(text, whole)
  BY <1>1, Beginning
<1>3. RoundTripped(text, whole, m, parse(kind, text))
  <2>1. CASE kind = "request"
    BY <1>2, <2>1, RequestRoundTrip DEF parse
  <2>2. CASE kind = "response"
    BY <1>2, <2>2, ResponseRoundTrip DEF parse
  <2>3. QED
    BY <2>1, <2>2 DEF Kinds
<1> HIDE DEF whole
<1>4. text = whole => Len(text) >= Len(whole)
  BY <1>1 DEF Text
<1>5. QED
  BY <1>3, <1>4 DEF RoundTripped, whole
=============================================================================
