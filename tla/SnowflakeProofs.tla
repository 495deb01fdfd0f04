-------------------------- MODULE SnowflakeProofs --------------------------
(***************************************************************************)
(* Proofs about Snowflake, for bit-fields of any widths, any clock and any *)
(* number of ids.                                                          *)
(***************************************************************************)
EXTENDS Snowflake, TLAPS

\* The constructor has written everything but the sequence of timestamp 0.
Made(a) ==
  /\ a.at \in Nat
  /\ a.value \in Fields
  /\ a.value.timestamp = a.at % TimeMod
  /\ a.value.worker_id = 0 /\ a.value.process_id = 0
  /\ a.at % TimeMod # 0 => a.value.sequence = 0

Inv ==
  /\ now \in Nat /\ last_millisecond = 0
  /\ \A a \in made : Made(a)
  /\ given \in Ids /\ read = Unpack(given)

-----------------------------------------------------------------------------
(* Arithmetic.                                                             *)

\* The remainder is below the divisor.
LEMMA Remainder ==
  ASSUME NEW a \in Nat, NEW b \in Nat \ {0}
  PROVE  a % b \in 0..b - 1 /\ a \div b \in Nat /\ a = (a \div b) * b + (a % b)
  OBVIOUS

\* Quotient and remainder are unique.
LEMMA DivisionUnique ==
  ASSUME NEW b \in Nat \ {0},
         NEW q \in Nat, NEW r \in 0..b - 1, NEW p \in Nat, NEW s \in 0..b - 1,
         q * b + r = p * b + s
  PROVE  q = p /\ r = s
<1>1. ASSUME NEW x \in Nat, NEW y \in Nat, x < y PROVE x * b + b <= y * b
  <2>1. PICK d \in Nat : y = x + 1 + d
    <3>1. y - x - 1 \in Nat /\ y = x + 1 + (y - x - 1)
      BY <1>1
    <3> QED BY <3>1
  <2>2. y * b = x * b + b + d * b
    BY <2>1
  <2>3. d * b \in Nat /\ x * b \in Nat
    OBVIOUS
  <2> QED BY <2>2, <2>3
<1>2. q * b \in Nat /\ p * b \in Nat
  OBVIOUS
<1>3. ~(q < p)
  BY <1>1, <1>2
<1>4. ~(p < q)
  BY <1>1, <1>2
<1>5. q = p
  BY <1>3, <1>4
<1> QED BY <1>5, <1>2

\* Dividing twice is dividing by the product.
LEMMA DivideTwice ==
  ASSUME NEW a \in Nat, NEW b \in Nat \ {0}, NEW c \in Nat \ {0}
  PROVE  a \div (b * c) = (a \div b) \div c
<1> DEFINE q == a \div b
           p == q \div c
<1>1. q \in Nat /\ a % b \in 0..b - 1 /\ a = q * b + (a % b)
  BY Remainder
<1>2. p \in Nat /\ q % c \in 0..c - 1 /\ q = p * c + (q % c)
  BY Remainder, <1>1
<1> DEFINE s == a % b
           t == q % c
<1> HIDE DEF q, p, s, t
<1>3. a = p * (b * c) + (t * b + s)
  <2>1. a = (p * c + t) * b + s
    BY <1>1, <1>2 DEF s, t
  <2>2. (p * c + t) * b = p * (b * c) + t * b
    BY <1>1, <1>2 DEF s, t
  <2>3. p * (b * c) \in Nat /\ t * b \in Nat /\ s \in Nat
    BY <1>1, <1>2 DEF s, t
  <2> QED BY <2>1, <2>2, <2>3
<1>4. b * c \in Nat \ {0}
  OBVIOUS
<1>5. t * b + s \in 0..(b * c) - 1
  <2>1. PICK d \in Nat : c = t + 1 + d
    <3>1. c - t - 1 \in Nat /\ c = t + 1 + (c - t - 1)
      BY <1>2 DEF t
    <3> QED BY <3>1
  <2>2. t \in Nat /\ s \in 0..b - 1
    BY <1>1, <1>2 DEF s, t
  <2>3. b * c = t * b + b + d * b
    BY <2>1, <2>2
  <2>4. t * b \in Nat /\ d * b \in Nat
    BY <2>2
  <2> QED BY <2>2, <2>3, <2>4
<1>6. /\ a \div (b * c) \in Nat
      /\ a % (b * c) \in 0..(b * c) - 1
      /\ a = (a \div (b * c)) * (b * c) + (a % (b * c))
  BY <1>4, Remainder
<1>7. a \div (b * c) = p
  <2> DEFINE n == b * c
             low == t * b + s
  <2>1. n \in Nat \ {0} /\ low \in 0..n - 1 /\ a = p * n + low
    BY <1>3, <1>4, <1>5
  <2>2. a \div n \in Nat /\ a % n \in 0..n - 1 /\ a = (a \div n) * n + (a % n)
    BY <1>6
  <2> HIDE DEF n, low
  <2>3. a \div n = p
    BY <1>2, <2>1, <2>2, DivisionUnique
  <2> QED BY <2>3 DEF n
<1> QED BY <1>7 DEF p, q

\* A number below the divisor is its own remainder.
LEMMA SmallRemainder ==
  ASSUME NEW b \in Nat \ {0}, NEW a \in 0..b - 1
  PROVE  a % b = a
<1> a \in Nat
  OBVIOUS
<1>1. a % b \in 0..b - 1 /\ a \div b \in Nat /\ a = (a \div b) * b + (a % b)
  BY Remainder
<1>2. a = 0 * b + a
  OBVIOUS
<1> QED BY <1>1, <1>2, DivisionUnique

\* A number below x * b has a quotient by b below x.
LEMMA SmallQuotient ==
  ASSUME NEW b \in Nat \ {0}, NEW x \in Nat \ {0}, NEW a \in Nat, a < x * b
  PROVE  a \div b < x
<1> DEFINE q == a \div b
<1>1. q \in Nat /\ q * b <= a
  BY Remainder
<1> HIDE DEF q
<1>2. ASSUME x <= q PROVE x * b <= q * b
  <2>1. PICK d \in Nat : q = x + d
    <3>1. q - x \in Nat /\ q = x + (q - x)
      BY <1>1, <1>2
    <3> QED BY <3>1
  <2>2. q * b = x * b + d * b /\ d * b \in Nat /\ x * b \in Nat
    BY <2>1
  <2> QED BY <2>2
<1>3. q * b \in Nat /\ x * b \in Nat
  BY <1>1
<1> QED BY <1>1, <1>2, <1>3 DEF q

-----------------------------------------------------------------------------
(* Packing.                                                                *)

\* Two snowflakes with one number are equal.
LEMMA PackInjective ==
  ASSUME NEW v \in Fields, NEW w \in Fields, Pack(v) = Pack(w)
  PROVE  Same(v, w)
<1> DEFINE hi(u) == u.timestamp * WorkerMod + u.worker_id
           mid(u) == hi(u) * ProcessMod + u.process_id
<1>0. WorkerMod \in Nat \ {0} /\ ProcessMod \in Nat \ {0} /\ SequenceMod \in Nat \ {0}
  BY SnowflakeAssumption
<1>1. ASSUME NEW u \in Fields
      PROVE  /\ u.timestamp \in Nat
             /\ u.worker_id \in 0..WorkerMod - 1 /\ u.process_id \in 0..ProcessMod - 1
             /\ u.sequence \in 0..SequenceMod - 1
  BY SnowflakeAssumption DEF Fields
<1>2. ASSUME NEW u \in Fields PROVE hi(u) \in Nat
  BY <1>0, <1>1
<1>3. ASSUME NEW u \in Fields PROVE mid(u) \in Nat
  <2> HIDE DEF hi
  <2> QED BY <1>0, <1>1, <1>2
<1>4. mid(v) * SequenceMod + v.sequence = mid(w) * SequenceMod + w.sequence
  BY DEF Pack
<1>5. mid(v) = mid(w) /\ v.sequence = w.sequence
  <2>1. /\ SequenceMod \in Nat \ {0}
        /\ mid(v) \in Nat /\ v.sequence \in 0..SequenceMod - 1
        /\ mid(w) \in Nat /\ w.sequence \in 0..SequenceMod - 1
    BY <1>0, <1>1, <1>3
  <2> HIDE DEF mid
  <2> QED BY <2>1, <1>4, DivisionUnique
<1>6. hi(v) = hi(w) /\ v.process_id = w.process_id
  <2>1. /\ ProcessMod \in Nat \ {0}
        /\ hi(v) \in Nat /\ v.process_id \in 0..ProcessMod - 1
        /\ hi(w) \in Nat /\ w.process_id \in 0..ProcessMod - 1
    BY <1>0, <1>1, <1>2
  <2>2. hi(v) * ProcessMod + v.process_id = hi(w) * ProcessMod + w.process_id
    BY <1>5
  <2> HIDE DEF hi, mid
  <2> QED BY <2>1, <2>2, DivisionUnique
<1>7. v.timestamp = w.timestamp /\ v.worker_id = w.worker_id
  <2>1. /\ WorkerMod \in Nat \ {0}
        /\ v.timestamp \in Nat /\ v.worker_id \in 0..WorkerMod - 1
        /\ w.timestamp \in Nat /\ w.worker_id \in 0..WorkerMod - 1
    BY <1>0, <1>1
  <2>2. v.timestamp * WorkerMod + v.worker_id = w.timestamp * WorkerMod + w.worker_id
    BY <1>6
  <2> HIDE DEF hi, mid
  <2>3. \A x \in Nat, y \in 0..WorkerMod - 1 :
          v.timestamp * WorkerMod + v.worker_id = x * WorkerMod + y
          => v.timestamp = x /\ v.worker_id = y
    BY <2>1, DivisionUnique, ZenonT(60)
  <2> QED BY <2>1, <2>2, <2>3, ZenonT(60)
<1> QED BY <1>5, <1>6, <1>7 DEF Same

\* The fields taken from a number make up that number.
LEMMA UnpackInverse ==
  ASSUME NEW id \in Ids
  PROVE  Unpack(id) \in Fields /\ Pack(Unpack(id)) = id
<1> USE SnowflakeAssumption
<1> DEFINE q == id \div SequenceMod
           p == q \div ProcessMod
           o == p \div WorkerMod
<1>1. id \in Nat
  <2>1. TimeMod * WorkerMod \in Nat
    OBVIOUS
  <2>2. TimeMod * WorkerMod * ProcessMod \in Nat
    BY <2>1
  <2>3. TimeMod * WorkerMod * ProcessMod * SequenceMod \in Nat
    BY <2>2
  <2> QED BY <2>3 DEF Ids
<1>2. /\ q \in Nat /\ id % SequenceMod \in 0..SequenceMod - 1
      /\ id = q * SequenceMod + (id % SequenceMod)
  BY <1>1, Remainder
<1>3. /\ p \in Nat /\ q % ProcessMod \in 0..ProcessMod - 1
      /\ q = p * ProcessMod + (q % ProcessMod)
  BY <1>2, Remainder
<1>4. /\ o \in Nat /\ p % WorkerMod \in 0..WorkerMod - 1
      /\ p = o * WorkerMod + (p % WorkerMod)
  BY <1>3, Remainder
<1>5. id \div (SequenceMod * ProcessMod) = p
  BY <1>1, DivideTwice
<1>6. id \div (SequenceMod * ProcessMod * WorkerMod) = o
  <2>1. SequenceMod * ProcessMod \in Nat \ {0}
    OBVIOUS
  <2>2. id \div ((SequenceMod * ProcessMod) * WorkerMod)
          = (id \div (SequenceMod * ProcessMod)) \div WorkerMod
    BY <1>1, <2>1, DivideTwice
  <2> QED BY <2>2, <1>5
<1>7. o < TimeMod
  <2>1. /\ TimeMod * WorkerMod \in Nat \ {0}
        /\ (TimeMod * WorkerMod) * ProcessMod \in Nat \ {0}
    OBVIOUS
  <2>2. id < ((TimeMod * WorkerMod) * ProcessMod) * SequenceMod
    BY <2>1 DEF Ids
  <2>3. q < (TimeMod * WorkerMod) * ProcessMod
    BY <1>1, <2>1, <2>2, SmallQuotient
  <2> HIDE DEF q
  <2>4. p < TimeMod * WorkerMod
    BY <1>2, <2>1, <2>3, SmallQuotient
  <2> HIDE DEF p
  <2> QED BY <1>3, <2>4, SmallQuotient
<1>8. o % TimeMod = o
  BY <1>4, <1>7, SmallRemainder
<1>9. Unpack(id) = [timestamp |-> o, worker_id |-> p % WorkerMod,
                    process_id |-> q % ProcessMod, sequence |-> id % SequenceMod]
  <2> HIDE DEF q, p, o
  <2>1. id \div SequenceMod = q
    BY DEF q
  <2> QED BY <1>5, <1>6, <1>8, <2>1 DEF Unpack
<1> HIDE DEF q, p, o
<1>10. Unpack(id) \in Fields
  BY <1>2, <1>3, <1>4, <1>7, <1>9 DEF Fields
<1>11. Pack(Unpack(id)) = id
  <2>1. Pack(Unpack(id)) = ((o * WorkerMod + (p % WorkerMod)) * ProcessMod + (q % ProcessMod))
                             * SequenceMod + (id % SequenceMod)
    BY <1>9 DEF Pack
  <2> QED BY <2>1, <1>2, <1>3, <1>4
<1> QED BY <1>10, <1>11

-----------------------------------------------------------------------------
(* The invariant.                                                          *)

\* Before the first id there is nothing to compare.
LEMMA InitInv ==
  Init => Inv
<1>1. 0 \in Ids
  <2> USE SnowflakeAssumption
  <2>1. TimeMod * WorkerMod \in Nat \ {0}
    OBVIOUS
  <2>2. TimeMod * WorkerMod * ProcessMod \in Nat \ {0}
    BY <2>1
  <2>3. TimeMod * WorkerMod * ProcessMod * SequenceMod \in Nat \ {0}
    BY <2>2
  <2> QED BY <2>3 DEF Ids
<1> QED BY <1>1, SnowflakeAssumption DEF Init, Inv

\* A tick of the clock and a new id keep what each id was made from.
LEMMA StepInv ==
  Inv /\ [Next]_vars => Inv'
<1> SUFFICES ASSUME Inv, [Next]_vars PROVE Inv'
  OBVIOUS
<1> USE SnowflakeAssumption
<1>1. CASE Make
  <2>1. PICK sequence \in NewSequence(now % TimeMod) :
          made' = made \cup {[at |-> now,
                              value |-> [timestamp |-> now % TimeMod, worker_id |-> 0,
                                         process_id |-> 0, sequence |-> sequence]]}
    BY <1>1 DEF Make
  <2>2. now % TimeMod \in 0..TimeMod - 1
    BY Remainder DEF Inv
  <2>3. /\ sequence \in 0..SequenceMod - 1
        /\ now % TimeMod # 0 => sequence = 0
    BY <2>2 DEF NewSequence, Inv
  <2>4. Made([at |-> now,
              value |-> [timestamp |-> now % TimeMod, worker_id |-> 0,
                         process_id |-> 0, sequence |-> sequence]])
    BY <2>2, <2>3 DEF Made, Fields, Inv
  <2> QED BY <1>1, <2>1, <2>4 DEF Make, Inv
<1>2. ASSUME NEW t \in 0..MaxTime, Tick(t) PROVE Inv'
  BY <1>2 DEF Tick, Inv
<1>3. ASSUME NEW id \in Ids, Read(id) PROVE Inv'
  BY <1>3 DEF Read, Inv
<1>4. CASE UNCHANGED vars
  BY <1>4 DEF vars, Inv
<1> QED BY <1>1, <1>2, <1>3, <1>4 DEF Next

\* The static member is 0 for ever, and every id made is that of its millisecond.
THEOREM SnowflakeInvariant == Spec => []Inv
<1> QED BY InitInv, StepInv, PTL DEF Spec

\* Whatever the clock does, two ids made in one millisecond are equal, and ids made in
\* two are not, up to the wrap of the timestamp, at whose value 0 they may differ
\* (snowflake::snowflake).
THEOREM SnowflakeCollide == Spec => []CollideExactly
<1>1. Inv => CollideExactly
  BY DEF Inv, Made, CollideExactly, Same
<1> QED BY <1>1, SnowflakeInvariant, PTL

\* For bit-fields of any widths, a number survives snowflake(id) and operator uint64_t,
\* and the two forms of operator== agree.
THEOREM SnowflakeNumber == Spec => []NumberIsIdentity
<1>1. Inv => NumberIsIdentity
  <2> SUFFICES ASSUME Inv PROVE NumberIsIdentity
    OBVIOUS
  <2>1. read \in Fields /\ Pack(read) = given
    BY UnpackInverse DEF Inv
  <2>2. ASSUME NEW a \in made, Same(a.value, read) PROVE SameId(a.value, given)
    BY <2>1, <2>2 DEF Same, SameId, Pack
  <2>3. ASSUME NEW a \in made, SameId(a.value, given) PROVE Same(a.value, read)
    <3>1. a.value \in Fields
      BY DEF Inv, Made
    <3> QED BY <2>1, <2>3, <3>1, PackInjective DEF SameId
  <2> QED BY <2>1, <2>2, <2>3 DEF NumberIsIdentity
<1> QED BY <1>1, SnowflakeInvariant, PTL
=============================================================================
