----------------------------- MODULE Snowflake -----------------------------
(***************************************************************************)
(* pine::snowflake (shared/include/snowflake.h, shared/src/snowflake.cpp): *)
(* ids of 64 bits, made of the time in milliseconds, a worker, a process   *)
(* and a sequence number, each in a bit-field.  Every connection is given  *)
(* one when it is made.                                                    *)
(***************************************************************************)
EXTENDS Integers, FiniteSets

CONSTANTS TimeMod, WorkerMod, ProcessMod, SequenceMod, \* 2^42, 2^5, 2^5 and 2^12
          MaxTime,  \* a bound: the clock shows at most this
          MaxIds    \* a bound: the number of ids made

ASSUME SnowflakeAssumption ==
  /\ TimeMod \in Nat \ {0} /\ WorkerMod \in Nat \ {0}
  /\ ProcessMod \in Nat \ {0} /\ SequenceMod \in Nat \ {0}
  /\ MaxTime \in Nat /\ MaxIds \in Nat

VARIABLES
  now,               \* system_clock::now(), in milliseconds since the epoch
  last_millisecond,  \* the static member
  count,             \* history: the number of ids made
  made,              \* history: the ids, and the times when they were made
  given, read        \* history: the last number given to a snowflake, and its fields

vars == <<now, last_millisecond, count, made, given, read>>

Fields ==
  [timestamp : 0..TimeMod - 1, worker_id : 0..WorkerMod - 1,
   process_id : 0..ProcessMod - 1, sequence : 0..SequenceMod - 1]

Ids == 0 .. TimeMod * WorkerMod * ProcessMod * SequenceMod - 1

\* Mutant: what is above the sequence is shifted by one bit too few.
Pack_Overlaps(v) ==
  ((v.timestamp * WorkerMod + v.worker_id) * ProcessMod + v.process_id) * (SequenceMod \div 2)
  + v.sequence

\* operator uint64_t
Pack(v) ==
  ((v.timestamp * WorkerMod + v.worker_id) * ProcessMod + v.process_id) * SequenceMod
  + v.sequence

\* The fields of snowflake(id).
Unpack(id) ==
  [timestamp |-> (id \div (SequenceMod * ProcessMod * WorkerMod)) % TimeMod,
   worker_id |-> (id \div (SequenceMod * ProcessMod)) % WorkerMod,
   process_id |-> (id \div SequenceMod) % ProcessMod,
   sequence |-> id % SequenceMod]

\* operator== of two snowflakes, and of a snowflake and a number.
Same(v, w) ==
  /\ v.timestamp = w.timestamp /\ v.worker_id = w.worker_id
  /\ v.process_id = w.process_id /\ v.sequence = w.sequence

SameId(v, id) == Pack(v) = id

-----------------------------------------------------------------------------

Init ==
  /\ now \in 0..MaxTime
  /\ last_millisecond = 0
  /\ count = 0 /\ made = {}
  /\ given = 0 /\ read = Unpack(0)

\* The clock goes on, or is set.
Tick(t) ==
  /\ now' = t
  /\ UNCHANGED <<last_millisecond, count, made, given, read>>

\* snowflake(id), operator=(id).
Read(id) ==
  /\ given' = id /\ read' = Unpack(id)
  /\ UNCHANGED <<now, last_millisecond, count, made>>

\* Mutant: no branch sets the sequence to 0.
NewSequence_Stale(timestamp) == 0..SequenceMod - 1

\* The member that is incremented has not been initialised: it may be anything.
NewSequence(timestamp) ==
  IF last_millisecond = timestamp THEN 0..SequenceMod - 1 ELSE {0}

\* snowflake(): the bit-field takes the low bits of the time, and last_millisecond is
\* not written.
Make ==
  /\ count < MaxIds
  /\ \E sequence \in NewSequence(now % TimeMod) :
       made' = made \cup {[at |-> now,
                           value |-> [timestamp |-> now % TimeMod, worker_id |-> 0,
                                      process_id |-> 0, sequence |-> sequence]]}
  /\ count' = count + 1
  /\ UNCHANGED <<now, last_millisecond, given, read>>

Next == Make \/ (\E t \in 0..MaxTime : Tick(t)) \/ \E id \in Ids : Read(id)

Spec == Init /\ [][Next]_vars
-----------------------------------------------------------------------------
(* Properties.                                                             *)

\* Two ids are equal exactly when they were made in the same millisecond, or a number of
\* milliseconds apart that the bit-field does not hold, however many were made in
\* between.  Only at timestamp 0, the initial last_millisecond, may they differ.  The
\* header says the opposite: "A snowflake is a unique id", whose sequence is
\* "incremented every time a snowflake is generated in the same millisecond".
CollideExactly ==
  \A a, b \in made :
    IF a.at % TimeMod # b.at % TimeMod THEN ~Same(a.value, b.value)
    ELSE a.at % TimeMod # 0 => Same(a.value, b.value)

\* A snowflake made from a number is that number again, and comparing an id with it by
\* the fields is the same as comparing the numbers.
NumberIsIdentity ==
  /\ Pack(read) = given
  /\ \A a \in made : Same(a.value, read) <=> SameId(a.value, given)
=============================================================================
