--------------------------- MODULE ExpectedProofs ---------------------------
(***************************************************************************)
(* Theorems about Expected, for any pairs of types, any number of objects  *)
(* and any contents.                                                       *)
(***************************************************************************)
EXTENDS Expected, TLAPS

\* What a call can have made of its object.
Results == [slot : Slots, ending : Endings, overwrote : BOOLEAN]

\* No construction of a T from arguments throws: then flags are to be trusted.
Safe == ~May("make", "T")

\* A result of a call on an object: whether it returns or throws, the flag of the
\* object names its member, and the call has had a meaning.
Good(t) ==
  /\ t \in Results /\ ~t.overwrote
  /\ Safe => t.ending # "undefined" /\ (t.ending \in {"returned", "threw"} => Tracked(t.slot))

\* A result of a constructor: if it throws there is no object.
Made(t, call) ==
  /\ t \in Results /\ (t.overwrote => call = "convert")
  /\ Safe => t.ending # "undefined" /\ (t.ending = "returned" => Tracked(t.slot))

\* A call that has not thrown, and one that has destroyed the member.
Start(r) == Good(r) /\ r.ending \in {"returned", "undefined"}

Bare(r) ==
  /\ r \in Results /\ ~r.overwrote /\ r.ending \in {"returned", "undefined"}
  /\ r.ending = "returned" => r.slot.live = "none"
  /\ Safe => r.ending = "returned"

\* The member that the flag names.
Named(s) == IF s.has THEN ValueMember ELSE "error"

\* The parts of IndInv; the types are fixed, and void has nothing to throw.
IndInv == TypeOK /\ FlagTracksMember /\ UndefinedNeedsThrow /\ OnlyConvertOverwrites

-----------------------------------------------------------------------------
(* The steps of a call.                                                    *)

\* expected<void, E> makes no T that could throw.
LEMMA VoidIsSafe ==
  ASSUME types \in Traits
  PROVE  types.void \in BOOLEAN /\ (types.void => Safe)
<1>1. types.void => \A operation \in types.throwing : operation[2] = "E"
  BY ExpectedAssumption
<1>2. <<"make", "T">>[2] # "E"
  OBVIOUS
<1>3. QED
  BY <1>1, <1>2, ExpectedAssumption DEF Safe, May

\* The content of a slot can be replaced; the flag and the member can be set together.
LEMMA SlotFields ==
  ASSUME NEW s \in Slots
  PROVE  /\ s.has \in BOOLEAN /\ s.live \in {"value", "error", "none"} /\ s.data \in Data
         /\ Spent(s) \in Slots /\ Spent(s).has = s.has /\ Spent(s).live = s.live
  BY DEF Slots, Spent, Data

\* A call that throws here leaves the object as it is.
LEMMA StepThrow ==
  ASSUME NEW r, Start(r)
  PROVE  Good(Throw(r))
  BY DEF Start, Good, Throw, Step, Results, Endings

\* Destroying the member leaves the object without one.
LEMMA StepDestroy ==
  ASSUME NEW r, Start(r)
  PROVE  Bare(Destroy(r, Named(r.slot)))
<1> DEFINE m == Named(r.slot)
<1>1. r \in Results /\ r.slot \in Slots
  BY DEF Start, Good, Results
<1>2. Safe => r.ending = "returned" /\ r.slot.live = m
  BY DEF Start, Good, Named, Tracked
<1> DEFINE s == [has |-> r.slot.has, live |-> "none", data |-> Gone]
<1>3. s \in Slots
  BY <1>1 DEF Slots, Data
<1>4. [r EXCEPT !.slot.live = "none", !.slot.data = Gone]
        = [slot |-> s, ending |-> r.ending, overwrote |-> r.overwrote]
  <2>1. r = [slot |-> r.slot, ending |-> r.ending, overwrote |-> r.overwrote]
    BY <1>1 DEF Results
  <2>2. r.slot = [has |-> r.slot.has, live |-> r.slot.live, data |-> r.slot.data]
    BY <1>1 DEF Slots
  <2>3. [r EXCEPT !.slot.live = "none"]
          = [slot |-> [has |-> r.slot.has, live |-> "none", data |-> r.slot.data],
             ending |-> r.ending, overwrote |-> r.overwrote]
    BY <2>1, <2>2
  <2> DEFINE a == [r EXCEPT !.slot.live = "none"]
  <2>4. a.slot = [has |-> r.slot.has, live |-> "none", data |-> r.slot.data]
    BY <2>3
  <2>5. a = [slot |-> a.slot, ending |-> r.ending, overwrote |-> r.overwrote]
    BY <2>3
  <2> HIDE DEF a
  <2>6. [a EXCEPT !.slot.data = Gone]
          = [slot |-> [a.slot EXCEPT !.data = Gone],
             ending |-> r.ending, overwrote |-> r.overwrote]
    BY <2>5
  <2>7. [a.slot EXCEPT !.data = Gone] = s
    BY <2>4
  <2>8. QED
    BY <2>6, <2>7 DEF a
<1>5. [r EXCEPT !.ending = "undefined"]
        = [slot |-> r.slot, ending |-> "undefined", overwrote |-> r.overwrote]
  BY <1>1 DEF Results
<1> HIDE DEF m, s
<1>6. QED
  BY <1>1, <1>2, <1>3, <1>4, <1>5 DEF Bare, Start, Good, Destroy, Step, Results, Endings, m, s

\* Placing a member where none lives, and setting the flag to it.
LEMMA StepPlace ==
  ASSUME types \in Traits, NEW r, Bare(r), NEW d \in Data, NEW b \in BOOLEAN,
         NEW m \in {"value", "error"}, m = IF b THEN ValueMember ELSE "error"
  PROVE  /\ Good(Flag(Place(r, m, d), b)) /\ Good(Place(Flag(r, b), m, d))
         /\ Flag(Place(r, m, d), b).ending = r.ending
<1>1. r \in Results /\ r.slot \in Slots
  BY DEF Bare, Results
<1> DEFINE s == [has |-> b, live |-> m, data |-> d]
           t == [slot |-> s, ending |-> "returned", overwrote |-> FALSE]
<1>2. s \in Slots
  BY DEF Slots, ValueMember
<1>3. Tracked(s)
  BY DEF Tracked
<1>4. Good(t)
  BY <1>2, <1>3 DEF Good, Results, Endings
<1>5. CASE r.ending = "returned"
  <2>1. Flag(Place(r, m, d), b) = t
    BY <1>1, <1>5 DEF Flag, Place, Step, Bare, Results, Slots
  <2>2. Place(Flag(r, b), m, d) = t
    BY <1>1, <1>5 DEF Flag, Place, Step, Bare, Results, Slots
  <2>3. QED
    BY <1>4, <1>5, <2>1, <2>2
<1>6. CASE r.ending = "undefined"
  <2>1. Flag(Place(r, m, d), b) = r /\ Place(Flag(r, b), m, d) = r /\ Place(r, m, d) = r
    BY <1>6 DEF Flag, Place, Step
  <2>2. Good(r)
    BY <1>6 DEF Bare, Good
  <2>3. QED
    BY <1>1, <2>1, <2>2
<1>7. QED
  BY <1>5, <1>6 DEF Bare

\* Assigning to the member that the flag names.
LEMMA StepAssign ==
  ASSUME NEW r, Start(r), NEW d \in Data,
         NEW m \in {"value", "error"}, m = Named(r.slot)
  PROVE  Start(Assign(r, m, d))
<1>1. r \in Results /\ r.slot \in Slots
  BY DEF Start, Good, Results
<1> DEFINE s == [has |-> r.slot.has, live |-> m, data |-> d]
<1>2. s \in Slots
  BY <1>1 DEF Slots, Named, ValueMember
<1>3. Tracked(s)
  BY DEF Tracked, Named
<1>4. CASE r.ending = "returned" /\ r.slot.live = m
  <2>1. Assign(r, m, d) = [slot |-> s, ending |-> "returned", overwrote |-> r.overwrote]
    BY <1>1, <1>4 DEF Assign, Step, Results, Slots
  <2>2. QED
    BY <1>1, <1>2, <1>3, <2>1 DEF Start, Good, Results, Endings
<1>5. CASE r.ending = "returned" /\ r.slot.live # m
  <2>1. ~Safe
    BY <1>5 DEF Start, Good, Tracked, Named
  <2>2. Assign(r, m, d) = [slot |-> r.slot, ending |-> "undefined", overwrote |-> r.overwrote]
    BY <1>1, <1>5 DEF Assign, Step, Results
  <2>3. QED
    BY <1>1, <2>1, <2>2 DEF Start, Good, Results, Endings
<1>6. CASE r.ending = "undefined"
  BY <1>6 DEF Assign, Step, Start
<1>7. QED
  BY <1>4, <1>5, <1>6 DEF Start

\* An operation that throws before anything was done leaves the object as it was.
LEMMA StepCut ==
  ASSUME NEW r, Start(r), NEW operation, NEW type
  PROVE  \A t \in Cut(r, operation, type) : Good(t)
  BY StepThrow DEF Cut

\* One that throws may spoil the member it was to change, and keeps it.
LEMMA StepGarbled ==
  ASSUME NEW r, Start(r), NEW operation, NEW type,
         NEW m \in {"value", "error"}, m = Named(r.slot)
  PROVE  \A t \in Garbled(r, m, operation, type) : Good(t)
<1>1. r.slot.data \in Data /\ Gone \in Data
  BY SlotFields DEF Start, Good, Results, Data
<1>2. Start(Assign(r, m, r.slot.data)) /\ Start(Assign(r, m, Gone))
  BY <1>1, StepAssign
<1>3. Good(Throw(Assign(r, m, r.slot.data))) /\ Good(Throw(Assign(r, m, Gone)))
  BY <1>2, StepThrow
<1>4. QED
  BY <1>3 DEF Garbled

\* What is noexcept does not throw.
LEMMA StepNoexcept ==
  ASSUME NEW results, \A t \in results : Good(t)
  PROVE  \A t \in Noexcept(results) : Good(t) /\ t.ending # "threw"
<1>1. ASSUME NEW r \in results, r.ending = "threw"
      PROVE  Good([r EXCEPT !.ending = "terminated"])
  <2>1. [r EXCEPT !.ending = "terminated"]
          = [slot |-> r.slot, ending |-> "terminated", overwrote |-> r.overwrote]
    BY DEF Good, Results
  <2>2. QED
    BY <2>1 DEF Good, Results, Endings
<1>2. QED
  BY <1>1 DEF Noexcept, Good, Results

-----------------------------------------------------------------------------
(* expected_operations_base.                                               *)

\* construct and construct_error of a destroyed or new object.
LEMMA Constructs ==
  ASSUME types \in Traits, NEW r, Bare(r), NEW d \in Data, NEW operation
  PROVE  /\ \A t \in Construct(r, operation, d) : Good(t) /\ t.ending # "threw"
         /\ \A t \in ConstructError(r, operation, d) : Good(t) /\ t.ending # "threw"
<1>1. r \in Results /\ r.slot \in Slots
  BY DEF Bare, Results
<1>2. ASSUME NEW type, NEW t \in Noexcept(Cut(r, operation, type))
      PROVE  Good(t) /\ t.ending # "threw"
  <2>1. PICK c \in Cut(r, operation, type) :
          t = IF c.ending = "threw" THEN [c EXCEPT !.ending = "terminated"] ELSE c
    BY <1>2 DEF Noexcept
  <2>2. c = Throw(r)
    BY DEF Cut
  <2>3. CASE r.ending = "returned"
    <3>1. t = [slot |-> r.slot, ending |-> "terminated", overwrote |-> r.overwrote]
      BY <1>1, <2>1, <2>2, <2>3 DEF Throw, Step, Results
    <3>2. QED
      BY <1>1, <3>1 DEF Good, Bare, Results, Endings
  <2>4. CASE r.ending # "returned"
    <3>1. t = r
      BY <2>1, <2>2, <2>4 DEF Throw, Step, Bare
    <3>2. QED
      BY <2>4, <3>1 DEF Good, Bare
  <2>5. QED
    BY <2>3, <2>4
<1>3. Good(Flag(Place(r, "error", d), FALSE)) /\ Flag(Place(r, "error", d), FALSE).ending # "threw"
  BY StepPlace DEF Bare
<1>4. ASSUME ~types.void
      PROVE  /\ Good(Flag(Place(r, "value", d), TRUE))
             /\ Flag(Place(r, "value", d), TRUE).ending # "threw"
  BY <1>4, StepPlace DEF Bare, ValueMember
<1>5. ASSUME types.void
      PROVE  Good(Flag(r, TRUE)) /\ Flag(r, TRUE).ending # "threw"
  <2>1. CASE r.ending = "returned"
    <3> DEFINE s == [has |-> TRUE, live |-> "none", data |-> r.slot.data]
               t == Flag(r, TRUE)
    <3>1. s \in Slots /\ Tracked(s)
      BY <1>1, <1>5, <2>1 DEF Slots, Tracked, ValueMember, Bare
    <3>2. t = [slot |-> s, ending |-> "returned", overwrote |-> FALSE]
      BY <1>1, <2>1 DEF Flag, Step, Results, Slots, Bare
    <3> HIDE DEF s, t
    <3>3. Good(t) /\ t.ending # "threw"
      BY <3>1, <3>2 DEF Good, Results, Endings
    <3>4. QED
      BY <3>3 DEF t
  <2>2. CASE r.ending # "returned"
    BY <2>2 DEF Flag, Step, Good, Bare
  <2>3. QED
    BY <2>1, <2>2
<1>6. ASSUME NEW S, \A t \in S : Good(t) /\ t.ending # "threw", NEW type
      PROVE  \A t \in Noexcept(S \cup Cut(r, operation, type)) : Good(t) /\ t.ending # "threw"
  BY <1>2, <1>6 DEF Noexcept
<1>7. QED
  BY <1>3, <1>4, <1>5, <1>6 DEF Construct, ConstructError

\* Assigning to the member that lives keeps it, whether it throws or not.
LEMMA Assigns ==
  ASSUME NEW r, Start(r), NEW d \in Data, NEW type,
         NEW m \in {"value", "error"}, m = Named(r.slot)
  PROVE  \A t \in Assigned(r, m, d, type) : Good(t)
  BY StepAssign, StepGarbled DEF Assigned, Start

\* Of an object with an error, destroyed for a value.
LEMMA Gains ==
  ASSUME types \in Traits, NEW r, Start(r), ~r.slot.has, NEW d \in Data, NEW operation
  PROVE  /\ Bare(Destroy(r, "error"))
         /\ \A t \in Construct(Destroy(r, "error"), operation, d) : Good(t)
<1>1. Bare(Destroy(r, "error"))
  BY StepDestroy DEF Named
<1>2. QED
  BY <1>1, Constructs

\* The assignment from another expected keeps the flag on the member, for each pair of flags.
LEMMA AssignsCommon ==
  ASSUME types \in Traits, ~types.void, NEW r, Start(r), NEW q \in Slots,
         NEW category
  PROVE  \A t \in AssignCommon(r, q, category) : Good(t)
<1>1. q.data \in Data /\ q.has \in BOOLEAN
  BY SlotFields
<1>2. ASSUME r.slot.has
      PROVE  /\ \A t \in Assigned(r, "value", q.data, "T") : Good(t)
             /\ \A t \in ConstructError(Destroy(r, "value"), category, q.data) : Good(t)
  <2>1. Named(r.slot) = "value"
    BY <1>2 DEF Named, ValueMember
  <2>2. Bare(Destroy(r, "value"))
    BY <2>1, StepDestroy
  <2>3. QED
    BY <1>1, <2>1, <2>2, Assigns, Constructs
<1>3. ASSUME ~r.slot.has
      PROVE  \A t \in Assigned(r, "error", q.data, "E") : Good(t)
  BY <1>1, <1>3, Assigns DEF Named
<1>4. Good(r)
  BY DEF Start
<1>5. QED
  BY <1>2, <1>3, <1>4 DEF AssignCommon

\* So does the whole of operator=, with its case for void.
LEMMA AssignsFrom ==
  ASSUME types \in Traits, NEW r, Start(r), NEW q \in Slots, NEW category \in Categories
  PROVE  \A t \in AssignFrom(r, q, category) : Good(t)
<1>1. q.data \in Data /\ q.has \in BOOLEAN
  BY SlotFields
<1>2. ASSUME ~types.void, ~r.slot.has, NEW operation
      PROVE  /\ \A t \in Construct(Destroy(r, "error"), operation, q.data) : Good(t)
             /\ \A t \in AssignGuarded(r, q, operation) : Good(t)
             /\ Good(Throw(r))
  <2>1. Named(r.slot) = "error"
    BY <1>2 DEF Named
  <2>2. \A t \in Garbled(r, "error", "move", "E") : Good(t)
    BY <2>1, StepGarbled
  <2>3. QED
    BY <1>1, <1>2, <2>2, Gains, StepThrow DEF AssignGuarded
<1>3. ASSUME ~types.void, NEW operation
      PROVE  /\ \A t \in AssignCommon(r, q, operation) : Good(t)
             /\ \A t \in Noexcept(AssignCommon(r, q, operation)) : Good(t)
  <2>1. \A t \in AssignCommon(r, q, operation) : Good(t)
    BY <1>3, AssignsCommon
  <2>2. QED
    BY <2>1, StepNoexcept
<1>4. ASSUME ~types.void
      PROVE  \A t \in AssignCopy(r, q) : Good(t)
  <2> DEFINE gains == ~r.slot.has /\ q.has
             copied == IF gains THEN {Throw(r)} \cup Construct(Destroy(r, "error"), "move", q.data)
                       ELSE AssignCommon(r, q, "copy")
  <2>1. \A t \in copied : Good(t)
    BY <1>2, <1>3, <1>4
  <2>2. \A t \in Noexcept(copied) : Good(t)
    BY <2>1, StepNoexcept
  <2>3. QED
    BY <1>2, <1>3, <1>4, <2>2 DEF AssignCopy
<1>5. ASSUME ~types.void
      PROVE  \A t \in AssignMove(r, q) : Good(t)
  BY <1>2, <1>3, <1>5 DEF AssignMove
<1>6. ASSUME types.void
      PROVE  \A t \in AssignVoid(r, q, category) : Good(t)
  <2> DEFINE results == IF r.slot.has
                        THEN IF q.has THEN {r} ELSE ConstructError(r, category, q.data)
                        ELSE IF q.has THEN {Flag(Destroy(r, "error"), TRUE)}
                             ELSE Assigned(r, "error", q.data, "E")
  <2>1. Safe
    BY <1>6, VoidIsSafe
  <2>2. ASSUME r.slot.has
        PROVE  Bare(r)
    BY <1>6, <2>1, <2>2 DEF Start, Good, Bare, Tracked, ValueMember
  <2>3. ASSUME ~r.slot.has
        PROVE  /\ Good(Flag(Destroy(r, "error"), TRUE))
               /\ \A t \in Assigned(r, "error", q.data, "E") : Good(t)
    <3>1. Bare(Destroy(r, "error"))
      BY <1>1, <2>3, Gains
    <3>2. Flag(Destroy(r, "error"), TRUE) \in Construct(Destroy(r, "error"), "copy", q.data)
      <4>1. Flag(Destroy(r, "error"), TRUE).ending # "threw"
        BY <3>1 DEF Flag, Step, Bare, Results
      <4>2. QED
        BY <1>6, <4>1 DEF Construct, Noexcept
    <3>3. QED
      BY <1>1, <2>3, <3>1, <3>2, Constructs, Assigns DEF Named
  <2>4. Good(r)
    BY DEF Start
  <2>5. \A t \in results : Good(t)
    BY <1>1, <2>2, <2>3, <2>4, Constructs
  <2>6. \A t \in Noexcept(results) : Good(t)
    BY <2>5, StepNoexcept
  <2>7. QED
    BY <2>6 DEF AssignVoid
<1>7. QED
  BY <1>4, <1>5, <1>6 DEF AssignFrom

-----------------------------------------------------------------------------
(* A call whose results are good keeps IndInv.                             *)

\* What a call may find and leave at a place.
Held(o) == o \in Slots \cup {Nothing} /\ (Safe /\ o # Nothing => Tracked(o))

\* Until the program stops, the places hold such objects.
LEMMA Holding ==
  ASSUME IndInv, Running
  PROVE  /\ types \in Traits
         /\ obj = [x \in Objects |-> obj[x]]
         /\ \A x \in Objects : Held(obj[x]) /\ (Exists(x) => obj[x] \in Slots)
  BY DEF IndInv, TypeOK, FlagTracksMember, AllTracked, Held, Safe, Exists

\* A step that leaves at every place something with a right flag keeps the invariant.
LEMMA Leaves ==
  ASSUME IndInv, UNCHANGED types,
         obj' = [x \in Objects |-> obj'[x]],
         last'.ending \in Endings, last'.overwrote \in BOOLEAN,
         last'.overwrote => last'.call = "convert",
         \A x \in Objects : obj'[x] \in Slots \cup {Nothing},
         Running' => \A x \in Objects : Held(obj'[x]),
         last'.ending = "undefined" =>
           ~Safe \/ (last'.call = "swap" /\ (May("move", "T") \/ May("move", "E")))
  PROVE  IndInv'
<1>1. /\ (Safe <=> Safe') /\ (ValueMember = ValueMember')
      /\ May("make", "T")' <=> May("make", "T")
      /\ May("move", "T")' <=> May("move", "T")
      /\ May("move", "E")' <=> May("move", "E")
  BY DEF Safe, May, ValueMember
<1>2. TypeOK'
  BY DEF IndInv, TypeOK
<1>3. FlagTracksMember'
  <2>1. ASSUME NEW x \in Objects, Running', Safe, obj'[x] # Nothing
        PROVE  Tracked(obj[x])'
    <3>1. Tracked(obj'[x])
      BY <2>1 DEF Held
    <3>2. QED
      BY <1>1, <3>1 DEF Tracked
  <2>2. QED
    BY <1>1, <2>1 DEF FlagTracksMember, AllTracked, Exists, Safe
<1>4. UndefinedNeedsThrow'
  BY <1>1 DEF UndefinedNeedsThrow, Safe
<1>5. OnlyConvertOverwrites'
  BY DEF OnlyConvertOverwrites
<1>6. QED
  BY <1>2, <1>3, <1>4, <1>5 DEF IndInv

\* The call itself, and how it ended.
LEMMA Ended ==
  ASSUME NEW call, NEW t, Made(t, call), Ends(call, t)
  PROVE  /\ last'.call = call /\ last'.ending = t.ending
         /\ last'.ending \in Endings /\ last'.overwrote \in BOOLEAN
         /\ last'.overwrote => last'.call = "convert"
         /\ last'.ending = "undefined" => ~Safe
         /\ Running' <=> t.ending \in {"returned", "threw"}
         /\ t.slot \in Slots
  BY DEF Made, Ends, Results, Running

\* What is good of an object is good of a new one.
LEMMA GoodIsMade ==
  ASSUME NEW t, Good(t), NEW call
  PROVE  Made(t, call)
  BY DEF Good, Made

\* A call on an object whose results are all good keeps the invariant.
LEMMA Applied ==
  ASSUME IndInv, NEW x \in Objects, NEW call, NEW results, \A t \in results : Good(t),
         Apply(call, x, results)
  PROVE  IndInv'
<1>1. PICK t \in results : obj' = [obj EXCEPT ![x] = t.slot] /\ Ends(call, t)
  BY DEF Apply
<1>2. Good(t) /\ Made(t, call) /\ Running /\ UNCHANGED types
  BY GoodIsMade DEF Apply
<1>3. obj' = [y \in Objects |-> IF y = x THEN t.slot ELSE obj[y]]
  BY <1>1, <1>2, Holding
<1>4. ASSUME Running'
      PROVE  Held(t.slot)
  BY <1>1, <1>2, <1>4, Ended DEF Held, Good
<1>5. \A y \in Objects : Held(obj[y])
  BY <1>2, Holding
<1>6. Running' => \A y \in Objects : Held(obj'[y])
  BY <1>3, <1>4, <1>5
<1>7. \A y \in Objects : obj'[y] \in Slots \cup {Nothing}
  BY <1>1, <1>2, <1>3, <1>5, Ended DEF Held
<1>8. QED
  BY <1>1, <1>2, <1>3, <1>6, <1>7, Ended, Leaves

\* What a constructor leaves at its place.
LEMMA Placed ==
  ASSUME NEW t, NEW call, Made(t, call)
  PROVE  /\ (IF t.ending = "returned" THEN t.slot ELSE Nothing) \in Slots \cup {Nothing}
         /\ Held(IF t.ending = "returned" THEN t.slot ELSE Nothing)
  BY DEF Made, Results, Held

\* So does a constructor, which leaves no object when it throws.
LEMMA Making ==
  ASSUME IndInv, NEW x \in Objects, NEW call, NEW results, \A t \in results : Made(t, call),
         Make(call, x, results)
  PROVE  IndInv'
<1>1. PICK t \in results :
        /\ obj' = [obj EXCEPT ![x] = IF t.ending = "returned" THEN t.slot ELSE Nothing]
        /\ Ends(call, t)
  BY DEF Make
<1>2. Made(t, call) /\ Running /\ UNCHANGED types
  BY DEF Make
<1> DEFINE o == IF t.ending = "returned" THEN t.slot ELSE Nothing
<1>3. Held(o)
  BY <1>2, Placed
<1>4. \A y \in Objects : Held(obj[y])
  BY <1>2, Holding
<1>5. obj' = [y \in Objects |-> IF y = x THEN o ELSE obj[y]]
  BY <1>1, <1>2, Holding
<1> HIDE DEF o
<1>6. \A y \in Objects : Held(obj'[y]) /\ obj'[y] \in Slots \cup {Nothing}
  BY <1>3, <1>4, <1>5 DEF Held
<1>7. QED
  BY <1>1, <1>2, <1>5, <1>6, Ended, Leaves

\* An argument, moved from or not.
LEMMA ArgumentLeft ==
  ASSUME NEW y \in Objects, obj[y] \in Slots, Held(obj[y]), NEW category,
         NEW q \in Left(y, category)
  PROVE  Held(q) /\ q \in Slots
<1>1. q = obj[y] \/ q = Spent(obj[y])
  BY DEF Left
<1>2. Spent(obj[y]) \in Slots /\ Spent(obj[y]).has = obj[y].has /\ Spent(obj[y]).live = obj[y].live
  BY SlotFields
<1>3. ASSUME Safe
      PROVE  Tracked(obj[y]) \/ obj[y] = Nothing
  BY <1>3 DEF Held
<1>4. obj[y] # Nothing
  BY ExpectedAssumption DEF Slots, Data
<1>5. QED
  BY <1>1, <1>2, <1>3, <1>4 DEF Held, Tracked

\* A constructor from another expected may also take what is in that one.
LEMMA MakingFrom ==
  ASSUME IndInv, NEW x \in Objects, NEW y \in Objects, NEW category, NEW call, NEW results,
         Running /\ Exists(y) => \A t \in results : Made(t, call),
         MakeFrom(call, x, y, category, results)
  PROVE  IndInv'
<1>0. PICK r \in IF Tracked(obj[y]) THEN results ELSE {From(NoInit, obj[y])} :
        \E q \in Left(y, category) :
          /\ obj' = [obj EXCEPT ![x] = IF r.ending = "returned" THEN r.slot ELSE Nothing, ![y] = q]
          /\ Ends(call, r)
  BY DEF MakeFrom
<1>1. PICK q \in Left(y, category) :
        /\ obj' = [obj EXCEPT ![x] = IF r.ending = "returned" THEN r.slot ELSE Nothing, ![y] = q]
        /\ Ends(call, r)
  BY <1>0
<1>2. Running /\ Exists(y) /\ UNCHANGED types
  BY DEF MakeFrom
<1>3. obj[y] \in Slots /\ \A z \in Objects : Held(obj[z])
  BY <1>2, Holding
<1>4. Made(r, call)
  <2>1. CASE Tracked(obj[y])
    BY <1>1, <1>2, <2>1
  <2>2. CASE ~Tracked(obj[y])
    <3>1. ~Safe
      BY <1>2, <1>3, <2>2 DEF Held, Exists
    <3>2. r = [slot |-> NoInit, ending |-> "undefined", overwrote |-> FALSE]
      BY <1>1, <2>2 DEF From, Begin
    <3>3. NoInit \in Slots
      BY DEF NoInit, Slots, Data
    <3>4. QED
      BY <3>1, <3>2, <3>3 DEF Made, Results, Endings
  <2>3. QED
    BY <2>1, <2>2
<1> DEFINE o == IF r.ending = "returned" THEN r.slot ELSE Nothing
<1>5. Held(o)
  BY <1>4, Placed
<1>6. Held(q)
  BY <1>3, ArgumentLeft
<1>7. obj' = [z \in Objects |-> IF z = y THEN q ELSE IF z = x THEN o ELSE obj[z]]
  BY <1>1, <1>2, Holding
<1> HIDE DEF o
<1>8. \A z \in Objects : Held(obj'[z]) /\ obj'[z] \in Slots \cup {Nothing}
  BY <1>3, <1>5, <1>6, <1>7 DEF Held
<1>9. obj' = [z \in Objects |-> obj'[z]]
  BY <1>7
<1>10. QED
  BY <1>1, <1>2, <1>4, <1>8, <1>9, Ended, Leaves

-----------------------------------------------------------------------------
(* Constructors.                                                           *)

\* A new object, and one with a value or an error.
LEMMA Begins ==
  ASSUME types \in Traits, NEW d \in Data
  PROVE  /\ Bare(Begin(NoInit))
         /\ Good(Begin(WithValue(d))) /\ Good(Begin(WithError(d)))
<1>1. NoInit \in Slots
  BY DEF NoInit, Slots, Data
<1>2. WithError(d) \in Slots /\ Tracked(WithError(d))
  BY DEF WithError, Slots, Tracked
<1>3. WithValue(d) \in Slots /\ Tracked(WithValue(d))
  BY DEF WithValue, Slots, Tracked, ValueMember, Data
<1>4. Bare(Begin(NoInit))
  BY <1>1 DEF Begin, NoInit, Bare, Results, Endings
<1>5. ASSUME NEW s \in Slots, Tracked(s)
      PROVE  Good(Begin(s))
  BY <1>5 DEF Begin, Good, Results, Endings
<1>6. QED
  BY <1>2, <1>3, <1>4, <1>5

\* A call on an object that is there.
LEMMA BeginsAt ==
  ASSUME NEW s \in Slots, Safe => Tracked(s), NEW q \in Slots, Safe => Tracked(q)
  PROVE  /\ Start(Begin(s)) /\ Begin(s).slot = s
         /\ Start(From(s, q)) /\ From(s, q).slot = s
<1>1. Begin(s) = [slot |-> s, ending |-> "returned", overwrote |-> FALSE]
  BY DEF Begin
<1>2. CASE Tracked(q)
  BY <1>1, <1>2 DEF Start, Good, Results, Endings, From
<1>3. CASE ~Tracked(q)
  <2> DEFINE b == Begin(s)
  <2>1. b = [slot |-> s, ending |-> "returned", overwrote |-> FALSE]
    BY <1>1
  <2>2. From(s, q) = [b EXCEPT !.ending = "undefined"]
    BY <1>3 DEF From
  <2> HIDE DEF b
  <2>3. From(s, q) = [slot |-> s, ending |-> "undefined", overwrote |-> FALSE]
    BY <2>1, <2>2
  <2>4. QED
    BY <1>1, <1>3, <2>3 DEF Start, Good, Results, Endings
<1>4. QED
  BY <1>2, <1>3

\* A constructor that throws before it has made a member leaves no object.
LEMMA CutMade ==
  ASSUME NEW r, Bare(r), NEW operation, NEW type, NEW call
  PROVE  \A t \in Cut(r, operation, type) : Made(t, call)
<1>1. ASSUME NEW t \in Cut(r, operation, type)
      PROVE  Made(t, call)
  <2>1. t = IF r.ending = "returned" THEN [r EXCEPT !.ending = "threw"] ELSE r
    BY DEF Cut, Throw, Step
  <2>2. QED
    BY <2>1 DEF Bare, Made, Results, Endings
<1>2. QED
  BY <1>1

\* The constructors from a value, an error or arguments.
LEMMA MakesValue ==
  ASSUME IndInv, NEW x \in Objects, NEW d \in Values, Construction(x, d)
  PROVE  IndInv'
<1>1. types \in Traits /\ d \in Data
  BY DEF IndInv, TypeOK, Data
<1>2. \A t \in {Begin(WithValue(d))} \cup Cut(Begin(NoInit), "make", "T") : Made(t, "make")
  BY <1>1, Begins, GoodIsMade, CutMade
<1>3. \A t \in {Begin(WithError(d))} \cup Cut(Begin(NoInit), "make", "E") : Made(t, "make")
  BY <1>1, Begins, GoodIsMade, CutMade
<1>4. CASE MakeValue(x, d)
  BY <1>2, <1>4, Making DEF MakeValue
<1>5. CASE MakeUnexpected(x, d)
  BY <1>3, <1>5, Making DEF MakeUnexpected
<1>6. QED
  BY <1>4, <1>5 DEF Construction

\* The copy and the move constructor.
LEMMA Clones ==
  ASSUME types \in Traits, NEW q \in Slots, NEW category, NEW call
  PROVE  \A t \in Cloned(Begin(NoInit), q, category) : Made(t, call)
<1>1. Bare(Begin(NoInit)) /\ q.data \in Data
  BY Begins, SlotFields
<1>2. QED
  BY <1>1, Constructs, GoodIsMade DEF Cloned

\* Constructing a member over one that lives.
LEMMA Overwrites ==
  ASSUME types \in Traits, NEW r \in Results, r.ending = "returned", NEW d \in Data,
         NEW b \in BOOLEAN, NEW m \in {"value", "error"},
         m = IF b THEN ValueMember ELSE "error"
  PROVE  /\ Made(Flag(Place(r, m, d), b), "convert")
         /\ Flag(Place(r, m, d), b).ending = "returned"
<1> DEFINE s == [has |-> b, live |-> m, data |-> d]
           o == r.slot.live # "none"
           t == Flag(Place(r, m, d), b)
<1>1. s \in Slots /\ Tracked(s)
  BY DEF Slots, Tracked, ValueMember
<1>2. t = [slot |-> s, ending |-> "returned", overwrote |-> o]
  BY DEF Flag, Place, Step, Results, Slots
<1>3. o \in BOOLEAN
  OBVIOUS
<1> HIDE DEF s, t, o
<1>4. t \in Results /\ t.slot = s /\ t.ending = "returned"
  BY <1>1, <1>2, <1>3 DEF Results, Endings
<1>5. Made(t, "convert") /\ t.ending = "returned"
  BY <1>1, <1>4 DEF Made
<1>6. QED
  BY <1>5 DEF t

\* A converting constructor.
LEMMA Converts ==
  ASSUME types \in Traits, ~types.void, NEW q \in Slots, NEW category, NEW v \in Values
  PROVE  \A t \in Cloned(Begin(WithValue(v)), q, category) : Made(t, "convert")
<1> DEFINE r == Begin(WithValue(v))
           value == Flag(Place(r, "value", q.data), TRUE)
           error == Flag(Place(r, "error", q.data), FALSE)
<1>1. q.data \in Data /\ q.has \in BOOLEAN
  BY SlotFields
<1>2. r \in Results /\ r.ending = "returned"
  BY <1>1, Begins DEF Good, Begin, Data
<1> HIDE DEF r
<1>3. Made(value, "convert") /\ value.ending = "returned"
  BY <1>1, <1>2, Overwrites DEF ValueMember
<1>4. Made(error, "convert") /\ error.ending = "returned"
  BY <1>1, <1>2, Overwrites
<1>5. ASSUME NEW type, NEW c \in Cut(r, category, type)
      PROVE  c.ending = "threw" /\ Made([c EXCEPT !.ending = "terminated"], "convert")
  <2>1. c = [r EXCEPT !.ending = "threw"]
    BY <1>2 DEF Cut, Throw, Step
  <2>2. c \in Results /\ c.ending = "threw"
    BY <1>2, <2>1 DEF Results, Endings
  <2>3. QED
    BY <2>2 DEF Made, Results, Endings
<1> HIDE DEF value, error
<1>6. ASSUME NEW S, \A t \in S : Made(t, "convert") /\ t.ending = "returned", NEW type
      PROVE  \A t \in Noexcept(S \cup Cut(r, category, type)) : Made(t, "convert")
  BY <1>5, <1>6 DEF Noexcept
<1>7. \A t \in Construct(r, category, q.data) : Made(t, "convert")
  BY <1>3, <1>6 DEF Construct, value
<1>8. \A t \in ConstructError(r, category, q.data) : Made(t, "convert")
  BY <1>4, <1>6 DEF ConstructError, error
<1>9. QED
  BY <1>7, <1>8 DEF Cloned, r

\* A callback returns a new object, or throws.
LEMMA Callbacks ==
  ASSUME types \in Traits, NEW slots \in SUBSET (AllValues \cup AllErrors), NEW call
  PROVE  \A t \in Callback(slots) : Made(t, call)
<1>1. ASSUME NEW s \in slots
      PROVE  Made(Begin(s), call)
  BY Begins, GoodIsMade DEF AllValues, AllErrors, Data
<1>2. Made(Throw(Begin(NoInit)), call)
  <2>1. Bare(Begin(NoInit)) /\ Begin(NoInit).ending = "returned"
    BY Begins DEF Data, Begin
  <2>2. Throw(Begin(NoInit)) = [Begin(NoInit) EXCEPT !.ending = "threw"]
    BY <2>1 DEF Throw, Step
  <2>3. QED
    BY <2>1, <2>2 DEF Bare, Made, Results, Endings
<1>3. QED
  BY <1>1, <1>2 DEF Callback

\* A new object from another: copied, moved, converted, or made by a callback (map, and_then).
LEMMA Derives ==
  ASSUME IndInv, NEW x \in Objects, NEW y \in Objects, NEW category \in Categories,
         Derivation(x, y, category)
  PROVE  IndInv'
<1>1. types \in Traits /\ Gone \in Data
  BY DEF IndInv, TypeOK, Data
<1>2. ASSUME Running, Exists(y)
      PROVE  obj[y] \in Slots /\ Spent(obj[y]) \in Slots /\ obj[y].data \in Data
  BY <1>2, Holding, SlotFields
<1>3. \A call, operation, type : \A t \in Cut(Begin(NoInit), operation, type) : Made(t, call)
  BY <1>1, Begins, CutMade
<1>4. ASSUME Running, Exists(y), NEW call
      PROVE  /\ \A t \in Propagated(obj[y], category) : Made(t, call)
             /\ Made(Begin(WithValue(obj[y].data)), call)
             /\ \A t \in Cloned(Begin(NoInit), obj[y], category) : Made(t, call)
             /\ \A t \in Cloned(Begin(NoInit), Spent(obj[y]), category) : Made(t, call)
  BY <1>1, <1>2, <1>3, <1>4, Begins, Clones, GoodIsMade DEF Propagated
<1>5. \A call : /\ \A t \in Callback(AllValues \cup AllErrors) : Made(t, call)
                /\ \A t \in Callback(AllValues) : Made(t, call)
                /\ \A t \in Callback(AllErrors) : Made(t, call)
  BY <1>1, Callbacks
<1>6. CASE Clone(x, y, category)
  BY <1>4, <1>6, MakingFrom DEF Clone
<1>7. CASE Convert(x, y, category)
  <2> DEFINE cuts == Cut(Begin(NoInit), "make", "T")
             results(v) == Cloned(Begin(WithValue(v)), obj[y], category)
  <2>1. ~types.void
    BY <1>7 DEF Convert
  <2>2. ASSUME Make("convert", x, cuts)
        PROVE  IndInv'
    <3>1. \A t \in cuts : Made(t, "convert")
      BY <1>3
    <3> HIDE DEF cuts
    <3>2. QED
      BY <2>2, <3>1, Making
  <2>3. ASSUME NEW v \in Values, Running, Exists(y)
        PROVE  \A t \in results(v) : Made(t, "convert")
    BY <1>1, <1>2, <2>1, <2>3, Converts
  <2>4. Make("convert", x, cuts) \/ \E v \in Values : MakeFrom("convert", x, y, category, results(v))
    BY <1>7 DEF Convert
  <2> HIDE DEF cuts, results
  <2>5. QED
    BY <2>2, <2>3, <2>4, MakingFrom
<1>8. CASE AndThen(x, y, category)
  <2> DEFINE results == IF obj[y].has THEN Callback(AllValues \cup AllErrors)
                        ELSE Propagated(obj[y], category)
  <2>1. Running /\ Exists(y) => \A t \in results : Made(t, "and_then")
    BY <1>4, <1>5
  <2> HIDE DEF results
  <2>2. QED
    BY <1>8, <2>1, MakingFrom DEF AndThen, results
<1>9. CASE Map(x, y, category)
  <2> DEFINE results == IF obj[y].has THEN Callback(AllValues) ELSE Propagated(obj[y], category)
  <2>1. Running /\ Exists(y) => \A t \in results : Made(t, "map")
    BY <1>4, <1>5
  <2> HIDE DEF results
  <2>2. QED
    BY <1>9, <2>1, MakingFrom DEF Map, results
<1>10. CASE MapError(x, y, category)
  <2> DEFINE results == IF obj[y].has
                        THEN {Begin(WithValue(obj[y].data))} \cup Cut(Begin(NoInit), category, "T")
                        ELSE Callback(AllErrors)
  <2>1. Running /\ Exists(y) => \A t \in results : Made(t, "map_error")
    BY <1>3, <1>4, <1>5
  <2> HIDE DEF results
  <2>2. QED
    BY <1>10, <2>1, MakingFrom DEF MapError, results
<1>11. CASE OrElse(x, y, category)
  <2> DEFINE kept == Cloned(Begin(NoInit), obj[y], category)
             emptied == Cloned(Begin(NoInit), Spent(obj[y]), category)
             results == IF obj[y].has THEN kept
                        ELSE Callback(AllValues \cup AllErrors) \cup kept
                             \cup IF category = "move" THEN emptied ELSE {}
  <2>1. Running /\ Exists(y) => \A t \in results : Made(t, "or_else")
    BY <1>4, <1>5
  <2>2. MakeFrom("or_else", x, y, category, results)
    BY <1>11 DEF OrElse
  <2> HIDE DEF results
  <2>3. QED
    BY <2>1, <2>2, MakingFrom
<1>12. QED
  BY <1>6, <1>7, <1>8, <1>9, <1>10, <1>11 DEF Derivation

-----------------------------------------------------------------------------
(* Calls on an object that is there.                                       *)

\* A new value or error is put where the old one was; the handler that would restore
\* the old error is reached only if constructing a T may throw.
LEMMA Replaces ==
  ASSUME types \in Traits, ~types.void, May("make", "T"),
         NEW r, Start(r), ~r.slot.has, NEW d \in Data
  PROVE  \A t \in Replace(r, d) : Good(t)
<1> DEFINE bare == Destroy(r, "error")
           back == Assign(bare, "error", r.slot.data)
<1>1. Bare(bare)
  BY Gains
<1>2. Good(Flag(Place(bare, "value", d), TRUE))
  BY <1>1, StepPlace DEF ValueMember
<1>3. Good(Throw(back))
  <2>1. bare \in Results /\ ~bare.overwrote /\ ~Safe
    BY <1>1 DEF Bare, Safe
  <2>2. r.slot.data \in Data
    BY SlotFields DEF Start, Good, Results
  <2> HIDE DEF bare
  <2>3. CASE bare.ending = "returned"
    <3>1. back = [bare EXCEPT !.ending = "undefined"]
      BY <1>1, <2>3 DEF Assign, Step, Bare
    <3> HIDE DEF back
    <3>2. back \in Results /\ ~back.overwrote /\ back.ending = "undefined"
      BY <2>1, <3>1 DEF Results, Endings
    <3>3. QED
      BY <2>1, <3>2 DEF Throw, Step, Good
  <2>4. CASE bare.ending # "returned"
    <3>1. back = bare
      BY <2>4 DEF Assign, Step
    <3>2. QED
      BY <2>1, <2>4, <3>1 DEF Throw, Step, Good
  <2>5. QED
    BY <2>3, <2>4
<1>4. \A t \in Garbled(r, "error", "move", "E") : Good(t)
  BY StepGarbled DEF Named
<1>5. QED
  BY <1>2, <1>3, <1>4 DEF Replace

\* emplace and the assignments of a value or an error.
LEMMA Changes ==
  ASSUME IndInv, NEW x \in Objects, NEW d \in Values, Replacement(x, d), Running, Exists(x)
  PROVE  IndInv'
<1> DEFINE s == obj[x]
           r == Begin(s)
<1>1. types \in Traits /\ d \in Data
  BY Holding DEF Data
<1>2. s \in Slots /\ Start(r) /\ r.slot = s
  BY Holding, BeginsAt DEF Held, Exists
<1>3. Named(r.slot) = IF s.has THEN ValueMember ELSE "error"
  BY <1>2 DEF Named
<1> HIDE DEF s, r
<1>4. ASSUME s.has
      PROVE  /\ ~types.void => \A t \in Assigned(r, "value", d, "T") : Good(t)
             /\ ~types.void => Bare(Destroy(r, "value"))
             /\ types.void => Bare(r)
  <2>1. ASSUME ~types.void
        PROVE  Named(r.slot) = "value"
    BY <1>3, <1>4, <2>1 DEF ValueMember
  <2>2. ASSUME types.void
        PROVE  Bare(r)
    <3>1. Safe
      BY <1>1, <2>2, VoidIsSafe
    <3>2. QED
      BY <1>2, <1>4, <2>2, <3>1 DEF Start, Good, Bare, Tracked, ValueMember
  <2>3. QED
    BY <1>1, <1>2, <2>1, <2>2, Assigns, StepDestroy
<1>5. ASSUME ~s.has
      PROVE  /\ \A t \in Assigned(r, "error", d, "E") : Good(t)
             /\ Bare(Destroy(r, "error"))
             /\ ~types.void /\ May("make", "T") => \A t \in Replace(r, d) : Good(t)
  BY <1>1, <1>2, <1>3, <1>5, Assigns, StepDestroy, Replaces
<1>6. ASSUME NEW bare, Bare(bare)
      PROVE  /\ Good(Flag(Place(bare, "error", d), FALSE))
             /\ ~types.void => /\ Good(Flag(Place(bare, "value", d), TRUE))
                               /\ Good(Place(Flag(bare, TRUE), "value", d))
  BY <1>1, <1>6, StepPlace DEF ValueMember
<1>7. CASE AssignValue(x, d)
  <2> DEFINE results == IF s.has THEN Assigned(r, "value", d, "T")
                        ELSE IF May("make", "T") THEN Replace(r, d)
                        ELSE {Flag(Place(Destroy(r, "error"), "value", d), TRUE)}
  <2>1. ~types.void /\ Apply("assign value", x, results)
    BY <1>7 DEF AssignValue, r, s
  <2>2. \A t \in results : Good(t)
    BY <1>4, <1>5, <1>6, <2>1
  <2> HIDE DEF results
  <2>3. QED
    BY <2>1, <2>2, Applied
<1>8. ASSUME NEW category \in Categories, AssignUnexpected(x, d, category)
      PROVE  IndInv'
  <2> DEFINE bare == IF types.void THEN r ELSE Destroy(r, "value")
             results == IF s.has THEN {Flag(Place(bare, "error", d), FALSE)}
                        ELSE Assigned(r, "error", d, "E")
             all == IF category = "move" THEN Noexcept(results) ELSE results
  <2>1. Apply("assign error", x, all)
    BY <1>8 DEF AssignUnexpected, r, s
  <2>2. \A t \in results : Good(t)
    BY <1>4, <1>5, <1>6
  <2> HIDE DEF results
  <2>3. \A t \in all : Good(t)
    BY <2>2, StepNoexcept
  <2> HIDE DEF all
  <2>4. QED
    BY <2>1, <2>3, Applied
<1>9. CASE Emplace(x, d)
  <2> DEFINE bare == Destroy(r, "value")
             results == IF s.has THEN {Place(bare, "value", d)} \cup Cut(bare, "make", "T")
                        ELSE IF May("make", "T") THEN Replace(r, d)
                        ELSE {Place(Flag(Destroy(r, "error"), TRUE), "value", d)}
  <2>1. ~types.void /\ Apply("emplace", x, results)
    BY <1>9 DEF Emplace, r, s
  <2>2. ASSUME s.has
        PROVE  Good(Place(bare, "value", d)) /\ \A t \in Cut(bare, "make", "T") : Good(t)
    <3>1. Bare(bare) /\ (bare.ending = "returned" => bare.slot.has)
      <4>1. r.slot \in Slots
        BY <1>2
      <4>2. QED
        BY <1>2, <1>4, <2>1, <2>2 DEF Destroy, Step, Start, Good, Results, Slots
    <3> HIDE DEF bare
    <3>2. Good(Place(bare, "value", d))
      <4>1. CASE bare.ending = "returned"
        <5>1. Place(bare, "value", d)
                = [slot |-> [has |-> bare.slot.has, live |-> "value", data |-> d],
                   ending |-> "returned", overwrote |-> bare.slot.live # "none"]
          BY <3>1, <4>1 DEF Place, Step, Bare, Results, Slots
        <5>2. Place(bare, "value", d) = Flag(Place(bare, "value", d), TRUE)
          BY <3>1, <4>1, <5>1 DEF Flag, Step, Bare, Results, Slots
        <5>3. QED
          BY <1>6, <2>1, <3>1, <5>2
      <4>2. CASE bare.ending = "undefined"
        BY <3>1, <4>2 DEF Place, Step, Bare, Good
      <4>3. QED
        BY <3>1, <4>1, <4>2 DEF Bare
    <3>3. ASSUME NEW t \in Cut(bare, "make", "T")
          PROVE  Good(t)
      <4>1. t = Throw(bare) /\ ~Safe
        BY DEF Cut, Safe
      <4>2. QED
        BY <3>1, <4>1 DEF Throw, Step, Bare, Good, Results, Endings
    <3>4. QED
      BY <3>2, <3>3
  <2>3. \A t \in results : Good(t)
    BY <1>5, <1>6, <2>1, <2>2
  <2> HIDE DEF results
  <2>4. QED
    BY <2>1, <2>3, Applied
<1>10. CASE EmplaceList(x, d)
  <2> DEFINE results == IF s.has
                        THEN Assigned(r, "value", d, "T") \cup Cut(r, "make", "T")
                        ELSE IF May("make", "T") THEN Replace(r, d)
                        ELSE {Flag(Place(Destroy(r, "error"), "value", d), TRUE)}
  <2>1. ~types.void /\ Apply("emplace list", x, results)
    BY <1>10 DEF EmplaceList, r, s
  <2>2. \A t \in results : Good(t)
    BY <1>2, <1>4, <1>5, <1>6, <2>1, StepCut
  <2> HIDE DEF results
  <2>3. QED
    BY <2>1, <2>2, Applied
<1>11. QED
  BY <1>7, <1>8, <1>9, <1>10 DEF Replacement

\* The assignment from another object.
LEMMA AssignsObject ==
  ASSUME IndInv, NEW x \in Objects, NEW y \in Objects, NEW category \in Categories,
         AssignObject(x, y, category)
  PROVE  IndInv'
<1>1. Running /\ Exists(x) /\ Exists(y) /\ UNCHANGED types
  BY DEF AssignObject
<1>2. types \in Traits /\ obj[x] \in Slots /\ obj[y] \in Slots /\ \A z \in Objects : Held(obj[z])
  BY <1>1, Holding
<1>3. Start(From(obj[x], obj[y]))
  BY <1>1, <1>2, BeginsAt DEF Held, Exists
<1>4. PICK t \in AssignFrom(From(obj[x], obj[y]), obj[y], category) :
        \E q \in Left(y, category) :
          obj' = [obj EXCEPT ![y] = q, ![x] = t.slot] /\ Ends("assign", t)
  <2>1. \E t \in AssignFrom(From(obj[x], obj[y]), obj[y], category) :
          \E q \in Left(y, category) :
            /\ t.ending = "threw" /\ obj[x].has # obj[y].has => q = obj[y]
            /\ obj' = [obj EXCEPT ![y] = q, ![x] = t.slot]
            /\ Ends("assign", t)
    BY DEF AssignObject
  <2>2. QED
    BY <2>1
<1>5. PICK q \in Left(y, category) :
        obj' = [obj EXCEPT ![y] = q, ![x] = t.slot] /\ Ends("assign", t)
  BY <1>4
<1>6. Good(t) /\ Made(t, "assign")
  BY <1>2, <1>3, AssignsFrom, GoodIsMade
<1>7. Held(q)
  BY <1>2, ArgumentLeft
<1>8. obj' = [z \in Objects |-> IF z = x THEN t.slot ELSE IF z = y THEN q ELSE obj[z]]
  BY <1>1, <1>5, Holding
<1>9. ASSUME Running'
      PROVE  Held(t.slot)
  BY <1>5, <1>6, <1>9, Ended DEF Held, Good
<1>10. Running' => \A z \in Objects : Held(obj'[z])
  BY <1>2, <1>7, <1>8, <1>9
<1>11. \A z \in Objects : obj'[z] \in Slots \cup {Nothing}
  BY <1>2, <1>5, <1>6, <1>7, <1>8, Ended DEF Held
<1>12. obj' = [z \in Objects |-> obj'[z]]
  BY <1>8
<1>13. QED
  BY <1>1, <1>5, <1>6, <1>10, <1>11, <1>12, Ended, Leaves

\* The destructor.
LEMMA Destroys ==
  ASSUME IndInv, NEW x \in Objects, DestroyObject(x)
  PROVE  IndInv'
<1> DEFINE t == Destroy(Begin(obj[x]), Named(obj[x]))
<1>1. Running /\ Exists(x) /\ UNCHANGED types
  BY DEF DestroyObject
<1>2. obj[x] \in Slots /\ \A z \in Objects : Held(obj[z])
  BY <1>1, Holding
<1>3. Bare(t)
  BY <1>1, <1>2, BeginsAt, StepDestroy DEF Held, Exists
<1>4. obj' = [obj EXCEPT ![x] = Nothing] /\ Ends("destroy", t)
  BY DEF DestroyObject, Named
<1> HIDE DEF t
<1>5. obj' = [z \in Objects |-> IF z = x THEN Nothing ELSE obj[z]]
  BY <1>1, <1>4, Holding
<1>6. /\ last'.call = "destroy" /\ last'.ending \in Endings /\ last'.overwrote = FALSE
      /\ last'.ending = "undefined" => ~Safe
  BY <1>3, <1>4 DEF Ends, Bare, Results
<1>7. \A z \in Objects : Held(obj'[z]) /\ obj'[z] \in Slots \cup {Nothing}
  BY <1>2, <1>5 DEF Held
<1>8. obj' = [z \in Objects |-> obj'[z]]
  BY <1>5
<1>9. QED
  BY <1>1, <1>6, <1>7, <1>8, Leaves

\* value() and what it throws.
LEMMA Observes ==
  ASSUME IndInv, NEW x \in Objects, NEW category \in Categories, Value(x, category)
  PROVE  IndInv'
<1> DEFINE r == From(obj[x], obj[x])
           spent == IF category = "move" THEN [r EXCEPT !.slot = Spent(@)] ELSE r
           results == IF obj[x].has THEN {r, spent} ELSE {Throw(r), Throw(spent)}
<1>1. Running /\ Exists(x) /\ Apply("value", x, results)
  BY DEF Value, Apply
<1>2. obj[x] \in Slots /\ Held(obj[x])
  BY <1>1, Holding
<1>3. Start(r)
  BY <1>1, <1>2, BeginsAt DEF Held, Exists
<1> HIDE DEF r
<1>4. Start(spent)
  <2>1. r.slot \in Slots
    BY <1>3 DEF Start, Good, Results
  <2>2. /\ Spent(r.slot) \in Slots
        /\ Tracked(r.slot) => Tracked(Spent(r.slot))
    BY <2>1, SlotFields DEF Tracked
  <2>3. [r EXCEPT !.slot = Spent(@)]
          = [slot |-> Spent(r.slot), ending |-> r.ending, overwrote |-> r.overwrote]
    BY <1>3 DEF Start, Good, Results
  <2>4. QED
    BY <1>3, <2>2, <2>3 DEF Start, Good, Results
<1> HIDE DEF spent
<1>5. \A t \in results : Good(t)
  BY <1>3, <1>4, StepThrow DEF Start
<1> HIDE DEF results
<1>6. QED
  BY <1>1, <1>5, Applied

-----------------------------------------------------------------------------
(* swap.                                                                   *)

\* What swap may make of both objects.
Exchanged(t) ==
  /\ t.slot \in Slots /\ t.other \in Slots /\ t.ending \in Endings /\ t.overwrote = FALSE
  /\ Safe /\ t.ending \in {"returned", "threw"} => Tracked(t.slot) /\ Tracked(t.other)
  /\ t.ending = "undefined" => ~Safe \/ May("move", "T") \/ May("move", "E")

\* Members of one kind exchange their contents.
LEMMA SwapsMembers ==
  ASSUME NEW s \in Slots, NEW u \in Slots, Tracked(s), Tracked(u), s.has = u.has,
         ~types.void, NEW type
  PROVE  \A t \in SwapMembers(Begin(s), Begin(u), type) : Exchanged(t)
<1>1. Begin(s).slot = s /\ Begin(u).slot = u
  BY DEF Begin
<1> DEFINE content == [s EXCEPT !.data = u.data]
           other == [u EXCEPT !.data = s.data]
<1>2. content \in Slots /\ content.has = s.has /\ content.live = s.live
  BY DEF Slots, Tracked, ValueMember
<1>3. other \in Slots /\ other.has = u.has /\ other.live = u.live
  BY DEF Slots, Tracked, ValueMember
<1>4. /\ Spent(s) \in Slots /\ Spent(s).has = s.has /\ Spent(s).live = s.live
      /\ Spent(u) \in Slots /\ Spent(u).has = u.has /\ Spent(u).live = u.live
  BY SlotFields
<1> HIDE DEF content, other
<1>5. Tracked(content) /\ Tracked(other) /\ Tracked(Spent(s)) /\ Tracked(Spent(u))
  BY <1>2, <1>3, <1>4 DEF Tracked
<1>6. ASSUME NEW a \in Slots, Tracked(a), NEW b \in Slots, Tracked(b),
             NEW ending \in {"returned", "threw"}
      PROVE  Exchanged([slot |-> a, other |-> b, ending |-> ending, overwrote |-> FALSE])
  BY <1>6 DEF Exchanged, Endings
<1>7. SwapMembers(Begin(s), Begin(u), type) \subseteq
        {[slot |-> a, other |-> b, ending |-> ending, overwrote |-> FALSE] :
           a \in {s, Spent(s), content}, b \in {u, Spent(u), other},
           ending \in {"returned", "threw"}}
  BY <1>1 DEF SwapMembers, content, other
<1>8. ASSUME NEW t \in SwapMembers(Begin(s), Begin(u), type)
      PROVE  Exchanged(t)
  <2>1. PICK a \in {s, Spent(s), content}, b \in {u, Spent(u), other},
             ending \in {"returned", "threw"} :
          t = [slot |-> a, other |-> b, ending |-> ending, overwrote |-> FALSE]
    BY <1>7
  <2>2. a \in Slots /\ Tracked(a) /\ b \in Slots /\ Tracked(b)
    BY <1>2, <1>3, <1>4, <1>5
  <2>3. QED
    BY <1>6, <2>1, <2>2
<1>9. QED
  BY <1>8

\* A value and an error exchange places.
LEMMA SwapsOne ==
  ASSUME types \in Traits, ~types.void,
         NEW s \in Slots, NEW u \in Slots, Tracked(s), Tracked(u), s.has, ~u.has
  PROVE  \A t \in SwapOne(Begin(s), Begin(u)) : Exchanged(t)
<1> DEFINE r == Begin(s)
           q == Begin(u)
           bare == Destroy(r, "value")
           bareOther == Destroy(q, "error")
<1>1. /\ Start(r) /\ r.slot = s /\ r.ending = "returned" /\ r.overwrote = FALSE
      /\ Start(q) /\ q.slot = u /\ q.ending = "returned" /\ q.overwrote = FALSE
  BY BeginsAt DEF Begin
<1>2. s.live = "value" /\ u.live = "error"
  BY DEF Tracked, ValueMember
<1>3. s.data \in Data /\ u.data \in Data
  BY SlotFields
<1> HIDE DEF r, q
<1>4. bare \in Results /\ bare.ending = "returned" /\ Bare(bare) /\ bare.overwrote = FALSE
  <2>1. bare = [r EXCEPT !.slot.live = "none", !.slot.data = Gone]
    BY <1>1, <1>2 DEF Destroy, Step
  <2>2. Named(r.slot) = "value"
    BY <1>1 DEF Named, ValueMember
  <2>3. Bare(bare)
    BY <1>1, <2>2, StepDestroy
  <2>4. bare.ending = "returned"
    BY <1>1, <2>1 DEF Start, Good, Results
  <2>5. QED
    BY <2>3, <2>4 DEF Bare, Results
<1>5. /\ bareOther \in Results /\ bareOther.ending = "returned" /\ Bare(bareOther)
      /\ bareOther.overwrote = FALSE
  <2>1. bareOther = [q EXCEPT !.slot.live = "none", !.slot.data = Gone]
    BY <1>1, <1>2 DEF Destroy, Step
  <2>2. Bare(bareOther)
    BY <1>1, <1>3, Gains
  <2>3. bareOther.ending = "returned"
    BY <1>1, <2>1 DEF Start, Good, Results
  <2>4. QED
    BY <2>2, <2>3 DEF Bare, Results
<1> HIDE DEF bare, bareOther
<1>6. Exchanged(Both(Flag(Place(bare, "error", u.data), FALSE),
                     Flag(Place(bareOther, "value", s.data), TRUE)))
  <2> DEFINE a == Flag(Place(bare, "error", u.data), FALSE)
             b == Flag(Place(bareOther, "value", s.data), TRUE)
  <2>1. Good(a) /\ a.ending = "returned"
    BY <1>3, <1>4, StepPlace
  <2>2. Good(b) /\ b.ending = "returned"
    BY <1>3, <1>5, StepPlace DEF ValueMember
  <2> HIDE DEF a, b
  <2>3. QED
    <3>1. Exchanged(Both(a, b))
      BY <2>1, <2>2 DEF Exchanged, Both, Good, Results
    <3>2. QED
      BY <3>1 DEF a, b
<1>7. ASSUME NEW e \in Results, Bare(e), e.ending = "returned", NEW m \in {"value", "error"},
             NEW d \in Data
      PROVE  LET f == Throw(Assign(e, m, d)) IN
               f.slot \in Slots /\ f.ending = "undefined" /\ f.overwrote = FALSE
  <2> DEFINE a == Assign(e, m, d)
  <2>1. a = [e EXCEPT !.ending = "undefined"]
    BY <1>7 DEF Assign, Step, Bare
  <2>2. a.slot \in Slots /\ a.ending = "undefined" /\ a.overwrote = FALSE
    BY <1>7, <2>1 DEF Results, Bare
  <2> HIDE DEF a
  <2>3. Throw(a) = a
    BY <2>2 DEF Throw, Step
  <2>4. QED
    BY <2>2, <2>3 DEF a
<1>8. ASSUME May("move", "E")
      PROVE  Exchanged(Both(Throw(Assign(bare, "value", r.slot.data)), q))
  <2> DEFINE f == Throw(Assign(bare, "value", r.slot.data))
  <2>1. f.slot \in Slots /\ f.ending = "undefined" /\ f.overwrote = FALSE
    BY <1>1, <1>3, <1>4, <1>7
  <2> HIDE DEF f
  <2>2. Exchanged(Both(f, q))
    BY <1>1, <1>8, <2>1 DEF Exchanged, Both, Endings
  <2>3. QED
    BY <2>2 DEF f
<1>9. ASSUME May("move", "T")
      PROVE  Exchanged(Both(r, Throw(Assign(bareOther, "error", q.slot.data))))
  <2> DEFINE f == Throw(Assign(bareOther, "error", q.slot.data))
  <2>1. f.slot \in Slots /\ f.ending = "undefined" /\ f.overwrote = FALSE
    BY <1>1, <1>3, <1>5, <1>7
  <2> HIDE DEF f
  <2>2. Exchanged(Both(r, f))
    BY <1>1, <1>9, <2>1 DEF Exchanged, Both, Endings
  <2>3. QED
    BY <2>2 DEF f
<1>10. ASSUME NEW t \in SwapOne(r, q)
       PROVE  Exchanged(t)
  BY <1>1, <1>6, <1>8, <1>9 DEF SwapOne, bare, bareOther
<1>11. QED
  BY <1>10 DEF r, q

\* swap leaves both objects with right flags, or was undefined for a throwing move.
LEMMA Swaps ==
  ASSUME IndInv, NEW x \in Objects, NEW y \in Objects, Swap(x, y)
  PROVE  IndInv'
<1> DEFINE p == From(obj[x], obj[y])
           q == From(obj[y], obj[x])
           results ==
             IF ~Tracked(obj[x]) \/ ~Tracked(obj[y])
             THEN {[Both(p, q) EXCEPT !.ending = "undefined"]}
             ELSE IF obj[x].has = obj[y].has
             THEN SwapMembers(p, q, IF obj[x].has THEN "T" ELSE "E")
             ELSE IF obj[x].has THEN SwapOne(p, q)
             ELSE {[t EXCEPT !.slot = t.other, !.other = t.slot] : t \in SwapOne(q, p)}
<1>1. Running /\ Exists(x) /\ Exists(y) /\ x # y /\ ~types.void /\ UNCHANGED types
  BY DEF Swap
<1>2. types \in Traits /\ obj[x] \in Slots /\ obj[y] \in Slots /\ \A z \in Objects : Held(obj[z])
  BY <1>1, Holding
<1>3. PICK t \in results : /\ obj' = [obj EXCEPT ![x] = t.slot, ![y] = t.other]
                           /\ Ends("swap", t)
  BY DEF Swap
<1>4. Exchanged(t)
  <2>1. CASE ~Tracked(obj[x]) \/ ~Tracked(obj[y])
    <3>1. ~Safe
      BY <1>1, <1>2, <2>1 DEF Held, Exists
    <3>2. t = [Both(p, q) EXCEPT !.ending = "undefined"]
      BY <1>3, <2>1
    <3>3. Start(p) /\ p.slot = obj[x] /\ Start(q) /\ q.slot = obj[y]
      BY <1>1, <1>2, BeginsAt DEF Held, Exists
    <3> DEFINE both == Both(p, q)
    <3> HIDE DEF p, q
    <3>4. both.slot = obj[x] /\ both.other = obj[y] /\ both.overwrote = FALSE
      BY <3>3 DEF Both, Start, Good, Results
    <3>5. t.slot = both.slot /\ t.other = both.other /\ t.overwrote = both.overwrote
          /\ t.ending = "undefined"
      BY <3>2 DEF Both
    <3>6. QED
      BY <1>2, <3>1, <3>4, <3>5 DEF Exchanged, Endings
  <2>2. CASE Tracked(obj[x]) /\ Tracked(obj[y])
    <3>1. p = Begin(obj[x]) /\ q = Begin(obj[y])
      BY <2>2 DEF From
    <3>2. obj[x].has \in BOOLEAN /\ obj[y].has \in BOOLEAN
      BY <1>2, SlotFields
    <3>3. CASE obj[x].has = obj[y].has
      <4>1. t \in SwapMembers(p, q, IF obj[x].has THEN "T" ELSE "E")
        BY <1>3, <2>2, <3>3
      <4>2. QED
        BY <1>1, <1>2, <2>2, <3>1, <3>3, <4>1, SwapsMembers
    <3>4. CASE obj[x].has /\ ~obj[y].has
      <4>1. t \in SwapOne(p, q)
        BY <1>3, <2>2, <3>4
      <4>2. QED
        BY <1>1, <1>2, <2>2, <3>1, <3>4, <4>1, SwapsOne
    <3>5. CASE ~obj[x].has /\ obj[y].has
      <4>1. PICK u \in SwapOne(q, p) : t = [u EXCEPT !.slot = u.other, !.other = u.slot]
        BY <1>3, <2>2, <3>5
      <4>2. Exchanged(u)
        BY <1>1, <1>2, <2>2, <3>1, <3>5, SwapsOne
      <4>3. t.slot = u.other /\ t.other = u.slot /\ t.ending = u.ending /\ t.overwrote = u.overwrote
        <5>1. u = [slot |-> u.slot, other |-> u.other, ending |-> u.ending,
                   overwrote |-> u.overwrote]
          BY DEF SwapOne, Both
        <5>2. QED
          BY <4>1, <5>1
      <4>4. QED
        BY <4>2, <4>3 DEF Exchanged
    <3>6. QED
      BY <3>2, <3>3, <3>4, <3>5
  <2>3. QED
    BY <2>1, <2>2
<1> HIDE DEF results
<1>5. obj' = [z \in Objects |-> IF z = y THEN t.other ELSE IF z = x THEN t.slot ELSE obj[z]]
  BY <1>1, <1>3, Holding
<1>6. /\ last'.call = "swap" /\ last'.ending = t.ending /\ last'.ending \in Endings
      /\ last'.overwrote = FALSE
      /\ Running' <=> t.ending \in {"returned", "threw"}
  BY <1>3, <1>4 DEF Ends, Exchanged, Running
<1>7. \A z \in Objects : obj'[z] \in Slots \cup {Nothing}
  BY <1>2, <1>4, <1>5 DEF Exchanged, Held
<1>8. ASSUME Running'
      PROVE  Held(t.slot) /\ Held(t.other)
  BY <1>4, <1>6, <1>8 DEF Exchanged, Held
<1>9. Running' => \A z \in Objects : Held(obj'[z])
  BY <1>2, <1>5, <1>8
<1>10. obj' = [z \in Objects |-> obj'[z]]
  BY <1>5
<1>11. last'.ending = "undefined" => ~Safe \/ May("move", "T") \/ May("move", "E")
  BY <1>4, <1>6 DEF Exchanged
<1>12. QED
  BY <1>1, <1>6, <1>7, <1>9, <1>10, <1>11, Leaves

-----------------------------------------------------------------------------

\* Every call keeps the invariant.
LEMMA NextKeeps == IndInv /\ [Next]_vars => IndInv'
<1> SUFFICES ASSUME IndInv, [Next]_vars
             PROVE  IndInv'
  OBVIOUS
<1>1. CASE UNCHANGED vars
  <2>1. TypeOK'
    BY <1>1 DEF IndInv, TypeOK, vars
  <2>2. UndefinedNeedsThrow' /\ OnlyConvertOverwrites'
    BY <1>1 DEF IndInv, UndefinedNeedsThrow, OnlyConvertOverwrites, May, vars
  <2>3. FlagTracksMember'
    BY <1>1 DEF IndInv, FlagTracksMember, AllTracked, Running, May, Exists, Tracked, ValueMember, vars
  <2>4. QED
    BY <2>1, <2>2, <2>3 DEF IndInv
<1>2. ASSUME NEW x \in Objects, NEW d \in Values, Replacement(x, d)
      PROVE  IndInv'
  <2>1. Running /\ Exists(x)
    BY <1>2 DEF Replacement, AssignValue, AssignUnexpected, Emplace, EmplaceList, Apply
  <2>2. QED
    BY <1>2, <2>1, Changes
<1>3. QED
  BY <1>1, <1>2, MakesValue, Swaps, Derives, AssignsObject, Destroys, Observes DEF Next

\* The invariant holds after any sequence of calls.
LEMMA ExpectedInvariant == Spec => []IndInv
<1>1. Init => IndInv
  BY DEF Init, IndInv, TypeOK, FlagTracksMember, AllTracked, UndefinedNeedsThrow,
         OnlyConvertOverwrites, Exists, Endings
<1>2. QED
  BY <1>1, NextKeeps, PTL DEF Spec

\* The variables keep their types: no member lives that the flag of its object does not
\* name.
THEOREM ExpectedTypeCorrect == Spec => []TypeOK
<1>1. IndInv => TypeOK
  BY DEF IndInv
<1>2. QED
  BY <1>1, ExpectedInvariant, PTL

\* m_has_val always names the member that lives, if constructing a T does not throw.
THEOREM ExpectedFlag == Spec => []FlagTracksMember
<1>1. IndInv => FlagTracksMember
  BY DEF IndInv
<1>2. QED
  BY <1>1, ExpectedInvariant, PTL

\* A call without a meaning needs a type that throws, in one of two ways.
THEOREM ExpectedUndefined == Spec => []UndefinedNeedsThrow
<1>1. IndInv => UndefinedNeedsThrow
  BY DEF IndInv
<1>2. QED
  BY <1>1, ExpectedInvariant, PTL

\* Only a converting constructor constructs a member over one that lives.
THEOREM ExpectedOverwrites == Spec => []OnlyConvertOverwrites
<1>1. IndInv => OnlyConvertOverwrites
  BY DEF IndInv
<1>2. QED
  BY <1>1, ExpectedInvariant, PTL

\* != negates ==, but for two errors beside void.
THEOREM ExpectedDiffer == Spec => []DifferNegatesEqual
<1>1. IndInv => DifferNegatesEqual
  <2> SUFFICES ASSUME IndInv, Running, NEW x \in Objects, NEW y \in Objects,
                      Exists(x), Exists(y)
               PROVE  Differ(obj[x], obj[y]) =
                        IF types.void /\ ~obj[x].has /\ ~obj[y].has THEN Equal(obj[x], obj[y])
                        ELSE ~Equal(obj[x], obj[y])
    BY DEF DifferNegatesEqual
  <2>1. obj[x].has \in BOOLEAN /\ obj[y].has \in BOOLEAN
    BY Holding, SlotFields
  <2>2. QED
    BY <2>1 DEF Differ, Equal
<1>2. QED
  BY <1>1, ExpectedInvariant, PTL

-----------------------------------------------------------------------------
(* What an assignment does.                                                *)

\* An assignment ends with the result of one of the overloads.
LEMMA AssignEnds ==
  ASSUME IndInv, NEW x \in Objects, NEW y \in Objects, NEW category \in Categories,
         AssignObject(x, y, category)
  PROVE  /\ types \in Traits /\ obj[x] \in Slots /\ obj[y] \in Slots
         /\ Start(From(obj[x], obj[y])) /\ From(obj[x], obj[y]).slot = obj[x]
         /\ \E t \in AssignFrom(From(obj[x], obj[y]), obj[y], category) :
              \E q \in Left(y, category) :
                /\ obj' = [obj EXCEPT ![y] = q, ![x] = t.slot]
                /\ obj'[x] = t.slot
                /\ last'.ending = t.ending
<1>1. Running /\ Exists(x) /\ Exists(y)
  BY DEF AssignObject
<1>2. types \in Traits /\ obj[x] \in Slots /\ obj[y] \in Slots /\ Held(obj[x]) /\ Held(obj[y])
  BY <1>1, Holding
<1>3. Start(From(obj[x], obj[y])) /\ From(obj[x], obj[y]).slot = obj[x]
  BY <1>1, <1>2, BeginsAt DEF Held, Exists
<1>4. obj = [z \in Objects |-> obj[z]]
  BY <1>1, Holding
<1>5. QED
  BY <1>2, <1>3, <1>4 DEF AssignObject, Ends

\* The operation whose exception an assignment of q may let out.
Throws(s, q) ==
  IF s.has = q.has THEN May("assign", "T") \/ May("assign", "E") ELSE May("move", "E")

\* A result that has taken over all of q, or kept the flag and the member of r.
Exact(t, r, q) ==
  /\ t.ending = "returned" => t.slot.has = q.has /\ t.slot.data = q.data
  /\ t.ending = "threw" => Kept(r.slot, t.slot) /\ Throws(r.slot, q)

\* What does not throw is exact, if the program ends at what does.
LEMMA ExactNoexcept ==
  ASSUME NEW r, NEW q, NEW results,
         \A t \in results : Good(t) /\ (t.ending # "threw" => Exact(t, r, q))
  PROVE  \A t \in Noexcept(results) : Exact(t, r, q)
<1>1. ASSUME NEW u \in results, u.ending = "threw"
      PROVE  [u EXCEPT !.ending = "terminated"].ending = "terminated"
  BY DEF Good, Results
<1>2. QED
  BY <1>1 DEF Noexcept, Exact

\* An operation that throws on a member may spoil its content.
LEMMA GarbledKeeps ==
  ASSUME NEW r, Start(r), NEW m, NEW operation, NEW type,
         NEW t \in Garbled(r, m, operation, type)
  PROVE  /\ May(operation, type) /\ t.ending # "returned"
         /\ t.ending = "threw" => Kept(r.slot, t.slot)
<1>1. r \in Results /\ r.slot \in Slots /\ r.ending \in {"returned", "undefined"}
  BY DEF Start, Good, Results
<1>2. PICK d \in {r.slot.data, Gone} : t = Throw(Assign(r, m, d)) /\ May(operation, type)
  BY DEF Garbled
<1> DEFINE a == Assign(r, m, d)
<1>3. CASE r.ending = "returned" /\ r.slot.live = m
  <2>1. a = [r EXCEPT !.slot.data = d]
    BY <1>3 DEF Assign, Step
  <2> DEFINE s == [r.slot EXCEPT !.data = d]
  <2>2. a = [slot |-> s, ending |-> r.ending, overwrote |-> r.overwrote]
    BY <1>1, <2>1 DEF Results
  <2>3. s.has = r.slot.has /\ s.live = r.slot.live /\ s.data = d
    BY <1>1 DEF Slots
  <2> HIDE DEF s, a
  <2>4. t = [slot |-> s, ending |-> "threw", overwrote |-> r.overwrote]
    BY <1>2, <1>3, <2>2 DEF Throw, Step, a
  <2>5. QED
    BY <1>2, <2>3, <2>4 DEF Kept
<1>4. CASE ~(r.ending = "returned" /\ r.slot.live = m)
  <2>1. a = IF r.ending = "returned" THEN [r EXCEPT !.ending = "undefined"] ELSE r
    BY <1>4 DEF Assign, Step
  <2>2. a.ending = "undefined"
    BY <1>1, <2>1 DEF Results
  <2> HIDE DEF a
  <2>3. t = a
    BY <1>2, <2>2 DEF Throw, Step, a
  <2>4. QED
    BY <1>2, <2>2, <2>3
<1>5. QED
  BY <1>3, <1>4

\* A member constructed from that of q.
LEMMA ExactConstructs ==
  ASSUME types \in Traits, NEW r, NEW bare, Bare(bare), NEW q \in Slots, NEW operation
  PROVE  /\ q.has /\ ~types.void =>
              \A t \in Construct(bare, operation, q.data) : Exact(t, r, q)
         /\ ~q.has => \A t \in ConstructError(bare, operation, q.data) : Exact(t, r, q)
<1>1. q.data \in Data /\ q.has \in BOOLEAN
  BY SlotFields
<1>2. ASSUME NEW m \in {"value", "error"}, NEW b \in BOOLEAN, b = q.has,
             bare.ending = "returned"
      PROVE  LET t == Flag(Place(bare, m, q.data), b) IN
               t.ending = "returned" /\ t.slot.has = q.has /\ t.slot.data = q.data
  BY <1>2 DEF Flag, Place, Step, Bare, Results, Slots
<1>3. ASSUME NEW t, NEW type, NEW placed, t \in Noexcept({placed} \cup Cut(bare, operation, type)),
             placed.ending # "threw"
      PROVE  t = placed \/ t.ending \notin {"returned", "threw"}
  <2>1. ASSUME NEW c \in Cut(bare, operation, type)
        PROVE  /\ c.ending = "threw" => [c EXCEPT !.ending = "terminated"].ending = "terminated"
               /\ c.ending # "returned"
    <3>1. c = IF bare.ending = "returned" THEN [bare EXCEPT !.ending = "threw"] ELSE bare
      BY DEF Cut, Throw, Step
    <3>2. QED
      BY <3>1 DEF Bare, Results
  <2>2. QED
    BY <1>3, <2>1 DEF Noexcept
<1>4. ASSUME q.has, ~types.void, NEW t \in Construct(bare, operation, q.data)
      PROVE  Exact(t, r, q)
  <2> DEFINE placed == Flag(Place(bare, "value", q.data), TRUE)
  <2>1. placed.ending # "threw" /\ Exact(placed, r, q)
    <3>1. CASE bare.ending = "returned"
      BY <1>2, <1>4, <3>1 DEF Exact
    <3>2. CASE bare.ending # "returned"
      BY <3>2 DEF Flag, Place, Step, Bare, Exact
    <3>3. QED
      BY <3>1, <3>2
  <2>2. t \in Noexcept({placed} \cup Cut(bare, operation, "T"))
    BY <1>4 DEF Construct
  <2> HIDE DEF placed
  <2>3. QED
    BY <1>3, <2>1, <2>2 DEF Exact
<1>5. ASSUME ~q.has, NEW t \in ConstructError(bare, operation, q.data)
      PROVE  Exact(t, r, q)
  <2> DEFINE placed == Flag(Place(bare, "error", q.data), FALSE)
  <2>1. placed.ending # "threw" /\ Exact(placed, r, q)
    <3>1. CASE bare.ending = "returned"
      BY <1>1, <1>2, <1>5, <3>1 DEF Exact
    <3>2. CASE bare.ending # "returned"
      BY <3>2 DEF Flag, Place, Step, Bare, Exact
    <3>3. QED
      BY <3>1, <3>2
  <2>2. t \in Noexcept({placed} \cup Cut(bare, operation, "E"))
    BY <1>5 DEF ConstructError
  <2> HIDE DEF placed
  <2>3. QED
    BY <1>3, <2>1, <2>2 DEF Exact
<1>6. QED
  BY <1>4, <1>5

\* A member assigned from that of q.
LEMMA ExactAssigned ==
  ASSUME NEW r, Start(r), NEW q \in Slots, q.has = r.slot.has,
         NEW m \in {"value", "error"}, NEW type \in {"T", "E"}
  PROVE  \A t \in Assigned(r, m, q.data, type) : Exact(t, r, q)
<1>0. \A t \in Garbled(r, m, "assign", type) : Exact(t, r, q)
  BY GarbledKeeps DEF Exact, Throws
<1>1. CASE r.ending = "returned" /\ r.slot.live = m
  <2>1. Assign(r, m, q.data) = [r EXCEPT !.slot.data = q.data]
    BY <1>1 DEF Assign, Step
  <2>2. LET t == [r EXCEPT !.slot.data = q.data] IN
          t.ending = "returned" /\ t.slot.has = r.slot.has /\ t.slot.data = q.data
    BY <1>1 DEF Start, Good, Results, Slots
  <2>3. Exact(Assign(r, m, q.data), r, q)
    BY <2>1, <2>2 DEF Exact
  <2>4. QED
    BY <1>0, <2>3 DEF Assigned
<1>2. CASE ~(r.ending = "returned" /\ r.slot.live = m)
  <2>1. Assign(r, m, q.data)
          = IF r.ending = "returned" THEN [r EXCEPT !.ending = "undefined"] ELSE r
    BY <1>2 DEF Assign, Step
  <2>2. Assign(r, m, q.data).ending = "undefined"
    BY <2>1 DEF Start, Good, Results
  <2>3. Exact(Assign(r, m, q.data), r, q)
    BY <2>2 DEF Exact
  <2>4. QED
    BY <1>0, <2>3 DEF Assigned
<1>3. QED
  BY <1>1, <1>2

\* The common part of operator= takes over all of the other, or keeps its member.
LEMMA ExactCommon ==
  ASSUME types \in Traits, ~types.void, NEW r, Start(r), NEW q \in Slots,
         ~(~r.slot.has /\ q.has), NEW category
  PROVE  \A t \in AssignCommon(r, q, category) : Exact(t, r, q)
<1>1. r.slot \in Slots /\ r.slot.has \in BOOLEAN /\ q.has \in BOOLEAN
  BY SlotFields DEF Start, Good, Results
<1>2. CASE r.slot.has /\ q.has
  BY <1>1, <1>2, ExactAssigned DEF AssignCommon
<1>3. CASE r.slot.has /\ ~q.has
  <2>1. Named(r.slot) = "value"
    BY <1>3 DEF Named, ValueMember
  <2>2. Bare(Destroy(r, "value"))
    BY <2>1, StepDestroy
  <2>3. QED
    BY <1>3, <2>2, ExactConstructs DEF AssignCommon
<1>4. CASE ~r.slot.has /\ ~q.has
  BY <1>1, <1>4, ExactAssigned DEF AssignCommon
<1>5. QED
  BY <1>1, <1>2, <1>3, <1>4

\* So does the whole of it: a constructor of T that throws ends the program.
LEMMA ExactAssigns ==
  ASSUME types \in Traits, NEW r, Start(r), NEW q \in Slots,
         Safe => Tracked(q), NEW category \in Categories,
         NEW t \in AssignFrom(r, q, category)
  PROVE  Exact(t, r, q)
<1>1. q.data \in Data /\ q.has \in BOOLEAN /\ r.slot \in Slots /\ r.slot.has \in BOOLEAN
  BY SlotFields DEF Start, Good, Results
<1> DEFINE gains == ~r.slot.has /\ q.has
           bare == Destroy(r, "error")
<1>2. ASSUME ~types.void, gains, NEW operation
      PROVE  /\ \A u \in Construct(bare, operation, q.data) : Good(u) /\ Exact(u, r, q)
             /\ \A u \in AssignGuarded(r, q, operation) : Exact(u, r, q)
             /\ Good(Throw(r)) /\ (Throw(r).ending # "threw" => Exact(Throw(r), r, q))
  <2>1. \A u \in Construct(bare, operation, q.data) : Good(u) /\ Exact(u, r, q)
    BY <1>1, <1>2, Gains, ExactConstructs
  <2>2. \A u \in Garbled(r, "error", "move", "E") : Exact(u, r, q)
    BY <1>2, GarbledKeeps DEF Exact, Throws
  <2>3. Good(Throw(r))
    BY StepThrow
  <2>4. Throw(r).ending # "threw" => Exact(Throw(r), r, q)
    <3>1. CASE r.ending = "returned"
      BY <3>1 DEF Throw, Step, Start, Good, Results
    <3>2. CASE r.ending = "undefined"
      BY <3>2 DEF Throw, Step, Exact
    <3>3. QED
      BY <3>1, <3>2 DEF Start
  <2>5. QED
    BY <2>1, <2>2, <2>3, <2>4 DEF AssignGuarded
<1>3. ASSUME ~types.void, ~gains, NEW operation
      PROVE  /\ \A u \in AssignCommon(r, q, operation) : Good(u) /\ Exact(u, r, q)
             /\ \A u \in Noexcept(AssignCommon(r, q, operation)) : Exact(u, r, q)
  BY <1>3, AssignsCommon, ExactCommon, ExactNoexcept
<1>4. ASSUME ~types.void, t \in AssignCopy(r, q)
      PROVE  Exact(t, r, q)
  <2> DEFINE copied == IF gains THEN {Throw(r)} \cup Construct(bare, "move", q.data)
                       ELSE AssignCommon(r, q, "copy")
  <2>1. \A u \in copied : Good(u) /\ (u.ending # "threw" => Exact(u, r, q))
    BY <1>2, <1>3, <1>4
  <2>2. \A u \in Noexcept(copied) : Exact(u, r, q)
    BY <2>1, ExactNoexcept
  <2>3. QED
    BY <1>2, <1>3, <1>4, <2>2 DEF AssignCopy
<1>5. ASSUME ~types.void, t \in AssignMove(r, q)
      PROVE  Exact(t, r, q)
  BY <1>2, <1>3, <1>5 DEF AssignMove
<1>6. ASSUME types.void, t \in AssignVoid(r, q, category)
      PROVE  Exact(t, r, q)
  <2> DEFINE results == IF r.slot.has
                        THEN IF q.has THEN {r} ELSE ConstructError(r, category, q.data)
                        ELSE IF q.has THEN {Flag(bare, TRUE)}
                             ELSE Assigned(r, "error", q.data, "E")
  <2>1. Safe /\ Tracked(q) /\ Tracked(r.slot)
    BY <1>6, VoidIsSafe DEF Start, Good
  <2>2. q.has => q.data = Gone
    BY <1>6, <2>1 DEF Tracked, ValueMember, Slots
  <2>3. CASE r.slot.has /\ q.has
    <3>1. r.slot.data = Gone
      BY <1>1, <1>6, <2>1, <2>3 DEF Tracked, ValueMember, Slots
    <3>2. Exact(r, r, q) /\ Good(r)
      BY <1>1, <2>2, <2>3, <3>1 DEF Exact, Start
    <3>3. \A u \in results : Good(u) /\ Exact(u, r, q)
      BY <2>3, <3>2
    <3>4. QED
      BY <1>6, <3>3, ExactNoexcept DEF AssignVoid
  <2>4. CASE r.slot.has /\ ~q.has
    <3>1. Bare(r)
      BY <1>6, <2>1, <2>4 DEF Start, Good, Bare, Tracked, ValueMember
    <3>2. \A u \in results : Good(u) /\ Exact(u, r, q)
      BY <1>1, <2>4, <3>1, Constructs, ExactConstructs
    <3>3. QED
      BY <1>6, <3>2, ExactNoexcept DEF AssignVoid
  <2>5. CASE ~r.slot.has /\ q.has
    <3> DEFINE u == Flag(bare, TRUE)
    <3>1. Bare(bare)
      BY <1>1, <2>5, Gains
    <3> HIDE DEF bare
    <3>2. bare.slot.data = Gone /\ bare.ending = "returned"
      BY <2>1, <3>1 DEF Bare, Results, Slots
    <3>3. u = [bare EXCEPT !.slot.has = TRUE]
      BY <3>2 DEF Flag, Step
    <3>4. u.slot.has = TRUE /\ u.slot.data = Gone /\ u.ending = "returned"
      BY <3>1, <3>2, <3>3 DEF Bare, Results, Slots
    <3>5. Exact(u, r, q)
      BY <1>1, <2>2, <2>5, <3>4 DEF Exact
    <3>6. t \in Noexcept({u})
      BY <1>6, <2>5 DEF AssignVoid, bare
    <3> HIDE DEF u
    <3>7. t = u
      BY <3>4, <3>6 DEF Noexcept
    <3>8. QED
      BY <3>5, <3>7
  <2>6. CASE ~r.slot.has /\ ~q.has
    <3>1. \A u \in results : Good(u) /\ Exact(u, r, q)
      BY <1>1, <2>6, Assigns, ExactAssigned DEF Named
    <3>2. QED
      BY <1>6, <3>1, ExactNoexcept DEF AssignVoid
  <2>7. QED
    BY <1>1, <2>3, <2>4, <2>5, <2>6
<1>7. QED
  BY <1>4, <1>5, <1>6 DEF AssignFrom

\* An assignment that returns has taken over all, one that throws has kept every flag
\* and every member, and only an assignment of members or the move of an error throws.
THEOREM ExpectedAssignment == Spec => AssignTakesOrKeeps
<1>1. ASSUME IndInv, [Next]_vars, NEW x \in Objects, NEW y \in Objects,
             NEW category \in Categories, AssignObject(x, y, category)
      PROVE  /\ last'.ending = "returned" => Content(obj'[x]) = Content(obj[y])
             /\ last'.ending = "threw" =>
                  /\ Kept(obj[x], obj'[x]) /\ Kept(obj[y], obj'[y])
                  /\ IF obj[x].has = obj[y].has
                     THEN May("assign", "T") \/ May("assign", "E")
                     ELSE May("move", "E")
  <2> DEFINE r == From(obj[x], obj[y])
  <2>1. types \in Traits /\ obj[y] \in Slots /\ Start(r) /\ r.slot = obj[x]
    BY <1>1, AssignEnds
  <2>2. PICK t \in AssignFrom(r, obj[y], category) :
          \E q \in Left(y, category) :
            /\ obj' = [obj EXCEPT ![y] = q, ![x] = t.slot]
            /\ obj'[x] = t.slot
            /\ last'.ending = t.ending
    BY <1>1, AssignEnds
  <2>3. PICK q \in Left(y, category) :
          /\ obj' = [obj EXCEPT ![y] = q, ![x] = t.slot]
          /\ obj'[x] = t.slot
          /\ last'.ending = t.ending
    BY <2>2
  <2>4. Running /\ Exists(x) /\ Exists(y)
    BY <1>1 DEF AssignObject
  <2>5. (Safe => Tracked(obj[y])) /\ obj = [z \in Objects |-> obj[z]]
    BY <1>1, <2>4, Holding DEF Held, Exists
  <2> HIDE DEF r
  <2>6. Exact(t, r, obj[y])
    BY <2>1, <2>5, ExactAssigns
  <2>7. ASSUME t.ending = "threw"
        PROVE  Kept(obj[x], obj'[x]) /\ Kept(obj[y], obj'[y]) /\ Throws(obj[x], obj[y])
    <3>1. Kept(obj[x], obj'[x]) /\ Throws(obj[x], obj[y])
      BY <2>1, <2>3, <2>6, <2>7 DEF Exact
    <3>2. CASE x = y
      BY <3>1, <3>2
    <3>3. CASE x # y
      <4>1. obj'[y] = q
        BY <2>3, <2>5, <3>3
      <4>2. q = obj[y] \/ q = Spent(obj[y])
        BY DEF Left
      <4>3. Spent(obj[y]).has = obj[y].has /\ Spent(obj[y]).live = obj[y].live
            /\ Spent(obj[y]).data = Gone
        BY <2>1 DEF Spent, Slots
      <4>4. QED
        BY <3>1, <4>1, <4>2, <4>3 DEF Kept
    <3>4. QED
      BY <3>2, <3>3
  <2>8. QED
    BY <2>3, <2>6, <2>7 DEF Exact, Content, Throws
<1>2. ASSUME IndInv, [Next]_vars
      PROVE  [\A x, y \in Objects, category \in Categories :
                AssignObject(x, y, category) =>
                  /\ last'.ending = "returned" => Content(obj'[x]) = Content(obj[y])
                  /\ last'.ending = "threw" =>
                       /\ Kept(obj[x], obj'[x]) /\ Kept(obj[y], obj'[y])
                       /\ IF obj[x].has = obj[y].has
                          THEN May("assign", "T") \/ May("assign", "E")
                          ELSE May("move", "E")]_vars
  BY <1>1, <1>2
<1>3. QED
  BY <1>2, ExpectedInvariant, PTL DEF Spec, AssignTakesOrKeeps

-----------------------------------------------------------------------------
(* What a swap does.                                                       *)

\* A result that has exchanged value or error of s and u, or left their flags.
Crossed(t, s, u) ==
  /\ t.ending = "returned" => /\ t.slot.has = u.has /\ t.slot.data = u.data
                              /\ t.other.has = s.has /\ t.other.data = s.data
  /\ t.ending = "threw" => t.slot.has = s.has /\ t.other.has = u.has

\* Two members of one kind are exchanged, or a throw leaves both flags.
LEMMA CrossedMembers ==
  ASSUME NEW s \in Slots, NEW u \in Slots, s.has = u.has, NEW type
  PROVE  \A t \in SwapMembers(Begin(s), Begin(u), type) : Crossed(t, s, u)
<1>1. Begin(s).slot = s /\ Begin(u).slot = u
  BY DEF Begin
<1> DEFINE content == [s EXCEPT !.data = u.data]
           other == [u EXCEPT !.data = s.data]
<1>2. /\ content.has = s.has /\ content.data = u.data
      /\ other.has = u.has /\ other.data = s.data
      /\ Spent(s).has = s.has /\ Spent(u).has = u.has
  BY DEF Slots, Spent
<1> HIDE DEF content, other
<1>3. ASSUME NEW a, NEW b, a.has = s.has, b.has = u.has, NEW ending,
             ending = "returned" => a.data = u.data /\ b.data = s.data
      PROVE  Crossed([slot |-> a, other |-> b, ending |-> ending, overwrote |-> FALSE], s, u)
  BY <1>3 DEF Crossed
<1>4. SwapMembers(Begin(s), Begin(u), type) \subseteq
        {[slot |-> content, other |-> other, ending |-> "returned", overwrote |-> FALSE]}
        \cup {[slot |-> a, other |-> b, ending |-> "threw", overwrote |-> FALSE] :
                a \in {s, Spent(s), content}, b \in {u, Spent(u)}}
  BY <1>1 DEF SwapMembers, content, other
<1>5. Crossed([slot |-> content, other |-> other, ending |-> "returned", overwrote |-> FALSE], s, u)
  BY <1>2, <1>3
<1>6. ASSUME NEW a \in {s, Spent(s), content}, NEW b \in {u, Spent(u)}
      PROVE  Crossed([slot |-> a, other |-> b, ending |-> "threw", overwrote |-> FALSE], s, u)
  BY <1>2, <1>3
<1>7. ASSUME NEW t \in SwapMembers(Begin(s), Begin(u), type)
      PROVE  Crossed(t, s, u)
  <2>1. CASE t = [slot |-> content, other |-> other, ending |-> "returned", overwrote |-> FALSE]
    BY <1>5, <2>1
  <2>2. CASE \E a \in {s, Spent(s), content}, b \in {u, Spent(u)} :
               t = [slot |-> a, other |-> b, ending |-> "threw", overwrote |-> FALSE]
    BY <1>6, <2>2
  <2>3. QED
    BY <1>4, <2>1, <2>2
<1>8. QED
  BY <1>7

\* The handler's assignment to a destroyed member.
LEMMA AfterDestroy ==
  ASSUME NEW e, Bare(e), e.ending = "returned", NEW m \in {"value", "error"}, NEW d \in Data
  PROVE  Throw(Assign(e, m, d)).ending = "undefined"
<1>1. e \in Results /\ e.slot.live = "none"
  BY DEF Bare
<1>2. Assign(e, m, d) = [e EXCEPT !.ending = "undefined"]
  BY <1>1 DEF Assign, Step
<1>3. Assign(e, m, d).ending = "undefined"
  BY <1>1, <1>2 DEF Results
<1>4. Throw(Assign(e, m, d)) = Assign(e, m, d)
  BY <1>3 DEF Throw, Step
<1>5. QED
  BY <1>3, <1>4

\* A value and an error are exchanged with their flags, or a throw leaves both flags.
LEMMA CrossedOne ==
  ASSUME types \in Traits, ~types.void,
         NEW s \in Slots, NEW u \in Slots, Tracked(s), Tracked(u), s.has, ~u.has
  PROVE  \A t \in SwapOne(Begin(s), Begin(u)) : Crossed(t, s, u)
<1> DEFINE r == Begin(s)
           q == Begin(u)
           bare == Destroy(r, "value")
           bareOther == Destroy(q, "error")
<1>1. /\ Start(r) /\ r.slot = s /\ r.ending = "returned"
      /\ Start(q) /\ q.slot = u /\ q.ending = "returned"
  BY BeginsAt DEF Begin
<1>2. s.data \in Data /\ u.data \in Data
  BY SlotFields
<1>3. s.live = "value" /\ u.live = "error"
  BY DEF Tracked, ValueMember
<1> HIDE DEF r, q
<1>4. bare \in Results /\ Bare(bare) /\ bare.ending = "returned"
  <2>1. Bare(bare)
    BY <1>1, StepDestroy DEF Named, ValueMember
  <2>2. bare = [r EXCEPT !.slot.live = "none", !.slot.data = Gone]
    BY <1>1, <1>3 DEF Destroy, Step
  <2>3. QED
    BY <1>1, <2>1, <2>2 DEF Start, Good, Bare, Results
<1>5. bareOther \in Results /\ Bare(bareOther) /\ bareOther.ending = "returned"
  <2>1. Bare(bareOther)
    BY <1>1, <1>2, Gains
  <2>2. bareOther = [q EXCEPT !.slot.live = "none", !.slot.data = Gone]
    BY <1>1, <1>3 DEF Destroy, Step
  <2>3. QED
    BY <1>1, <2>1, <2>2 DEF Start, Good, Bare, Results
<1> HIDE DEF bare, bareOther
<1>6. Crossed(Both(Flag(Place(bare, "error", u.data), FALSE),
                   Flag(Place(bareOther, "value", s.data), TRUE)), s, u)
  <2> DEFINE a == Flag(Place(bare, "error", u.data), FALSE)
             b == Flag(Place(bareOther, "value", s.data), TRUE)
  <2>1. /\ a.ending = "returned" /\ a.slot.data = u.data
        /\ a.slot.has \in BOOLEAN /\ ~a.slot.has
    BY <1>2, <1>4 DEF Flag, Place, Step, Bare, Results, Slots
  <2>2. /\ b.ending = "returned" /\ b.slot.data = s.data
        /\ b.slot.has \in BOOLEAN /\ b.slot.has
    BY <1>2, <1>5 DEF Flag, Place, Step, Bare, Results, Slots
  <2> HIDE DEF a, b
  <2>3. s.has \in BOOLEAN /\ u.has \in BOOLEAN
    BY SlotFields
  <2>4. a.slot.has = u.has /\ a.slot.data = u.data /\ b.slot.has = s.has /\ b.slot.data = s.data
    BY <2>1, <2>2, <2>3
  <2>5. Crossed(Both(a, b), s, u)
    BY <2>1, <2>2, <2>4 DEF Crossed, Both
  <2>6. QED
    BY <2>5 DEF a, b
<1>7. /\ Crossed(Both(Throw(Assign(bare, "value", r.slot.data)), q), s, u)
      /\ Crossed(Both(r, Throw(Assign(bareOther, "error", q.slot.data))), s, u)
  <2> DEFINE a == Throw(Assign(bare, "value", r.slot.data))
             b == Throw(Assign(bareOther, "error", q.slot.data))
  <2>1. r.slot.data \in Data /\ q.slot.data \in Data
    BY <1>1, <1>2
  <2>2. a.ending = "undefined" /\ b.ending = "undefined"
    BY <1>4, <1>5, <2>1, AfterDestroy
  <2> HIDE DEF a, b
  <2>3. Crossed(Both(a, q), s, u) /\ Crossed(Both(r, b), s, u)
    BY <1>1, <2>2 DEF Crossed, Both
  <2>4. QED
    BY <2>3 DEF a, b
<1>8. ASSUME NEW t \in SwapOne(r, q)
      PROVE  Crossed(t, s, u)
  BY <1>1, <1>6, <1>7 DEF SwapOne, bare, bareOther
<1>9. QED
  BY <1>8 DEF r, q

\* A swap that returns has exchanged value and error, one that throws has left the flags.
THEOREM ExpectedSwap == Spec => SwapExchanges
<1>1. ASSUME IndInv, NEW x \in Objects, NEW y \in Objects, Swap(x, y)
      PROVE  /\ last'.ending = "returned" =>
                  Content(obj'[x]) = Content(obj[y]) /\ Content(obj'[y]) = Content(obj[x])
             /\ last'.ending = "threw" =>
                  obj'[x].has = obj[x].has /\ obj'[y].has = obj[y].has
  <2> DEFINE p == From(obj[x], obj[y])
             q == From(obj[y], obj[x])
             results ==
               IF ~Tracked(obj[x]) \/ ~Tracked(obj[y])
               THEN {[Both(p, q) EXCEPT !.ending = "undefined"]}
               ELSE IF obj[x].has = obj[y].has
               THEN SwapMembers(p, q, IF obj[x].has THEN "T" ELSE "E")
               ELSE IF obj[x].has THEN SwapOne(p, q)
               ELSE {[t EXCEPT !.slot = t.other, !.other = t.slot] : t \in SwapOne(q, p)}
  <2>1. Running /\ Exists(x) /\ Exists(y) /\ x # y /\ ~types.void
    BY <1>1 DEF Swap
  <2>2. /\ types \in Traits /\ obj[x] \in Slots /\ obj[y] \in Slots
        /\ obj = [z \in Objects |-> obj[z]]
        /\ obj[x].has \in BOOLEAN /\ obj[y].has \in BOOLEAN
    BY <1>1, <2>1, Holding, SlotFields
  <2>3. PICK t \in results : /\ obj' = [obj EXCEPT ![x] = t.slot, ![y] = t.other]
                             /\ Ends("swap", t)
    BY <1>1 DEF Swap
  <2>4. CASE Tracked(obj[x]) /\ Tracked(obj[y])
    <3>1. p = Begin(obj[x]) /\ q = Begin(obj[y])
      BY <2>4 DEF From
    <3>2. Crossed(t, obj[x], obj[y])
      <4>1. CASE obj[x].has = obj[y].has
        <5>1. t \in SwapMembers(p, q, IF obj[x].has THEN "T" ELSE "E")
          BY <2>3, <2>4, <4>1
        <5>2. QED
          BY <2>2, <3>1, <4>1, <5>1, CrossedMembers
      <4>2. CASE obj[x].has /\ ~obj[y].has
        <5>1. t \in SwapOne(p, q)
          BY <2>3, <2>4, <4>2
        <5>2. QED
          BY <2>1, <2>2, <2>4, <3>1, <4>2, <5>1, CrossedOne
      <4>3. CASE ~obj[x].has /\ obj[y].has
        <5>1. PICK u \in SwapOne(q, p) : t = [u EXCEPT !.slot = u.other, !.other = u.slot]
          BY <2>3, <2>4, <4>3
        <5>2. Crossed(u, obj[y], obj[x])
          BY <2>1, <2>2, <2>4, <3>1, <4>3, CrossedOne
        <5>3. u = [slot |-> u.slot, other |-> u.other, ending |-> u.ending,
                   overwrote |-> u.overwrote]
          BY DEF SwapOne, Both
        <5>4. t.slot = u.other /\ t.other = u.slot /\ t.ending = u.ending
          BY <5>1, <5>3
        <5>5. QED
          BY <5>2, <5>4 DEF Crossed
      <4>4. QED
        BY <2>2, <4>1, <4>2, <4>3
    <3>3. obj'[x] = t.slot /\ obj'[y] = t.other /\ last'.ending = t.ending
      BY <2>1, <2>2, <2>3 DEF Ends
    <3>4. QED
      BY <3>2, <3>3 DEF Crossed, Content
  <2>5. CASE ~Tracked(obj[x]) \/ ~Tracked(obj[y])
    <3>1. t = [Both(p, q) EXCEPT !.ending = "undefined"]
      BY <2>3, <2>5
    <3> HIDE DEF p, q
    <3>2. t.ending = "undefined"
      BY <3>1 DEF Both
    <3>3. QED
      BY <2>3, <3>2 DEF Ends
  <2>6. QED
    BY <2>4, <2>5
<1>2. ASSUME IndInv, [Next]_vars
      PROVE  [\A x, y \in Objects :
                Swap(x, y) =>
                  /\ last'.ending = "returned" =>
                       Content(obj'[x]) = Content(obj[y]) /\ Content(obj'[y]) = Content(obj[x])
                  /\ last'.ending = "threw" =>
                       obj'[x].has = obj[x].has /\ obj'[y].has = obj[y].has]_vars
  BY <1>1, <1>2
<1>3. QED
  BY <1>2, ExpectedInvariant, PTL DEF Spec, SwapExchanges
=============================================================================
