------------------------------ MODULE Expected ------------------------------
(***************************************************************************)
(* expected<T, E> (shared/include/expected.h), with which every function   *)
(* of the library reports a result or an error: a union of a T and an      *)
(* unexpected<E>, and the flag m_has_val that says which of the two lives. *)
(* Every call destroys and constructs members by hand, and T or E may      *)
(* throw in the middle of it.                                              *)
(*                                                                         *)
(* A call is one action.  Its body is the set of its outcomes, built from  *)
(* the four primitive steps below in the order of the statements: which of *)
(* the operations of T and E throws is the choice.                         *)
(*                                                                         *)
(* An operation on a member that does not live has no meaning in C++: a    *)
(* call that makes one ends "undefined", one from which an exception       *)
(* leaves a noexcept function ends "terminated", and the program stops.    *)
(*                                                                         *)
(* Nothing is said of T and E but which operations may throw.  A copy that *)
(* throws leaves its source alone, as const& says; an assignment or a move *)
(* that throws may have done part of its work on either side (the basic    *)
(* guarantee, all that a type assigned member by member gives).            *)
(*                                                                         *)
(* Only the C++14 branches, which the C++20 build takes, are modelled.     *)
(***************************************************************************)
CONSTANTS Objects,  \* the places where an expected<T, E> may be
          Values,   \* the contents of a T or an E
          Gone,     \* no content, or one that nothing is said about: of a member that was
                    \* moved from, or that an operation has left by throwing
          Nothing,  \* the place holds no object
          Traits    \* the pairs <T, E> considered

\* What T and E do when told to; `throwing` are the operations that may throw.
Operations == {"make", "copy", "move", "assign"} \X {"T", "E"}

ASSUME ExpectedAssumption ==
  /\ Gone \notin Values
  /\ Nothing \notin [has : BOOLEAN, live : {"value", "error", "none"}, data : Values \cup {Gone}]
  /\ Traits \subseteq [void : BOOLEAN, throwing : SUBSET Operations]
  /\ \A t \in Traits : t.void => \A operation \in t.throwing : operation[2] = "E"

VARIABLES
  types,  \* the pair <T, E>, fixed for a behaviour
  obj,    \* the object at each place, or Nothing
  last    \* the last call and how it ended

vars == <<types, obj, last>>

Data == Values \cup {Gone}
Categories == {"copy", "move"}  \* of an argument: const& or &&

\* m_has_val, the member of the union that lives, and its content.  Between two calls
\* no member lives but the one that the flag names.
Slots ==
  {s \in [has : BOOLEAN, live : {"value", "error", "none"}, data : Data] :
     /\ s.live = "none" => s.data = Gone
     /\ s.live \in {"none", IF s.has THEN "value" ELSE "error"}}

\* A T of type void has no member.
ValueMember == IF types.void THEN "none" ELSE "value"

\* The flag names the member that lives.
Tracked(s) == s.live = IF s.has THEN ValueMember ELSE "error"

\* An object whose members are not constructed yet, one with a value, one with an error.
NoInit == [has |-> FALSE, live |-> "none", data |-> Gone]

WithValue(d) ==
  [has |-> TRUE, live |-> ValueMember, data |-> IF types.void THEN Gone ELSE d]

WithError(d) == [has |-> FALSE, live |-> "error", data |-> d]

\* What a call has made of its object so far.
Endings == {"returned", "threw", "terminated", "undefined"}
Begin(s) == [slot |-> s, ending |-> "returned", overwrote |-> FALSE]

\* A call that reads another object, whose member must live.
From(s, q) == IF Tracked(q) THEN Begin(s) ELSE [Begin(s) EXCEPT !.ending = "undefined"]

May(operation, type) == <<operation, type>> \in types.throwing

-----------------------------------------------------------------------------
(* The primitive steps; a call that has ended takes no further step.       *)

Step(r, next) == IF r.ending = "returned" THEN next ELSE r
Throw(r) == Step(r, [r EXCEPT !.ending = "threw"])
Flag(r, b) == Step(r, [r EXCEPT !.slot.has = b])

Destroy(r, m) ==
  Step(r, IF r.slot.live = m THEN [r EXCEPT !.slot.live = "none", !.slot.data = Gone]
          ELSE [r EXCEPT !.ending = "undefined"])

\* Placement new: a member that still lives there is never destroyed.
Place(r, m, d) ==
  Step(r, [r EXCEPT !.slot.live = m, !.slot.data = d, !.overwrote = r.slot.live # "none"])

Assign(r, m, d) ==
  Step(r, IF r.slot.live = m THEN [r EXCEPT !.slot.data = d]
          ELSE [r EXCEPT !.ending = "undefined"])

\* An exception that leaves a noexcept function.
Noexcept(results) ==
  {IF r.ending = "threw" THEN [r EXCEPT !.ending = "terminated"] ELSE r : r \in results}

\* A call cut short by an operation, if that may throw.
Cut(r, operation, type) == {t \in {Throw(r)} : May(operation, type)}

\* The same, by an operation that changes m: an assignment to it, or a move from it.
Garbled(r, m, operation, type) ==
  {t \in {Throw(Assign(r, m, r.slot.data)), Throw(Assign(r, m, Gone))} :
     May(operation, type)}

Assigned(r, m, d, type) == {Assign(r, m, d)} \cup Garbled(r, m, "assign", type)

-----------------------------------------------------------------------------
(* expected_operations_base.                                               *)

\* construct and construct_with.
Construct(r, operation, d) ==
  Noexcept({Flag(IF types.void THEN r ELSE Place(r, "value", d), TRUE)}
           \cup Cut(r, operation, "T"))

ConstructError(r, operation, d) ==
  Noexcept({Flag(Place(r, "error", d), FALSE)} \cup Cut(r, operation, "E"))

\* Mutant: an error is not replaced by another.
AssignCommon_KeepsError(r, q, category) ==
  IF r.slot.has
  THEN IF q.has THEN Assigned(r, "value", q.data, "T")
       ELSE ConstructError(Destroy(r, "value"), category, q.data)
  ELSE {r}

AssignCommon(r, q, category) ==
  IF r.slot.has
  THEN IF q.has THEN Assigned(r, "value", q.data, "T")
       ELSE ConstructError(Destroy(r, "value"), category, q.data)
  ELSE IF q.has THEN {r} ELSE Assigned(r, "error", q.data, "E")

\* From an error to a value, when constructing the T may throw: the error is moved
\* out and destroyed; since construct is noexcept, the handler is never entered.
AssignGuarded(r, q, category) ==
  Construct(Destroy(r, "error"), category, q.data) \cup Garbled(r, "error", "move", "E")

\* Mutant: the error is not destroyed before the value is constructed.
AssignCopy_NoDestroy(r, q) ==
  LET gains == ~r.slot.has /\ q.has IN
  IF ~May("copy", "T")
  THEN IF gains THEN Construct(r, "copy", q.data)
       ELSE Noexcept(AssignCommon(r, q, "copy"))
  ELSE IF ~May("move", "T")
  THEN Noexcept(IF gains THEN {Throw(r)} \cup Construct(Destroy(r, "error"), "move", q.data)
                ELSE AssignCommon(r, q, "copy"))
  ELSE IF gains THEN AssignGuarded(r, q, "copy") ELSE AssignCommon(r, q, "copy")

\* assign(const&): three overloads, two of them noexcept; the second first copies
\* the T into a local variable.
AssignCopy(r, q) ==
  LET gains == ~r.slot.has /\ q.has IN
  IF ~May("copy", "T")
  THEN IF gains THEN Construct(Destroy(r, "error"), "copy", q.data)
       ELSE Noexcept(AssignCommon(r, q, "copy"))
  ELSE IF ~May("move", "T")
  THEN Noexcept(IF gains THEN {Throw(r)} \cup Construct(Destroy(r, "error"), "move", q.data)
                ELSE AssignCommon(r, q, "copy"))
  ELSE IF gains THEN AssignGuarded(r, q, "copy") ELSE AssignCommon(r, q, "copy")

\* assign(&&): two overloads, the first noexcept.
AssignMove(r, q) ==
  LET gains == ~r.slot.has /\ q.has IN
  IF ~May("move", "T")
  THEN IF gains THEN Construct(Destroy(r, "error"), "move", q.data)
       ELSE Noexcept(AssignCommon(r, q, "move"))
  ELSE IF gains THEN AssignGuarded(r, q, "move") ELSE AssignCommon(r, q, "move")

\* Mutant: the error is not destroyed when there is no value to construct.
AssignVoid_NoDestroy(r, q, category) ==
  Noexcept(IF r.slot.has
           THEN IF q.has THEN {r} ELSE ConstructError(r, category, q.data)
           ELSE IF q.has THEN {Flag(r, TRUE)} ELSE Assigned(r, "error", q.data, "E"))

\* The specialisation for void, noexcept.
AssignVoid(r, q, category) ==
  Noexcept(IF r.slot.has
           THEN IF q.has THEN {r} ELSE ConstructError(r, category, q.data)
           ELSE IF q.has THEN {Flag(Destroy(r, "error"), TRUE)}
                ELSE Assigned(r, "error", q.data, "E"))

-----------------------------------------------------------------------------
(* Calls.                                                                  *)

Running == last.ending \in {"returned", "threw"}
Exists(x) == obj[x] # Nothing

Ends(call, r) == last' = [call |-> call, ending |-> r.ending, overwrote |-> r.overwrote]

\* A moved-from object keeps its flag and its member.
Spent(q) == [q EXCEPT !.data = Gone]

\* What is left of the object at y, whether the call returns or throws; a move need
\* not change it.
Left(y, category) == {obj[y]} \cup {q \in {Spent(obj[y])} : category = "move"}

\* A call on the object at x.
Apply(call, x, results) ==
  /\ Running /\ Exists(x)
  /\ \E r \in results : obj' = [obj EXCEPT ![x] = r.slot] /\ Ends(call, r)
  /\ UNCHANGED types

\* A constructor: there is an object at x only if it returns.
Make(call, x, results) ==
  /\ Running /\ ~Exists(x)
  /\ \E r \in results :
       /\ obj' = [obj EXCEPT ![x] = IF r.ending = "returned" THEN r.slot ELSE Nothing]
       /\ Ends(call, r)
  /\ UNCHANGED types

\* The same, from the object at y, whose member must live.
MakeFrom(call, x, y, category, results) ==
  /\ Running /\ ~Exists(x) /\ Exists(y)
  /\ \E r \in IF Tracked(obj[y]) THEN results ELSE {From(NoInit, obj[y])} :
       \E q \in Left(y, category) :
         /\ obj' = [obj EXCEPT ![x] = IF r.ending = "returned" THEN r.slot ELSE Nothing,
                               ![y] = q]
         /\ Ends(call, r)
  /\ UNCHANGED types

-----------------------------------------------------------------------------
(* Constructors and destructor.                                            *)

MakeValue(x, d) ==
  Make("make", x, {Begin(WithValue(d))} \cup Cut(Begin(NoInit), "make", "T"))

MakeUnexpected(x, d) ==
  Make("make", x, {Begin(WithError(d))} \cup Cut(Begin(NoInit), "make", "E"))

\* The copy and the move constructor: construct_with and construct_error, noexcept.
Cloned(r, q, category) ==
  IF q.has THEN Construct(r, category, q.data) ELSE ConstructError(r, category, q.data)

Clone(x, y, category) ==
  MakeFrom("clone", x, y, category, Cloned(Begin(NoInit), obj[y], category))

\* From an expected of other types: the base has default-constructed a T, and the
\* member is constructed over it.
Convert(x, y, category) ==
  /\ ~types.void /\ Exists(y)
  /\ \/ Make("convert", x, Cut(Begin(NoInit), "make", "T"))
     \/ \E d \in Values :
          MakeFrom("convert", x, y, category,
                   Cloned(Begin(WithValue(d)), obj[y], category))

\* Mutant: the destructor does not look at the flag.
DestroyObject_Value(x) ==
  /\ Running /\ Exists(x)
  /\ LET r == Destroy(Begin(obj[x]), ValueMember) IN
       obj' = [obj EXCEPT ![x] = Nothing] /\ Ends("destroy", r)
  /\ UNCHANGED types

DestroyObject(x) ==
  /\ Running /\ Exists(x)
  /\ LET r == Destroy(Begin(obj[x]), IF obj[x].has THEN ValueMember ELSE "error") IN
       obj' = [obj EXCEPT ![x] = Nothing] /\ Ends("destroy", r)
  /\ UNCHANGED types

-----------------------------------------------------------------------------
(* Assignment and emplace.                                                 *)

AssignFrom(r, q, category) ==
  IF types.void THEN AssignVoid(r, q, category)
  ELSE IF category = "copy" THEN AssignCopy(r, q) ELSE AssignMove(r, q)

\* Where the flags differ, what throws comes before the source is touched.
AssignObject(x, y, category) ==
  /\ Running /\ Exists(x) /\ Exists(y)
  /\ category = "move" => x # y
  /\ \E r \in AssignFrom(From(obj[x], obj[y]), obj[y], category) :
       \E q \in Left(y, category) :
         /\ r.ending = "threw" /\ obj[x].has # obj[y].has => q = obj[y]
         /\ obj' = [obj EXCEPT ![y] = q, ![x] = r.slot]
         /\ Ends("assign", r)
  /\ UNCHANGED types

\* From an error to a value, when constructing the T may throw: the error is moved
\* out and destroyed, and the handler assigns it back to the destroyed member.
Replace(r, d) ==
  LET bare == Destroy(r, "error") IN
    {Flag(Place(bare, "value", d), TRUE), Throw(Assign(bare, "error", r.slot.data))}
    \cup Garbled(r, "error", "move", "E")

\* operator=(U&&), for an E that is moved without throwing.
AssignValue(x, d) ==
  /\ ~types.void /\ ~May("move", "E") /\ Exists(x)
  /\ LET r == Begin(obj[x]) IN
       Apply("assign value", x,
             IF obj[x].has THEN Assigned(r, "value", d, "T")
             ELSE IF May("make", "T") THEN Replace(r, d)
             ELSE {Flag(Place(Destroy(r, "error"), "value", d), TRUE)})

\* Mutant: the flag is left as it is.
AssignUnexpected_NoFlag(x, d, category) ==
  /\ ~May(category, "E") /\ Exists(x)
  /\ LET r == Begin(obj[x])
         results == IF obj[x].has
                    THEN {Place(IF types.void THEN r ELSE Destroy(r, "value"), "error", d)}
                    ELSE Assigned(r, "error", d, "E")
     IN Apply("assign error", x, IF category = "move" THEN Noexcept(results) ELSE results)

\* operator=(unexpected const&) and (unexpected&&), the second noexcept.
AssignUnexpected(x, d, category) ==
  /\ ~May(category, "E") /\ Exists(x)
  /\ LET r == Begin(obj[x])
         bare == IF types.void THEN r ELSE Destroy(r, "value")
         results == IF obj[x].has THEN {Flag(Place(bare, "error", d), FALSE)}
                    ELSE Assigned(r, "error", d, "E")
     IN Apply("assign error", x, IF category = "move" THEN Noexcept(results) ELSE results)

\* emplace(args): a value is destroyed before the new one is constructed.
Emplace(x, d) ==
  /\ ~types.void /\ Exists(x)
  /\ LET r == Begin(obj[x])
         bare == Destroy(r, "value")
     IN Apply("emplace", x,
              IF obj[x].has THEN {Place(bare, "value", d)} \cup Cut(bare, "make", "T")
              ELSE IF May("make", "T") THEN Replace(r, d)
              ELSE {Place(Flag(Destroy(r, "error"), TRUE), "value", d)})

\* emplace(list, args): a value is assigned from a local variable.
EmplaceList(x, d) ==
  /\ ~types.void /\ Exists(x)
  /\ LET r == Begin(obj[x])
     IN Apply("emplace list", x,
              IF obj[x].has
              THEN Assigned(r, "value", d, "T") \cup Cut(r, "make", "T")
              ELSE IF May("make", "T") THEN Replace(r, d)
              ELSE {Flag(Place(Destroy(r, "error"), "value", d), TRUE)})

-----------------------------------------------------------------------------
(* swap, for a T or an E that is moved without throwing, and not for void. *)

Both(r, q) ==
  [slot |-> r.slot, other |-> q.slot,
   ending |-> IF r.ending = "returned" THEN q.ending ELSE r.ending,
   overwrote |-> r.overwrote \/ q.overwrote]

\* std::swap of two members of one kind: a move, then two assignments.  One that
\* throws leaves its target and what it moves from to T or E.
SwapMembers(r, q, type) ==
  LET content == [r.slot EXCEPT !.data = q.slot.data]
      other == [q.slot EXCEPT !.data = r.slot.data]
      Result(a, b, ending) ==
        [slot |-> a, other |-> b, ending |-> ending, overwrote |-> FALSE]
  IN {Result(content, other, "returned")}
     \cup {t \in {Result(a, q.slot, "threw") : a \in {r.slot, Spent(r.slot)}} :
             May("move", type)}
     \cup {t \in {Result(a, b, "threw") : a \in {r.slot, Spent(r.slot), content},
                                         b \in {q.slot, Spent(q.slot)}} :
             May("assign", type)}

\* Mutant: the flags are not swapped, as when only the members are.
SwapOne_KeepsFlags(r, q) ==
  {Both(Place(Destroy(r, "value"), "error", q.slot.data),
        Place(Destroy(q, "error"), "value", r.slot.data))}

\* r has a value and q an error.  Each handler assigns to a destroyed member.
SwapOne(r, q) ==
  LET bare == Destroy(r, "value")
      bareOther == Destroy(q, "error")
  IN {Both(Flag(Place(bare, "error", q.slot.data), FALSE),
           Flag(Place(bareOther, "value", r.slot.data), TRUE))}
     \cup {t \in {Both(Throw(Assign(bare, "value", r.slot.data)), q)} : May("move", "E")}
     \cup {t \in {Both(r, Throw(Assign(bareOther, "error", q.slot.data)))} :
             May("move", "T")}

Swap(x, y) ==
  /\ Running /\ Exists(x) /\ Exists(y) /\ x # y
  /\ ~types.void /\ ~(May("move", "T") /\ May("move", "E"))
  /\ LET p == From(obj[x], obj[y])
         q == From(obj[y], obj[x])
         results ==
           IF ~Tracked(obj[x]) \/ ~Tracked(obj[y])
           THEN {[Both(p, q) EXCEPT !.ending = "undefined"]}
           ELSE IF obj[x].has = obj[y].has
           THEN SwapMembers(p, q, IF obj[x].has THEN "T" ELSE "E")
           ELSE IF obj[x].has THEN SwapOne(p, q)
           ELSE {[t EXCEPT !.slot = t.other, !.other = t.slot] : t \in SwapOne(q, p)}
     IN \E r \in results :
          /\ obj' = [obj EXCEPT ![x] = r.slot, ![y] = r.other]
          /\ Ends("swap", r)
  /\ UNCHANGED types

-----------------------------------------------------------------------------
(* Observers, and the functions that make one expected from another.       *)

\* value(): the member, or bad_expected_access with the error, or the exception of its
\* copy.  Of an rvalue the error is moved there; the value is left to the caller.
Value(x, category) ==
  /\ ~types.void /\ Exists(x)
  /\ LET r == From(obj[x], obj[x])
         spent == IF category = "move" THEN [r EXCEPT !.slot = Spent(@)] ELSE r
     IN Apply("value", x,
              IF obj[x].has THEN {r, spent} ELSE {Throw(r), Throw(spent)})

\* An error of the source is the error of the result: Ret(unexpect, error()).
Propagated(q, category) ==
  {Begin(WithError(q.data))} \cup Cut(Begin(NoInit), category, "E")

\* What a callback returns; it may throw.
Callback(slots) == {Begin(s) : s \in slots} \cup {Throw(Begin(NoInit))}

AllValues == {WithValue(d) : d \in Values}
AllErrors == {WithError(d) : d \in Values}

\* The callback returns an expected.
AndThen(x, y, category) ==
  /\ Exists(y)
  /\ MakeFrom("and_then", x, y, category,
              IF obj[y].has THEN Callback(AllValues \cup AllErrors)
              ELSE Propagated(obj[y], category))

\* The callback returns a value, from which the result is made.
Map(x, y, category) ==
  /\ Exists(y)
  /\ MakeFrom("map", x, y, category,
              IF obj[y].has THEN Callback(AllValues) ELSE Propagated(obj[y], category))

\* The callback returns an error; a value is copied or moved into the result.
MapError(x, y, category) ==
  /\ Exists(y)
  /\ MakeFrom("map_error", x, y, category,
              IF obj[y].has
              THEN {Begin(WithValue(obj[y].data))} \cup Cut(Begin(NoInit), category, "T")
              ELSE Callback(AllErrors))

\* A value is cloned.  The callback returns an expected, or nothing: then the error
\* is cloned, of an rvalue after the callback was free to move it.
OrElse(x, y, category) ==
  /\ Exists(y)
  /\ LET kept == Cloned(Begin(NoInit), obj[y], category)
         emptied == Cloned(Begin(NoInit), Spent(obj[y]), category)
     IN MakeFrom("or_else", x, y, category,
                 IF obj[y].has THEN kept
                 ELSE Callback(AllValues \cup AllErrors) \cup kept
                      \cup IF category = "move" THEN emptied ELSE {})

\* operator==, for void too.
Equal(p, q) == p.has = q.has /\ ((types.void /\ p.has) \/ p.data = q.data)

\* Mutant: the errors of any pair are compared the way those of void are.
Differ_AsVoid(p, q) == p.has # q.has \/ (IF p.has THEN p.data # q.data ELSE p.data = q.data)

\* operator!=; the one for void compares two errors with ==.
Differ(p, q) ==
  IF types.void THEN p.has # q.has \/ (~p.has /\ p.data = q.data)
  ELSE p.has # q.has \/ p.data # q.data

-----------------------------------------------------------------------------

Init ==
  /\ types \in Traits
  /\ obj = [x \in Objects |-> Nothing]
  /\ last = [call |-> "none", ending |-> "returned", overwrote |-> FALSE]

Construction(x, d) == MakeValue(x, d) \/ MakeUnexpected(x, d)

Derivation(x, y, category) ==
  \/ Clone(x, y, category)
  \/ Convert(x, y, category)
  \/ AndThen(x, y, category)
  \/ Map(x, y, category)
  \/ MapError(x, y, category)
  \/ OrElse(x, y, category)

Replacement(x, d) ==
  \/ AssignValue(x, d)
  \/ \E category \in Categories : AssignUnexpected(x, d, category)
  \/ Emplace(x, d)
  \/ EmplaceList(x, d)

Next ==
  \/ \E x \in Objects, d \in Values : Construction(x, d) \/ Replacement(x, d)
  \/ \E x \in Objects, y \in Objects :
       \/ Swap(x, y)
       \/ \E category \in Categories :
            Derivation(x, y, category) \/ AssignObject(x, y, category)
  \/ \E x \in Objects :
       DestroyObject(x) \/ \E category \in Categories : Value(x, category)

Spec == Init /\ [][Next]_vars
-----------------------------------------------------------------------------
(* Properties.                                                             *)

\* The values of the variables; in Slots, that however a call ended no member lives
\* that the flag of its object does not name, so that none is destroyed as the other.
TypeOK ==
  /\ types \in Traits
  /\ obj \in [Objects -> Slots \cup {Nothing}]
  /\ last.ending \in Endings /\ last.overwrote \in BOOLEAN

AllTracked == \A x \in Objects : Exists(x) => Tracked(obj[x])

\* After any calls, of whatever kind and however they ended, m_has_val names the member
\* that lives, if constructing a T from arguments does not throw.
FlagTracksMember == Running /\ ~May("make", "T") => AllTracked

\* The only calls that have no meaning: those that restore the old member in a handler,
\* where it has been destroyed already, and any use of what such an emplace left.
UndefinedNeedsThrow ==
  last.ending = "undefined" =>
    May("make", "T") \/ (last.call = "swap" /\ (May("move", "T") \/ May("move", "E")))

\* No call constructs a member over one that lives, which would never be destroyed,
\* but the converting constructors: they construct over the T that the base has made.
OnlyConvertOverwrites == last.overwrote => last.call = "convert"

Content(s) == <<s.has, s.data>>

\* An object that has kept its flag and its member, and the content unless that is spoilt.
Kept(before, after) ==
  after.has = before.has /\ after.live = before.live /\ after.data \in {before.data, Gone}

\* An assignment from an expected that returns has taken over value or error, whichever
\* the two held before.  One that throws has kept every flag and every member; only an
\* assignment of members throws, which leaves the contents to T or E, or the move of an
\* error out of the way of a value.
AssignTakesOrKeeps ==
  [][\A x, y \in Objects, category \in Categories :
       AssignObject(x, y, category) =>
         /\ last'.ending = "returned" => Content(obj'[x]) = Content(obj[y])
         /\ last'.ending = "threw" =>
              /\ Kept(obj[x], obj'[x]) /\ Kept(obj[y], obj'[y])
              /\ IF obj[x].has = obj[y].has
                 THEN May("assign", "T") \/ May("assign", "E")
                 ELSE May("move", "E")]_vars

\* "If the construction succeeds, then everything is fine, but if it throws, then we move
\* the old unexpected value back into place before rethrowing the exception" (of the
\* overload for a T whose copy and move may both throw).  It does not hold: construct is
\* noexcept, so the exception terminates the program.
RestoresOnThrow ==
  [][\A x, y \in Objects :
       /\ AssignObject(x, y, "copy") /\ ~obj[x].has /\ obj[y].has
       /\ May("copy", "T") /\ May("move", "T") /\ ~May("move", "E")
       => last'.ending = "returned" \/ (last'.ending = "threw" /\ obj'[x] = obj[x])]_vars

\* A swap that returns has exchanged value and error; one that throws has changed no
\* flag, so each object still destroys the member it has.
SwapExchanges ==
  [][\A x, y \in Objects :
       Swap(x, y) =>
         /\ last'.ending = "returned" =>
              Content(obj'[x]) = Content(obj[y]) /\ Content(obj'[y]) = Content(obj[x])
         /\ last'.ending = "threw" =>
              obj'[x].has = obj[x].has /\ obj'[y].has = obj[y].has]_vars

\* != is the negation of ==, but for two errors of an expected<void, E>: there both
\* operators give the same answer.
DifferNegatesEqual ==
  Running => \A x, y \in Objects :
    Exists(x) /\ Exists(y) =>
      Differ(obj[x], obj[y]) =
        IF types.void /\ ~obj[x].has /\ ~obj[y].has THEN Equal(obj[x], obj[y])
        ELSE ~Equal(obj[x], obj[y])
=============================================================================
