----------------------------- MODULE CoreTypes -----------------------------
(***************************************************************************)
(* ara::core::Result and ara::core::Optional.  An Optional owns an object  *)
(* of the heap by a bare pointer; a Result is two of them, of which a      *)
(* Result<void> has only the one of the error.  Copies, moves, swaps and   *)
(* accessors hand the objects around, and a program may call them in any   *)
(* order, on objects that were moved from and on one object twice.         *)
(***************************************************************************)
EXTENDS Naturals, FiniteSets, Functions

CONSTANTS
    Results,   \* variables of type Result<T, E>
    Voids,     \* variables of type Result<void, E>
    Contents,  \* the values a T or an E can have
    Cells      \* bound: the addresses of the heap

VARIABLES
    heap,      \* the objects that new has made and delete has not ended
    slots,     \* mValuePtr of the Optionals of the Results that exist
    given      \* history: the cells that Value() && has given away

coreVars == <<heap, slots, given>>

Null == "null"
Kinds == {"mValue", "mError"}
\* The Optionals of a Result, and of a Result<void>.
OptionalsOf(r) == IF r \in Results THEN {r} \X Kinds ELSE {<<r, "mError">>}
Slots == UNION {OptionalsOf(r) : r \in Results \cup Voids}

\* The null pointer is the address of nothing, and a variable has one type.
ASSUME NullAssumption == Null \notin Cells
ASSUME VariablesAssumption == Results \cap Voids = {}

Heaps == UNION {[d -> Contents] : d \in SUBSET Cells}
SlotMaps == UNION {[d -> Cells \cup {Null}] : d \in SUBSET Slots}

CoreTypeOK == heap \in Heaps /\ slots \in SlotMaps /\ given \subseteq Cells

CoreInit ==
    /\ heap = [c \in {} |-> 0]
    /\ slots = [s \in {} |-> Null]
    /\ given = {}

-----------------------------------------------------------------------------
(* Optional: what an operation makes of a memory [heap, slots].  An operation *)
(* of a Result is a row of these.                                            *)

Memory == [heap |-> heap, slots |-> slots]

HasValue(m, s) == m.slots[s] # Null

ObjectAt(m, s) == m.heap[m.slots[s]]

Point(m, s, c) == [m EXCEPT !.slots[s] = c]

Delete(m, c) == [m EXCEPT !.heap = Restrict(m.heap, DOMAIN m.heap \ {c})]

Reset(m, s) == IF HasValue(m, s) THEN Point(Delete(m, m.slots[s]), s, Null) ELSE m

\* Optional(value) and, in the end, every assignment of a value.
New(m, s, x) ==
    LET c == CHOOSE c \in Cells : c \notin DOMAIN m.heap
    IN  Point([m EXCEPT !.heap = [d \in DOMAIN m.heap \cup {c} |-> IF d = c THEN x ELSE m.heap[d]]],
              s, c)

\* operator=(value) and Emplace.
Emplace(m, s, x) == New(Reset(m, s), s, x)

\* operator=(const Optional &): what is copied is looked at after the reset, so
\* an Optional that is assigned to itself is empty.
CopyOptional(m, s, t) ==
    LET r == Reset(m, s) IN IF HasValue(r, t) THEN New(r, s, ObjectAt(r, t)) ELSE r

\* Mutant: the pointer stays where it was.
MoveOptionalKeeps(m, s, t) ==
    LET r == Reset(m, s) IN IF HasValue(r, t) THEN Point(r, s, r.slots[t]) ELSE r

\* operator=(Optional &&).
MoveOptional(m, s, t) ==
    LET r == Reset(m, s)
    IN  IF HasValue(r, t) THEN Point(Point(r, s, r.slots[t]), t, Null) ELSE r

\* std::swap and Swap exchange the pointers.
SwapOptional(m, s, t) == [m EXCEPT !.slots[s] = m.slots[t], !.slots[t] = m.slots[s]]

-----------------------------------------------------------------------------
(* Result<T, E> *)

Become(m) == heap' = m.heap /\ slots' = m.slots

Exists(r) == OptionalsOf(r) \subseteq DOMAIN slots

Room == Cells \ DOMAIN heap # {}

\* Default-constructed Optionals.
Blank(r) ==
    [Memory EXCEPT !.slots = [s \in DOMAIN slots \cup OptionalsOf(r) |->
                                 IF s \in OptionalsOf(r) THEN Null ELSE slots[s]]]

V(r) == <<r, "mValue">>
E(r) == <<r, "mError">>

\* Result(t), Result(e), FromValue and FromError.
FromContents(r, k, x) ==
    /\ ~Exists(r) /\ Room
    /\ Become(New(Blank(r), <<r, k>>, x))
    /\ UNCHANGED given

CopyConstruct(r, q) ==
    /\ ~Exists(r) /\ Exists(q) /\ Room
    /\ Become(IF HasValue(Memory, V(q)) THEN CopyOptional(Blank(r), V(r), V(q))
                                        ELSE CopyOptional(Blank(r), E(r), E(q)))
    /\ UNCHANGED given

MoveConstruct(r, q) ==
    /\ ~Exists(r) /\ Exists(q)
    /\ Become(IF HasValue(Memory, V(q)) THEN MoveOptional(Blank(r), V(r), V(q))
                                        ELSE MoveOptional(Blank(r), E(r), E(q)))
    /\ UNCHANGED given

CopyAssign(r, q) ==
    /\ Exists(r) /\ Exists(q) /\ Room
    /\ Become(IF HasValue(Memory, V(q)) THEN Reset(CopyOptional(Memory, V(r), V(q)), E(r))
                                        ELSE Reset(CopyOptional(Memory, E(r), E(q)), V(r)))
    /\ UNCHANGED given

MoveAssign(r, q) ==
    /\ Exists(r) /\ Exists(q)
    /\ Become(IF HasValue(Memory, V(q)) THEN Reset(MoveOptional(Memory, V(r), V(q)), E(r))
                                        ELSE Reset(MoveOptional(Memory, E(r), E(q)), V(r)))
    /\ UNCHANGED given

\* EmplaceValue and EmplaceError; the other of the two is reset.
EmplaceContents(r, k, x) ==
    /\ Exists(r) /\ Room
    /\ Become(Reset(Emplace(Memory, <<r, k>>, x), IF k = "mValue" THEN E(r) ELSE V(r)))
    /\ UNCHANGED given

Swap(r, q) ==
    /\ Exists(r) /\ Exists(q)
    /\ Become(CASE HasValue(Memory, V(r)) /\ HasValue(Memory, V(q)) -> SwapOptional(Memory, V(r), V(q))
                [] HasValue(Memory, V(r)) /\ ~HasValue(Memory, V(q)) ->
                      MoveOptional(MoveOptional(Memory, E(r), E(q)), V(q), V(r))
                [] ~HasValue(Memory, V(r)) /\ HasValue(Memory, V(q)) ->
                      MoveOptional(MoveOptional(Memory, V(r), V(q)), E(q), E(r))
                [] OTHER -> SwapOptional(Memory, E(r), E(q)))
    /\ UNCHANGED given

\* Value() && and Error() && of either kind of Result, and the accessors that
\* call them: the object is given to the caller, and nobody deletes it.
TakeValue(s) ==
    /\ s \in DOMAIN slots /\ HasValue(Memory, s)
    /\ Become(Point(Memory, s, Null))
    /\ given' = given \cup {slots[s]}

\* Ok() && and Err() &&: the object goes into an Optional of the caller, who
\* deletes it.
TakeOptional(s) ==
    /\ s \in DOMAIN slots
    /\ Become(Reset(Memory, s))
    /\ UNCHANGED given

\* The destructor, of either kind of Result.
Destroy(r) ==
    /\ Exists(r)
    /\ LET deleted == Cells \cap {slots[s] : s \in OptionalsOf(r)}
       IN  /\ heap' = Restrict(heap, DOMAIN heap \ deleted)
           /\ slots' = Restrict(slots, DOMAIN slots \ OptionalsOf(r))
    /\ UNCHANGED given

-----------------------------------------------------------------------------
(* Result<void, E>.  Its move assignment reads a member that the class does  *)
(* not have, so no program that compiles calls it.                           *)

VoidFromValue(r) == ~Exists(r) /\ Become(Blank(r)) /\ UNCHANGED given

VoidCopyConstruct(r, q) ==
    /\ ~Exists(r) /\ Exists(q) /\ Room
    /\ Become(CopyOptional(Blank(r), E(r), E(q)))
    /\ UNCHANGED given

VoidMoveConstruct(r, q) ==
    /\ ~Exists(r) /\ Exists(q)
    /\ Become(MoveOptional(Blank(r), E(r), E(q)))
    /\ UNCHANGED given

VoidCopyAssign(r, q) ==
    /\ Exists(r) /\ Exists(q) /\ Room
    /\ Become(IF HasValue(Memory, E(q)) THEN CopyOptional(Memory, E(r), E(q))
                                        ELSE Reset(Memory, E(r)))
    /\ UNCHANGED given

VoidEmplaceError(r, x) ==
    /\ Exists(r) /\ Room
    /\ Become(Emplace(Memory, E(r), x))
    /\ UNCHANGED given

VoidSwap(r, q) ==
    /\ Exists(r) /\ Exists(q)
    /\ Become(CASE HasValue(Memory, E(r)) /\ HasValue(Memory, E(q)) -> SwapOptional(Memory, E(r), E(q))
                [] HasValue(Memory, E(r)) /\ ~HasValue(Memory, E(q)) -> MoveOptional(Memory, E(q), E(r))
                [] ~HasValue(Memory, E(r)) /\ HasValue(Memory, E(q)) -> MoveOptional(Memory, E(r), E(q))
                [] OTHER -> Memory)
    /\ UNCHANGED given

-----------------------------------------------------------------------------
(* The accessors that change nothing *)

Throws == "std::runtime_error"

\* Value(), operator* and operator-> of an Optional, through which a Result reads.
Value(s) == IF HasValue(Memory, s) THEN ObjectAt(Memory, s) ELSE Throws

ValueOr(s, x) == IF HasValue(Memory, s) THEN ObjectAt(Memory, s) ELSE x

\* operator== of two Optionals.
SameOptional(s, t) ==
    IF HasValue(Memory, s) /\ HasValue(Memory, t) THEN Value(s) = Value(t)
    ELSE HasValue(Memory, s) = HasValue(Memory, t)

\* operator== of two Results, which throws for two that are both empty.
SameResult(r, q) ==
    IF HasValue(Memory, V(r)) /\ HasValue(Memory, V(q)) THEN Value(V(r)) = Value(V(q))
    ELSE IF ~HasValue(Memory, V(r)) /\ ~HasValue(Memory, V(q)) THEN Value(E(r)) = Value(E(q))
    ELSE FALSE

\* operator== of a Result and a value, and of a Result and an error.
HoldsValue(r, x) == IF HasValue(Memory, V(r)) THEN Value(V(r)) = x ELSE FALSE

CheckError(r, x) == IF HasValue(Memory, V(r)) THEN FALSE ELSE Value(E(r)) = x

\* Resolve and Bind with a callable f.
Resolve(r, f) == IF HasValue(Memory, V(r)) THEN Value(V(r)) ELSE f[Value(E(r))]

Bind(r, f) ==
    IF HasValue(Memory, V(r)) THEN [mValue |-> f[Value(V(r))]] ELSE [mError |-> Value(E(r))]

\* The same of a Result<void>; y is what the callable of Bind returns.
VoidSame(r, q) ==
    IF HasValue(Memory, E(r)) /\ HasValue(Memory, E(q)) THEN Value(E(r)) = Value(E(q))
    ELSE ~HasValue(Memory, E(r)) /\ ~HasValue(Memory, E(q))

VoidCheckError(r, x) == IF HasValue(Memory, E(r)) THEN Value(E(r)) = x ELSE FALSE

VoidBind(r, y) ==
    IF HasValue(Memory, E(r)) THEN [mError |-> Value(E(r))] ELSE [mValue |-> y]

-----------------------------------------------------------------------------
CoreNext ==
    \/ \E r \in Results, k \in Kinds, x \in Contents : FromContents(r, k, x) \/ EmplaceContents(r, k, x)
    \/ \E r, q \in Results :
          \/ CopyConstruct(r, q) \/ MoveConstruct(r, q) \/ CopyAssign(r, q) \/ MoveAssign(r, q)
          \/ Swap(r, q)
    \/ \E s \in Slots : TakeValue(s) \/ TakeOptional(s)
    \/ \E r \in Results \cup Voids : Destroy(r)
    \/ \E r \in Voids : VoidFromValue(r)
    \/ \E r \in Voids, x \in Contents : FromContents(r, "mError", x) \/ VoidEmplaceError(r, x)
    \/ \E r, q \in Voids :
          \/ VoidCopyConstruct(r, q) \/ VoidMoveConstruct(r, q) \/ VoidCopyAssign(r, q)
          \/ VoidSwap(r, q)

CoreSpec == CoreInit /\ [][CoreNext]_coreVars

-----------------------------------------------------------------------------
(* Properties *)

\* Whatever is done to them, also to an object that was moved from or that is
\* both sides of an assignment: every pointer of an Optional is to an object
\* that exists, no object has two owners, every object has an owner or was given
\* away by Value() &&, and no Result has both a value and an error.
OneOwner ==
    /\ \A s \in DOMAIN slots : slots[s] # Null => slots[s] \in DOMAIN heap \ given
    /\ \A s, t \in DOMAIN slots : s # t /\ slots[s] # Null => slots[s] # slots[t]
    /\ \A c \in DOMAIN heap : c \in given \/ \E s \in DOMAIN slots : slots[s] = c
    /\ \A r \in Results : Exists(r) => slots[V(r)] = Null \/ slots[E(r)] = Null

\* What a Result holds, by its definition.
Held(r) ==
    {h \in Kinds \X Contents :
        LET s == <<r, h[1]>> IN s \in OptionalsOf(r) /\ slots[s] # Null /\ heap[slots[s]] = h[2]}

\* The accessors of a Result that holds something agree with what it holds.
ReadsAgree ==
    /\ \A r, q \in {q \in Results : Exists(q) /\ Held(q) # {}} :
           /\ SameResult(r, q) <=> Held(r) = Held(q)
           /\ SameOptional(V(r), V(q)) /\ SameOptional(E(r), E(q)) <=> Held(r) = Held(q)
           /\ \A x \in Contents :
                 /\ HoldsValue(r, x) <=> Held(r) = {<<"mValue", x>>}
                 /\ CheckError(r, x) <=> Held(r) = {<<"mError", x>>}
                 /\ ValueOr(V(r), x) = x <=> \A h \in Held(r) : h \in {<<"mValue", x>>} \cup {"mError"} \X Contents
           /\ \A f \in [Contents -> Contents], x \in Contents :
                 /\ Held(r) = {<<"mValue", x>>} => Resolve(r, f) = x /\ Bind(r, f) = [mValue |-> f[x]]
                 /\ Held(r) = {<<"mError", x>>} => Resolve(r, f) = f[x] /\ Bind(r, f) = [mError |-> x]
    /\ \A r, q \in {q \in Voids : Exists(q)} :
           /\ VoidSame(r, q) <=> Held(r) = Held(q)
           /\ \A x \in Contents :
                 /\ VoidCheckError(r, x) <=> Held(r) = {<<"mError", x>>}
                 /\ VoidBind(r, x) = IF Held(r) = {} THEN [mValue |-> x]
                                    ELSE [mError |-> CHOOSE y \in Contents : <<"mError", y>> \in Held(r)]

\* Both: a Result can be handed around and read without harm.
ResultsAreSound == OneOwner /\ ReadsAgree

=============================================================================
