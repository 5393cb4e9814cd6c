------------------------- MODULE DataAccessSequence -------------------------
(***************************************************************************)
(* The nested access sequences of the discrete dependency implementation  *)
(* (src/src/dependencies/discrete/DataAccessSequenceImplementation.hpp).   *)
(* Each sequence holds the accesses to one address in creation order; the *)
(* sequence of a task's subaccesses hangs below the access of the task    *)
(* that encloses them (_superAccess), and the root sequence has none.     *)
(*                                                                         *)
(* A new access is linked behind its effective previous access            *)
(* (getEffectivePrevious): the access just before it in its own sequence, *)
(* or, at the top of a sequence, the access just before the enclosing     *)
(* super access, climbing as many levels as needed.  The call is made     *)
(* under the sequence's lock and reads nothing another thread changes; it *)
(* is one step here, and the state it reads is any nesting of up to N     *)
(* accesses.                                                               *)
(***************************************************************************)
EXTENDS Naturals, FiniteSets, FiniteSetsExt, SequencesExt

CONSTANT N      \* the accesses are 1 .. N, numbered in creation order

ASSUME N \in Nat \ {0}

Accesses == 1 .. N

\* nullptr: no super access (the root sequence), or no effective previous.
Nil == 0

\* No call made yet.
Undefined == -1

\* The DataAccessSequence constructors: the sequence below access s holds
\* the accesses whose super access is s, in creation order.  An access is
\* created after the access that encloses it, so super[a] < a.
Nestings == {f \in [Accesses -> {Nil} \cup Accesses] : \A a \in Accesses : f[a] < a}

VARIABLES
    super,    \* super[a]: the _superAccess of a's _dataAccessSequence
    target,   \* the call: the sequence (owner) and the access, or Nil for a new one
    result    \* what getEffectivePrevious returned

vars == <<super, target, result>>

\* _accessSequence of the sequence below s (Nil: the root sequence).
AccessSequence(s) == {b \in Accesses : super[b] = s}

\* The calls the engine makes: for an access of a sequence, or for a new
\* access on a sequence that is still empty (the assert of line 54).
Targets(f) ==
    {[owner |-> f[a], at |-> a] : a \in Accesses}
    \cup {[owner |-> s, at |-> Nil] : s \in {s \in {Nil} \cup Accesses : \A b \in Accesses : f[b] # s}}

Init ==
    /\ super \in Nestings
    /\ target \in Targets(super)
    /\ result = Undefined

----------------------------------------------------------------------------
(* getEffectivePrevious                                                    *)

\* next == currentSequence->_accessSequence.begin(): no access before next.
IsBegin(s, next) == next = Nil \/ \A b \in AccessSequence(s) : ~(b < next)

\* next--: the access just before next in the sequence below s.
Before(s, next) == Max({b \in AccessSequence(s) : b < next})

\* Variant: returns the super access instead of the access before it.
ClimbToSuper(s, next) ==
    IF IsBegin(s, next) THEN s ELSE Before(s, next)

\* Variant: climbs one level only.
ClimbOneLevel(s, next) ==
    IF ~IsBegin(s, next) THEN Before(s, next)
    ELSE IF s = Nil \/ IsBegin(super[s], s) THEN Nil
    ELSE Before(super[s], s)

RECURSIVE Climb(_, _)

\* Lines 58-76: while next is the beginning of its sequence, go to the
\* position of the sequence's super access in the sequence above it; the
\* root sequence has none and the result is nullptr.
Climb(s, next) ==
    IF IsBegin(s, next)
    THEN IF s = Nil THEN Nil ELSE Climb(super[s], s)
    ELSE Before(s, next)

\* Lines 45-56: start at the access, or at the beginning of the empty
\* sequence for an access yet to be added.
GetEffectivePrevious(s, a) == Climb(s, a)

\* The call returns its result.
Call ==
    /\ result = Undefined
    /\ result' = GetEffectivePrevious(target.owner, target.at)
    /\ UNCHANGED <<super, target>>

\* The caller has its answer; nothing else happens.
Returned ==
    /\ result # Undefined
    /\ UNCHANGED vars

Next == Call \/ Returned

Spec == Init /\ [][Next]_vars

----------------------------------------------------------------------------
(* Reference: the logical sequence.  An access covers the subsequence     *)
(* below it, so what comes logically just before x is the nearest access *)
(* in preorder that precedes x or an access enclosing x in the same       *)
(* sequence.  Accesses nested below such an access are covered by it.     *)

RECURSIVE Flatten(_)
Flatten(s) ==
    LET cs == SetToSortSeq(AccessSequence(s), LAMBDA x, y : x < y)
    IN  FlattenSeq([i \in DOMAIN cs |-> <<cs[i]>> \o Flatten(cs[i])])

Position(x) == CHOOSE i \in DOMAIN Flatten(Nil) : Flatten(Nil)[i] = x

RECURSIVE Enclosing(_)
Enclosing(s) == IF s = Nil THEN {} ELSE {s} \cup Enclosing(super[s])

LogicalPrevious(s, a) ==
    LET chain == (IF a = Nil THEN {} ELSE {a}) \cup Enclosing(s)
        cands == {y \in Accesses \ chain : \E z \in chain : super[y] = super[z] /\ y < z}
    IN  IF cands = {} THEN Nil
        ELSE CHOOSE y \in cands : \A w \in cands : Position(w) <= Position(y)

----------------------------------------------------------------------------
(* Properties                                                              *)

TypeOK ==
    /\ super \in Nestings
    /\ target \in Targets(super)
    /\ result \in {Undefined, Nil} \cup Accesses

\* getEffectivePrevious returns the access logically just before the
\* target however deep the target sits at the top of nested sequences:
\* the climb through the super accesses neither stops a level early nor
\* returns a super access (which encloses the target rather than
\* precedes it), and it returns nullptr only when nothing comes before.
EffectivePreviousIsLogicalPrevious ==
    result # Undefined => result = LogicalPrevious(target.owner, target.at)

=============================================================================
