---------------------------- MODULE DataAccesses ----------------------------
(***************************************************************************)
(* Regions and the DataAccess record of the linear-regions dependency      *)
(* system (src/src/dependencies/linear-regions-alternative/).              *)
(*                                                                         *)
(* A region [start, end) of the flat address space is modelled as the set *)
(* of its byte addresses: a non-empty set of consecutive naturals.  A      *)
(* DataAccess is a record whose fields keep the names of the C++ members   *)
(* (the status bits are the accessors of DataAccess::_status).  The        *)
(* originator is not a field: accesses are kept per task.                  *)
(*                                                                         *)
(* This module holds no state: the operators are shared by the            *)
(* registration module and the dependency-engine module.                   *)
(***************************************************************************)
EXTENDS Integers, FiniteSets, FiniteSetsExt

\* DataAccessType
READ       == "READ"
WRITE      == "WRITE"
READWRITE  == "READWRITE"
CONCURRENT == "CONCURRENT"
REDUCTION  == "REDUCTION"
AccessTypes == {READ, WRITE, READWRITE, CONCURRENT, REDUCTION}

\* Reduction operation of an access that is not a reduction.
NoReduction == 0

----------------------------------------------------------------------------
(* Region algebra: DataAccessRegion::intersect, fullyContainedIn,          *)
(* contiguous, getSize and the pieces fragmentByIntersection produces.     *)

IsRegion(r) == r # {} /\ \A x \in Min(r)..Max(r) : x \in r

Size(r) == Cardinality(r)

\* The regions of a bounded address space.
RegionsOf(addr) == {r \in SUBSET addr : IsRegion(r)}

\* The maximal runs of consecutive addresses of a set: the subregions
\* processIntersectingAndMissing reports as missing.
Components(m) ==
    { {y \in m : \A z \in Min({x, y})..Max({x, y}) : z \in m} : x \in m }

\* Variant: the left and right pieces are kept even when empty.
PiecesWithEmpty(r, q) ==
    IF r \cap q = {} THEN {r}
    ELSE {r \cap q, {x \in r : x < Min(q)}, {x \in r : x > Max(q)}}

\* fragmentByIntersection splits a region along the boundaries of q: the
\* piece inside q and the pieces left and right of it.
Pieces(r, q) ==
    IF r \cap q = {} THEN {r}
    ELSE { r \cap q,
           {x \in r : x < Min(q)},
           {x \in r : x > Max(q)} } \ {{}}

----------------------------------------------------------------------------
(* The DataAccess record.                                                  *)

NewAccess(type, weak, region, reductionInfo) ==
    [ type             |-> type,
      weak             |-> weak,
      region           |-> region,
      reductionInfo    |-> reductionInfo,
      readSatisfied    |-> FALSE,
      writeSatisfied   |-> FALSE,
      topmostSatisfied |-> FALSE,
      complete         |-> FALSE,
      hasSubaccesses   |-> FALSE,
      inBottomMap      |-> FALSE,
      next             |-> "none",
      child            |-> "none" ]

Satisfied(a) == a.readSatisfied /\ a.writeSatisfied

\* A fragment of an access: the duplicate keeps every field but the region.
WithRegion(a, r) == [a EXCEPT !.region = r]

\* The accesses of a set that overlap a region.
Intersecting(S, q) == {a \in S : a.region \cap q # {}}

\* The access of a set that covers an address.
AccessAt(S, x) == CHOOSE a \in S : x \in a.region

\* fragmentByIntersection on one access of a set.
FragmentIn(S, a, q) ==
    (S \ {a}) \cup {WithRegion(a, p) : p \in Pieces(a.region, q)}

\* Number of duplicates the fragmentation creates.
NewFragments(a, q) == Cardinality(Pieces(a.region, q)) - 1

\* duplicateDataAccess with updateTaskBlockingCount: every duplicate of a
\* strong unsatisfied access is one more predecessor of its originator.
BlockingDuplicates(a, q) ==
    IF ~a.weak /\ ~Satisfied(a) THEN NewFragments(a, q) ELSE 0

\* fragmentIntersecting: every access overlapping q split along q.
FragmentAllIn(S, q) ==
    UNION { IF a.region \cap q = {} THEN {a}
            ELSE {WithRegion(a, p) : p \in Pieces(a.region, q)} : a \in S }

----------------------------------------------------------------------------
(* upgradeAccess: combining a new declaration with an existing access.     *)

\* The FatalErrorHandler::failIf conditions of upgradeAccess.
UpgradeIsFatal(a, type) ==
    \/ a.type = CONCURRENT \/ type = CONCURRENT
    \/ a.type = REDUCTION  \/ type = REDUCTION

UpgradedType(a, type) == IF type # a.type THEN READWRITE ELSE type

Upgrade(a, type, weak) ==
    [a EXCEPT !.type = UpgradedType(a, type), !.weak = a.weak /\ weak]

----------------------------------------------------------------------------
(* Variants of the registration operators with a plausible defect.        *)

\* Gap computed against the declared region only, ignoring existing pieces.
RegisterOverlapping(S, c) ==
    LET F == FragmentAllIn(S, c.region)
    IN  {IF a.region \subseteq c.region THEN Upgrade(a, c.type, c.weak) ELSE a : a \in F}
        \cup {NewAccess(c.type, c.weak, g, c.reductionInfo) : g \in Components(c.region)}

\* Countdown increased by the whole region instead of the missing bytes.
RegisteredBytesWhole(S, c) == Size(c.region)

\* Fatal check that only looks at the incoming type.
IsFatalIncomingOnly(S, c) ==
    /\ Intersecting(S, c.region) # {}
    /\ c.type \in {CONCURRENT, REDUCTION}

----------------------------------------------------------------------------
(* registerTaskDataAccess                                                  *)

\* Bytes of the call that no access covers yet: the missing subregions.
MissingBytes(S, c) == c.region \ UNION {a.region : a \in S}

\* The upgradeAccess failIf conditions, over the pieces the call covers.
IsFatal(S, c) == \E a \in Intersecting(S, c.region) : UpgradeIsFatal(a, c.type)

\* fragmentIntersecting, then upgradeAccess on the covered pieces and
\* createAccess on the missing subregions.
Register(S, c) ==
    LET F == FragmentAllIn(S, c.region)
    IN  {IF a.region \subseteq c.region THEN Upgrade(a, c.type, c.weak) ELSE a : a \in F}
        \cup {NewAccess(c.type, c.weak, g, c.reductionInfo) : g \in Components(MissingBytes(S, c))}

\* increaseRemovalCount(missingRegion.getSize()) for every missing subregion.
RegisteredBytes(S, c) == Size(MissingBytes(S, c))

----------------------------------------------------------------------------
(* evaluateSatisfiability: the bits a next access receives from its       *)
(* previous access.                                                        *)

\* Previous is a complete non-(concurrent/reduction) access, or a complete
\* concurrent/reduction access that is topmost.
CompleteAndReleasing(prev) ==
    /\ prev.complete
    /\ \/ prev.type \notin {CONCURRENT, REDUCTION}
       \/ prev.topmostSatisfied

\* Both concurrent, or both reductions with the same operation.
SameGroup(prev, next) ==
    \/ prev.type = CONCURRENT /\ next.type = CONCURRENT
    \/ /\ prev.type = REDUCTION /\ next.type = REDUCTION
       /\ prev.reductionInfo = next.reductionInfo

\* Variant: a read predecessor also passes write satisfiability.
EvaluateSatisfiabilityWriteAfterRead(prev, next, parental) ==
    [ read |-> prev.readSatisfied
               /\ \/ CompleteAndReleasing(prev) \/ parental
                  \/ prev.type = READ \/ SameGroup(prev, next),
      write |-> prev.writeSatisfied
                /\ \/ CompleteAndReleasing(prev) \/ parental
                   \/ prev.type = READ \/ SameGroup(prev, next),
      topmost |-> prev.topmostSatisfied /\ (prev.complete \/ parental) ]

\* Variant: members of one concurrent or reduction group are ordered.
EvaluateSatisfiabilityIgnoringGroups(prev, next, parental) ==
    [ read |-> prev.readSatisfied
               /\ \/ CompleteAndReleasing(prev) \/ parental \/ prev.type = READ,
      write |-> prev.writeSatisfied
                /\ (CompleteAndReleasing(prev) \/ parental),
      topmost |-> prev.topmostSatisfied /\ (prev.complete \/ parental) ]

EvaluateSatisfiability(prev, next, parental) ==
    [ read |-> prev.readSatisfied
               /\ \/ CompleteAndReleasing(prev)
                  \/ parental
                  \/ prev.type = READ
                  \/ SameGroup(prev, next),
      write |-> prev.writeSatisfied
                /\ \/ CompleteAndReleasing(prev)
                   \/ parental
                   \/ SameGroup(prev, next),
      topmost |-> prev.topmostSatisfied /\ (prev.complete \/ parental) ]

=============================================================================
