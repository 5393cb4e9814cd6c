------------------------- MODULE AccessRegistration -------------------------
(***************************************************************************)
(* The registration phase of one task: the calls the task's                *)
(* register_depinfo callback makes to                                      *)
(* DataAccessRegistration::registerTaskDataAccess before the task is       *)
(* linked.  Each call fragments the task's accesses along the new region, *)
(* upgrades the pieces it covers and creates an access for every gap, or  *)
(* aborts the process when concurrent or reduction accesses are combined. *)
(*                                                                         *)
(* The call history `declared' is the reference: the registered accesses  *)
(* must agree, byte by byte, with what the declarations say.               *)
(***************************************************************************)
EXTENDS DataAccesses, Sequences

CONSTANTS
    Addr,         \* the bytes of the address space
    ReductionOps, \* reduction operations a reduction access may carry
    MaxCalls      \* bound on the registration calls of the task

ASSUME Addr \subseteq Nat /\ Addr # {}
ASSUME ReductionOps \subseteq Nat \ {NoReduction}
ASSUME MaxCalls \in Nat

VARIABLES
    accesses,          \* TaskDataAccesses::_accesses
    removalCountdown,  \* TaskDataAccesses::_removalCountdown
    aborted,           \* FatalErrorHandler ended the process
    declared           \* history: the calls made so far

vars == <<accesses, removalCountdown, aborted, declared>>

\* One call: nanos6_register_*_depinfo(handler, start, length) resolved
\* to a type, weakness, region and reduction operation.
Calls ==
    { [type |-> t, weak |-> w, region |-> r, reductionInfo |-> NoReduction] :
      t \in AccessTypes \ {REDUCTION}, w \in BOOLEAN, r \in RegionsOf(Addr) }
    \cup
    { [type |-> REDUCTION, weak |-> w, region |-> r, reductionInfo |-> o] :
      w \in BOOLEAN, r \in RegionsOf(Addr), o \in ReductionOps }

Init ==
    /\ accesses = {}
    /\ removalCountdown = 0
    /\ aborted = FALSE
    /\ declared = <<>>

RegisterTaskDataAccess(c) ==
    /\ ~aborted
    /\ Len(declared) < MaxCalls
    /\ ~IsFatal(accesses, c)
    /\ accesses' = Register(accesses, c)
    /\ removalCountdown' = removalCountdown + RegisteredBytes(accesses, c)
    /\ declared' = Append(declared, c)
    /\ UNCHANGED aborted

\* upgradeAccess: FatalErrorHandler::failIf terminates the process.
RegisterFatal(c) ==
    /\ ~aborted
    /\ Len(declared) < MaxCalls
    /\ IsFatal(accesses, c)
    /\ aborted' = TRUE
    /\ declared' = Append(declared, c)
    /\ UNCHANGED <<accesses, removalCountdown>>

\* The callback returns: registration of this task is over.
Done ==
    /\ aborted \/ Len(declared) = MaxCalls
    /\ UNCHANGED vars

Next ==
    \/ \E c \in Calls : RegisterTaskDataAccess(c)
    \/ \E c \in Calls : RegisterFatal(c)
    \/ Done

Spec == Init /\ [][Next]_vars

----------------------------------------------------------------------------
(* Reference: what the declarations say of each byte.                      *)

Footprint == UNION {declared[i].region : i \in DOMAIN declared}

DeclsAt(x) == {i \in DOMAIN declared : x \in declared[i].region}

\* Same type in every declaration of the byte, else READWRITE.
RefType(x) ==
    IF \A i, j \in DeclsAt(x) : declared[i].type = declared[j].type
    THEN declared[Min(DeclsAt(x))].type
    ELSE READWRITE

\* Weak only if every declaration of the byte is weak.
RefWeak(x) == \A i \in DeclsAt(x) : declared[i].weak

\* A byte declared twice where either declaration is concurrent or a
\* reduction: the program is malformed.
Malformed ==
    \E x \in Addr : \E i, j \in DeclsAt(x) :
        /\ i # j
        /\ {declared[i].type, declared[j].type} \cap {CONCURRENT, REDUCTION} # {}

----------------------------------------------------------------------------
(* Properties                                                              *)

TypeOK ==
    /\ \A a \in accesses :
          /\ a.type \in AccessTypes /\ a.weak \in BOOLEAN
          /\ a.region \in RegionsOf(Addr)
    /\ removalCountdown \in Nat
    /\ aborted \in BOOLEAN
    /\ declared \in Seq(Calls)

\* Whatever sequence of calls the callback makes, the registered accesses
\* of registerTaskDataAccess are pairwise disjoint, cover exactly the
\* declared bytes, never straddle the boundary of a declared region, and
\* give every byte the type and weakness its declarations combine to.
AccessesMatchDeclarations ==
    ~aborted =>
        /\ \A a, b \in accesses : a # b => a.region \cap b.region = {}
        /\ UNION {a.region : a \in accesses} = Footprint
        /\ \A a \in accesses, i \in DOMAIN declared :
              a.region \subseteq declared[i].region
              \/ a.region \cap declared[i].region = {}
        /\ \A x \in Footprint :
              /\ AccessAt(accesses, x).type = RefType(x)
              /\ AccessAt(accesses, x).weak = RefWeak(x)

\* The removal countdown of registration counts every declared byte once,
\* however often and in however many pieces it is declared.
CountdownCountsFootprint ==
    ~aborted => removalCountdown = Size(Footprint)

\* The process aborts exactly when a byte combines a concurrent or a
\* reduction declaration with another one (upgradeAccess failIf).
AbortsExactlyWhenMalformed == aborted <=> Malformed

=============================================================================
