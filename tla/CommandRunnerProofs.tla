------------------------ MODULE CommandRunnerProofs ------------------------
(***************************************************************************)
(* Proofs about the cloudera_cmd wrapper: the type invariant, and that     *)
(* whenever the wrapper raises it raises on a failed command with the      *)
(* message section 4.1 of the spec prescribes.                             *)
(***************************************************************************)
EXTENDS CommandRunner, WellFoundedInduction, TLAPS

(* Every non-empty set of naturals has a least element: the first failed *)
(* child that the children loop of cloudera_cmd stops at exists.          *)
LEMMA LeastExists ==
    ASSUME NEW T \in SUBSET Nat, T # {}
    PROVE  \E i \in T : \A j \in T : i <= j
<1>1. \E x \in T : \A y \in T : ~(<<y, x>> \in OpToRel(<, Nat))
  BY NatLessThanWellFounded, WFMin
<1>2. ASSUME NEW x \in Nat, NEW y \in Nat, ~(<<y, x>> \in OpToRel(<, Nat))
      PROVE  x <= y
  <2>1. ~(y < x)
    BY <1>2, Zenon DEF OpToRel
  <2>2. QED
    BY <2>1
<1>3. QED
  BY <1>1, <1>2

(* The child lists of a result are sequences over 1..n with n bounded by  *)
(* MaxChildren.                                                           *)
LEMMA ChildListShape ==
    ASSUME NEW r \in Result, r.children # None
    PROVE  \E n \in 0..MaxChildren : r.children \in [1..n -> Child]
BY DEF Result, ChildLists

(* The check of cloudera_cmd and the spec's description of it agree on    *)
(* every result that raises.                                              *)
LEMMA MessageAgreement ==
    ASSUME NEW r \in Result, Raises(r)
    PROVE  RaisedMessage(r) = SpecMessage(r)
<1> DEFINE failing == {i \in 1..MaxChildren :
                          /\ r.children # None
                          /\ i \in DOMAIN r.children
                          /\ ~r.children[i].success}
<1>1. CASE r.children = None
  <2>1. failing = {}
    BY <1>1
  <2>2. QED
    BY <1>1, <2>1 DEF RaisedMessage, SpecMessage
<1>2. CASE r.children # None
  <2>1. PICK n \in 0..MaxChildren : r.children \in [1..n -> Child]
    BY <1>2, ChildListShape
  <2>2. failing = FailedChildren(r)
    BY <1>2, <2>1, RunnerAssumption DEF FailedChildren
  <2>3. FailedChildren(r) # {}
    BY <1>2 DEF Raises
  <2>4. SpecMessage(r) = r.children[CHOOSE i \in failing :
                                      \A j \in failing : i <= j].resultMessage
    BY <2>2, <2>3 DEF SpecMessage
  <2>5. RaisedMessage(r) = r.children[CHOOSE i \in FailedChildren(r) :
                          \A j \in FailedChildren(r) : i <= j].resultMessage
    BY <1>2 DEF RaisedMessage
  <2>6. QED
    BY <2>2, <2>4, <2>5
<1>3. QED
  BY <1>1, <1>2

(* The message the check raises with is one the manager reported.        *)
LEMMA RaisedMessageType ==
    ASSUME NEW r \in Result, Raises(r)
    PROVE  RaisedMessage(r) \in Msgs
<1>1. CASE r.children = None
  BY <1>1 DEF RaisedMessage, Result
<1>2. CASE r.children # None
  <2>1. PICK n \in 0..MaxChildren : r.children \in [1..n -> Child]
    BY <1>2, ChildListShape
  <2>2. FailedChildren(r) \in SUBSET (1..n) /\ FailedChildren(r) # {}
    BY <1>2, <2>1 DEF FailedChildren, Raises
  <2>3. \E i \in FailedChildren(r) : \A j \in FailedChildren(r) : i <= j
    BY <2>2, RunnerAssumption, LeastExists
  <2>4. (CHOOSE i \in FailedChildren(r) :
            \A j \in FailedChildren(r) : i <= j) \in 1..n
    BY <2>2, <2>3
  <2>5. QED
    BY <1>2, <2>1, <2>4 DEF RaisedMessage, Child
<1>3. QED
  BY <1>1, <1>2

-----------------------------------------------------------------------------
(* The inductive invariant: the type invariant, and a raised wrapper      *)
(* carries the message of the check on its last waited result.            *)
IInv ==
    /\ TypeOK
    /\ phase = "wait" => Len(results) < MaxCmds
    /\ phase = "raised" =>
           /\ results # <<>>
           /\ Raises(results[Len(results)])
           /\ err = RaisedMessage(results[Len(results)])

LEMMA InitIInv == Init => IInv
BY RunnerAssumption DEF Init, IInv, TypeOK, Phases

LEMMA NextIInv == IInv /\ [Next]_vars => IInv'
<1> SUFFICES ASSUME IInv, [Next]_vars PROVE IInv'
  OBVIOUS
<1>1. CASE Yield
  BY <1>1 DEF Yield, IInv, TypeOK, Phases
<1>2. CASE Exhausted
  BY <1>2 DEF Exhausted, IInv, TypeOK, Phases
<1>3. ASSUME NEW r \in Result, WaitAccept(r) PROVE IInv'
  <2>1. Len(results) < MaxCmds
    BY <1>3 DEF WaitAccept, IInv, TypeOK, Phases
  <2>2. TypeOK'
    BY <1>3, <2>1, RunnerAssumption DEF WaitAccept, IInv, TypeOK, Phases
  <2>3. QED
    BY <1>3, <2>2 DEF WaitAccept, IInv
<1>4. ASSUME NEW r \in Result, WaitRaise(r) PROVE IInv'
  <2>1. Len(results) < MaxCmds
    BY <1>4 DEF WaitRaise, IInv, TypeOK, Phases
  <2>2. RaisedMessage(r) \in Msgs
    BY <1>4, RaisedMessageType DEF WaitRaise
  <2>3. TypeOK'
    BY <1>4, <2>1, <2>2, RunnerAssumption DEF WaitRaise, IInv, TypeOK, Phases
  <2>4. QED
    BY <1>4, <2>3 DEF WaitRaise, IInv
<1>5. CASE UNCHANGED vars
  BY <1>5 DEF vars, IInv, TypeOK
<1>6. QED
  BY <1>1, <1>2, <1>3, <1>4, <1>5 DEF Next

(* The type invariant and the raised-message invariant hold in every      *)
(* reachable state of the cloudera_cmd wrapper, for every bound on the    *)
(* commands and children and every set of messages.                       *)
THEOREM TypeCorrect == Spec => []TypeOK
BY InitIInv, NextIInv, PTL DEF Spec, IInv

(* Whenever cloudera_cmd raises, it raised on the last command it waited  *)
(* on, that command failed, and the message is the one section 4.1        *)
(* prescribes: the first failing child's, or the command's own.           *)
THEOREM RaisesWithSpecMessage == Spec => []RaisedWithSpecMessage
<1>1. IInv => RaisedWithSpecMessage
  BY MessageAgreement DEF IInv, TypeOK, Raises, RaisedWithSpecMessage
<1>2. QED
  BY <1>1, InitIInv, NextIInv, PTL DEF Spec
=============================================================================
