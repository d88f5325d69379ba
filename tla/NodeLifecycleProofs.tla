------------------------ MODULE NodeLifecycleProofs ------------------------
(***************************************************************************)
(* Proofs about the host and role operations of ClouderaUtils            *)
(* (NodeLifecycle): the state stays well-typed, and no host of the        *)
(* Cloudera cluster is ever unknown to the manager, for any number of     *)
(* hosts, threads and failures.                                           *)
(***************************************************************************)
EXTENDS NodeLifecycle, TLAPS

(* What the loops of the calls keep of their frames: the indices of       *)
(* configure_instances and update_configs point at a process of an        *)
(* instance, one past create_role or get_service_by_role the role type is *)
(* routed, the batch of decommission_nodes is not empty, and the index of *)
(* delete_instances stays within the inventory it fetched.                *)
FrameOK(c) ==
    LET f == thr[c] IN
    /\ f.pc \in {"add_role", "update_config", "upd_deploy", "upd_wait"} =>
           /\ f.i \in 1..Len(f.insts)
           /\ f.j \in 1..Len(NodeProcs[f.insts[f.i]])
    /\ f.pc \in {"update_config", "upd_wait"} =>
           ConvertRoleShowname[CurProc(c)] \in RoleTypes
    /\ f.pc \in {"dec_submit", "dec_wait"} => Len(f.names) >= 1
    /\ f.pc = "dec_delete" => f.i \in 1..Len(f.names)
    /\ f.pc = "del_scan" => f.i \in 1..(Len(f.snap) + 1)
    /\ f.pc = "del_host" => f.i \in 1..Len(f.snap)

(* The hosts as the manager and the provisioning layer see them: an agent *)
(* that has not registered is nowhere yet, a joining host is registered   *)
(* and not a member, and a host some delete_instances fetched is not one *)
(* whose agent is still to come.                                          *)
HostsOK ==
    /\ fresh \cap registered = {}
    /\ joining \subseteq registered
    /\ joining \cap members = {}
    /\ \A c \in Callers : \A k \in DOMAIN thr[c].snap :
           thr[c].snap[k] \notin fresh

(* The inductive invariant.  MembersRegistered alone is not inductive:    *)
(* delete_host removes a registered host, which keeps the invariant only  *)
(* because the same thread removed that host from the cluster in its      *)
(* previous step and nothing has put it back since.                       *)
IInv ==
    /\ TypeOK
    /\ \A c \in Callers : FrameOK(c)
    /\ HostsOK
    /\ MembersRegistered
    /\ \A c \in Callers :
           thr[c].pc = "del_host" =>
               thr[c].snap[thr[c].i] \notin members \cup joining
-----------------------------------------------------------------------------
(* The argument lists and inventories the calls take are sequences.       *)
LEMMA OrderingsAreSeqs ==
    ASSUME NEW S, NEW s \in Orderings(S)
    PROVE  /\ s \in Seq(S)
           /\ s # <<>> => Len(s) >= 1
<1>1. PICK n \in 0..Cardinality(S) : s \in [1..n -> S]
    BY DEF Orderings
<1>2. n \in Nat
    BY <1>1
<1>3. s \in Seq(S)
    BY <1>1, <1>2
<1>4. Len(s) = n
    BY <1>1, <1>2, <1>3
<1>5. n = 0 => s = <<>>
    BY <1>1
<1> QED
    BY <1>3, <1>4, <1>5

\* A frame that is left, normally or by an exception, is a frame.
LEMMA IdleIsFrame == Idle \in Frame
BY DEF Idle, Frame, PCs

LEMMA InitIInv == Init => IInv
BY IdleIsFrame, NodeLifecycleAssumption
   DEF Init, IInv, TypeOK, FrameOK, HostsOK, MembersRegistered, Idle,
       RoleIds, RoleStates
(* A step of thread c that leaves the other threads' frames alone and     *)
(* gives c's frame these fields.                                          *)
FrameStep(c, l, ins, nms, snp, n, m) ==
    /\ thr' \in [Callers -> Frame]
    /\ thr'[c].pc = l
    /\ thr'[c].insts = ins
    /\ thr'[c].names = nms
    /\ thr'[c].snap = snp
    /\ thr'[c].i = n
    /\ thr'[c].j = m
    /\ \A d \in Callers \ {c} : thr'[d] = thr[d]

\* A sequence over a set is a sequence over any larger set.
LEMMA SeqMonotone ==
    ASSUME NEW A, NEW B, A \subseteq B, NEW s \in Seq(A)
    PROVE  s \in Seq(B)
OBVIOUS

(***************************************************************************)
(* How each kind of update of a frame moves the fields the invariant      *)
(* reads.  The SMT backend does not take nested EXCEPTs on records, so    *)
(* these facts are shown once, with Zenon, and cited by the steps.        *)
(***************************************************************************)
LEMMA ReturnStep ==
    ASSUME thr \in [Callers -> Frame], NEW c \in Callers, Return(c)
    PROVE  FrameStep(c, "idle", <<>>, <<>>, <<>>, 0, 0)
BY IdleIsFrame, Zenon DEF Return, FrameStep, Idle

LEMMA GotoStep ==
    ASSUME thr \in [Callers -> Frame], NEW c \in Callers, NEW l \in PCs,
           Goto(c, l)
    PROVE  FrameStep(c, l, thr[c].insts, thr[c].names, thr[c].snap,
                     thr[c].i, thr[c].j)
BY Zenon DEF Goto, FrameStep, Frame

LEMMA EnterWithInsts ==
    ASSUME thr \in [Callers -> Frame], NEW c \in Callers, NEW l \in PCs,
           NEW s \in Seq(Hosts), NEW m \in Nat, NEW n \in Nat,
           thr' = [thr EXCEPT ![c].pc = l, ![c].insts = s, ![c].i = m,
                              ![c].j = n]
    PROVE  FrameStep(c, l, s, thr[c].names, thr[c].snap, m, n)
BY ZenonT(60) DEF Frame, FrameStep

LEMMA EnterWithNames ==
    ASSUME thr \in [Callers -> Frame], NEW c \in Callers, NEW l \in PCs,
           NEW t \in RoleTypes, NEW s \in Seq(RoleIds),
           thr' = [thr EXCEPT ![c].pc = l, ![c].proc = t, ![c].names = s]
    PROVE  FrameStep(c, l, thr[c].insts, s, thr[c].snap, thr[c].i, thr[c].j)
BY ZenonT(60) DEF Frame, FrameStep

LEMMA EnterWithTargets ==
    ASSUME thr \in [Callers -> Frame], NEW c \in Callers, NEW l \in PCs,
           NEW hs \in SUBSET Hosts,
           thr' = [thr EXCEPT ![c].pc = l, ![c].targets = hs]
    PROVE  FrameStep(c, l, thr[c].insts, thr[c].names, thr[c].snap,
                     thr[c].i, thr[c].j)
BY ZenonT(60) DEF Frame, FrameStep

LEMMA SetPcSnapI ==
    ASSUME thr \in [Callers -> Frame], NEW c \in Callers, NEW l \in PCs,
           NEW s \in Seq(Hosts), NEW m \in Nat,
           thr' = [thr EXCEPT ![c].pc = l, ![c].snap = s, ![c].i = m]
    PROVE  FrameStep(c, l, thr[c].insts, thr[c].names, s, m, thr[c].j)
BY ZenonT(60) DEF Frame, FrameStep

LEMMA SetPcIJ ==
    ASSUME thr \in [Callers -> Frame], NEW c \in Callers, NEW l \in PCs,
           NEW m \in Nat, NEW n \in Nat,
           thr' = [thr EXCEPT ![c].pc = l, ![c].i = m, ![c].j = n]
    PROVE  FrameStep(c, l, thr[c].insts, thr[c].names, thr[c].snap, m, n)
BY ZenonT(60) DEF Frame, FrameStep

LEMMA SetPcJ ==
    ASSUME thr \in [Callers -> Frame], NEW c \in Callers, NEW l \in PCs,
           NEW n \in Nat,
           thr' = [thr EXCEPT ![c].pc = l, ![c].j = n]
    PROVE  FrameStep(c, l, thr[c].insts, thr[c].names, thr[c].snap,
                     thr[c].i, n)
BY ZenonT(60) DEF Frame, FrameStep

LEMMA SetPcI ==
    ASSUME thr \in [Callers -> Frame], NEW c \in Callers, NEW l \in PCs,
           NEW m \in Nat,
           thr' = [thr EXCEPT ![c].pc = l, ![c].i = m]
    PROVE  FrameStep(c, l, thr[c].insts, thr[c].names, thr[c].snap, m,
                     thr[c].j)
BY ZenonT(60) DEF Frame, FrameStep

LEMMA SetI ==
    ASSUME thr \in [Callers -> Frame], NEW c \in Callers, NEW m \in Nat,
           thr' = [thr EXCEPT ![c].i = m]
    PROVE  FrameStep(c, thr[c].pc, thr[c].insts, thr[c].names, thr[c].snap,
                     m, thr[c].j)
BY ZenonT(60) DEF Frame, FrameStep

\* The loop of configure_instances and configure_instance moves on.
LEMMA NextProcessStep ==
    ASSUME thr \in [Callers -> Frame], NEW c \in Callers, NextProcess(c)
    PROVE  \/ /\ thr[c].j < Len(NodeProcs[CurInst(c)])
              /\ FrameStep(c, "add_role", thr[c].insts, thr[c].names,
                           thr[c].snap, thr[c].i, thr[c].j + 1)
           \/ /\ ~(thr[c].j < Len(NodeProcs[CurInst(c)]))
              /\ thr[c].i < Len(thr[c].insts)
              /\ FrameStep(c, "add_role", thr[c].insts, thr[c].names,
                           thr[c].snap, thr[c].i + 1, 1)
           \/ /\ ~(thr[c].j < Len(NodeProcs[CurInst(c)]))
              /\ ~(thr[c].i < Len(thr[c].insts))
              /\ FrameStep(c, "idle", <<>>, <<>>, <<>>, 0, 0)
<1>1. thr[c].i + 1 \in Nat /\ thr[c].j + 1 \in Nat /\ 1 \in Nat
      /\ "add_role" \in PCs
    BY DEF Frame, PCs
<1>2. CASE thr[c].j < Len(NodeProcs[CurInst(c)])
    <2>1. thr' = [thr EXCEPT ![c].pc = "add_role", ![c].j = thr[c].j + 1]
        BY <1>2, Zenon DEF NextProcess
    <2> QED
        BY <1>1, <1>2, <2>1, SetPcJ
<1>3. CASE ~(thr[c].j < Len(NodeProcs[CurInst(c)]))
           /\ thr[c].i < Len(thr[c].insts)
    <2>1. thr' = [thr EXCEPT ![c].pc = "add_role", ![c].i = thr[c].i + 1,
                             ![c].j = 1]
        BY <1>3, Zenon DEF NextProcess
    <2> QED
        BY <1>1, <1>3, <2>1, SetPcIJ
<1>4. CASE ~(thr[c].j < Len(NodeProcs[CurInst(c)]))
           /\ ~(thr[c].i < Len(thr[c].insts))
    BY <1>4, ReturnStep, Zenon DEF NextProcess
<1> QED
    BY <1>2, <1>3, <1>4

\* The routed role type of a process of an instance is a role type.
LEMMA RoutedType ==
    ASSUME NEW h \in Hosts, NEW j \in 1..Len(NodeProcs[h]),
           ConvertRoleShowname[NodeProcs[h][j]] \in SupportedRoleTypes
    PROVE  ConvertRoleShowname[NodeProcs[h][j]] \in RoleTypes
<1>1. NodeProcs[h][j] \in DOMAIN ConvertRoleShowname
    BY NodeLifecycleAssumption
<1> QED
    BY <1>1, NodeLifecycleAssumption

\* FrameOK of a thread reads its frame alone.
LEMMA FrameOKUnchanged ==
    ASSUME NEW d, thr'[d] = thr[d], FrameOK(d)
    PROVE  FrameOK(d)'
BY DEF FrameOK, CurProc, CurInst

\* Every thread's frame but c's is as it was, and c's is well formed.
LEMMA AllFramesOK ==
    ASSUME IInv, NEW c \in Callers,
           \A d \in Callers \ {c} : thr'[d] = thr[d],
           FrameOK(c)'
    PROVE  \A d \in Callers : FrameOK(d)'
<1> TAKE d \in Callers
<1>1. CASE d = c
    BY <1>1
<1>2. CASE d # c
    BY <1>2, FrameOKUnchanged DEF IInv
<1> QED
    BY <1>1, <1>2

(* A step of thread c that only moves c's frame keeps the invariant when  *)
(* c's new frame does.                                                    *)
LEMMA FrameOnlyStep ==
    ASSUME IInv, UNCHANGED <<mgr, env>>, NEW c \in Callers,
           thr' \in [Callers -> Frame],
           \A d \in Callers \ {c} : thr'[d] = thr[d],
           FrameOK(c)',
           \A k \in DOMAIN thr'[c].snap : thr'[c].snap[k] \notin fresh,
           thr'[c].pc = "del_host" =>
               thr'[c].snap[thr'[c].i] \notin members \cup joining
    PROVE  IInv'
<1>1. TypeOK'
    BY DEF IInv, TypeOK, mgr, env
<1>2. \A d \in Callers : FrameOK(d)'
    BY AllFramesOK
<1>3. HostsOK'
    BY DEF IInv, HostsOK, mgr, env
<1>4. MembersRegistered'
    BY DEF IInv, MembersRegistered, mgr
<1>5. \A d \in Callers :
          thr'[d].pc = "del_host" =>
              thr'[d].snap[thr'[d].i] \notin members' \cup joining'
    BY DEF IInv, mgr, env
<1> QED
    BY <1>1, <1>2, <1>3, <1>4, <1>5 DEF IInv

(* A step of thread c that may change the roles, their configuration and *)
(* the failure count, but no host, keeps the invariant when c's new frame *)
(* does.                                                                  *)
LEMMA RoleStep ==
    ASSUME IInv, UNCHANGED <<registered, members, fresh, joining>>,
           roles' \in [RoleIds -> RoleStates], configured' \subseteq RoleIds,
           clientCfg' \subseteq RoleIds, failures' \in 0..MaxFailures,
           addRaised' \subseteq RoleIds,
           NEW c \in Callers,
           thr' \in [Callers -> Frame],
           \A d \in Callers \ {c} : thr'[d] = thr[d],
           FrameOK(c)',
           \A k \in DOMAIN thr'[c].snap : thr'[c].snap[k] \notin fresh,
           thr'[c].pc = "del_host" =>
               thr'[c].snap[thr'[c].i] \notin members \cup joining
    PROVE  IInv'
<1>1. TypeOK'
    BY DEF IInv, TypeOK
<1>2. \A d \in Callers : FrameOK(d)'
    BY AllFramesOK
<1>3. HostsOK'
    BY DEF IInv, HostsOK
<1>4. MembersRegistered'
    BY DEF IInv, MembersRegistered
<1>5. \A d \in Callers :
          thr'[d].pc = "del_host" =>
              thr'[d].snap[thr'[d].i] \notin members' \cup joining'
    BY DEF IInv
<1> QED
    BY <1>1, <1>2, <1>3, <1>4, <1>5 DEF IInv

\* After the next process of configure_instance, c's frame is well formed.
LEMMA NextProcessOK ==
    ASSUME thr \in [Callers -> Frame], NEW c \in Callers,
           thr[c].pc \in {"add_role", "update_config"}, FrameOK(c),
           NextProcess(c)
    PROVE  /\ thr' \in [Callers -> Frame]
           /\ \A d \in Callers \ {c} : thr'[d] = thr[d]
           /\ FrameOK(c)'
           /\ thr'[c].pc \in {"add_role", "idle"}
           /\ thr'[c].snap \in {thr[c].snap, <<>>}
<1>1. CASE /\ thr[c].j < Len(NodeProcs[CurInst(c)])
           /\ FrameStep(c, "add_role", thr[c].insts, thr[c].names,
                        thr[c].snap, thr[c].i, thr[c].j + 1)
    BY <1>1 DEF FrameOK, FrameStep, CurProc, CurInst
<1>2. CASE /\ ~(thr[c].j < Len(NodeProcs[CurInst(c)]))
           /\ thr[c].i < Len(thr[c].insts)
           /\ FrameStep(c, "add_role", thr[c].insts, thr[c].names,
                        thr[c].snap, thr[c].i + 1, 1)
    <2>1. thr[c].i \in 1..Len(thr[c].insts) /\ thr[c].insts \in Seq(Hosts)
        BY DEF FrameOK, Frame
    <2>2. thr[c].i + 1 \in 1..Len(thr[c].insts)
        BY <1>2, <2>1
    <2>3. thr[c].insts[thr[c].i + 1] \in Hosts
        BY <2>1, <2>2
    <2>4. 1 \in 1..Len(NodeProcs[thr[c].insts[thr[c].i + 1]])
        BY <2>3, NodeLifecycleAssumption
    <2>5. /\ thr'[c].pc = "add_role" /\ thr'[c].insts = thr[c].insts
          /\ thr'[c].i = thr[c].i + 1 /\ thr'[c].j = 1
          /\ thr'[c].snap = thr[c].snap
          /\ thr' \in [Callers -> Frame]
          /\ \A d \in Callers \ {c} : thr'[d] = thr[d]
        BY <1>2 DEF FrameStep
    <2> QED
        BY <2>2, <2>4, <2>5 DEF FrameOK
<1>3. CASE FrameStep(c, "idle", <<>>, <<>>, <<>>, 0, 0)
    BY <1>3 DEF FrameOK, FrameStep
<1> QED
    BY <1>1, <1>2, <1>3, NextProcessStep

\* The role the frame of c is at, one past the routing of its type.
LEMMA CurRoleIsRole ==
    ASSUME thr \in [Callers -> Frame], NEW c \in Callers,
           thr[c].pc \in {"update_config", "upd_wait"}, FrameOK(c)
    PROVE  CurRole(c) \in RoleIds
BY DEF FrameOK, CurRole, CurProc, CurInst, RoleIds, Frame

-----------------------------------------------------------------------------
LEMMA NextIInv == IInv /\ [Next]_vars => IInv'
<1> SUFFICES ASSUME IInv, [Next]_vars PROVE IInv'
    OBVIOUS
<1>0. thr \in [Callers -> Frame]
    BY DEF IInv, TypeOK
<1>1. ASSUME NEW c \in Callers, NEW s \in Orderings(Hosts) \ {<<>>},
             ConfigureInstances(c, s)
      PROVE  IInv'
    <2>1. s \in Seq(Hosts) /\ Len(s) >= 1
        BY OrderingsAreSeqs
    <2>2. thr[c].pc = "idle" /\ UNCHANGED <<mgr, env>>
        BY <1>1 DEF ConfigureInstances
    <2>3. FrameStep(c, "add_role", s, thr[c].names, thr[c].snap, 1, 1)
        <3>1. thr' = [thr EXCEPT ![c].pc = "add_role", ![c].insts = s,
                                 ![c].i = 1, ![c].j = 1]
            BY <1>1, Zenon DEF ConfigureInstances
        <3> QED
            BY <1>0, <2>1, <3>1, EnterWithInsts DEF PCs
    <2>4. FrameOK(c)'
        BY <2>1, <2>3, NodeLifecycleAssumption
        DEF FrameOK, FrameStep, CurProc, CurInst
    <2> QED
        BY <2>2, <2>3, <2>4, FrameOnlyStep DEF FrameStep, IInv, HostsOK
<1>2. ASSUME NEW c \in Callers, NEW t \in RoleTypes,
             NEW s \in Orderings({<<h, t>> : h \in Hosts}) \ {<<>>},
             DecommissionNodes(c, t, s)
      PROVE  IInv'
    <2>1. s \in Seq(RoleIds) /\ Len(s) >= 1
        <3>1. s \in Seq({<<h, t>> : h \in Hosts}) /\ Len(s) >= 1
            BY OrderingsAreSeqs
        <3>2. {<<h, t>> : h \in Hosts} \subseteq RoleIds
            BY DEF RoleIds
        <3> QED
            BY <3>1, <3>2, SeqMonotone
    <2>2. thr[c].pc = "idle" /\ UNCHANGED <<mgr, env>>
        BY <1>2 DEF DecommissionNodes
    <2>3. FrameStep(c, "dec_submit", thr[c].insts, s, thr[c].snap,
                    thr[c].i, thr[c].j)
        <3>1. thr' = [thr EXCEPT ![c].pc = "dec_submit", ![c].proc = t,
                                 ![c].names = s]
            BY <1>2, Zenon DEF DecommissionNodes
        <3> QED
            BY <1>0, <2>1, <3>1, EnterWithNames DEF PCs
    <2>4. FrameOK(c)'
        BY <2>1, <2>3 DEF FrameOK, FrameStep
    <2> QED
        BY <2>2, <2>3, <2>4, FrameOnlyStep DEF FrameStep, IInv, HostsOK
<1>3. ASSUME NEW c \in Callers, NEW hs \in SUBSET Hosts \ {{}},
             DeleteInstances(c, hs)
      PROVE  IInv'
    <2>1. thr[c].pc = "idle" /\ UNCHANGED <<mgr, env>>
        BY <1>3 DEF DeleteInstances
    <2>2. FrameStep(c, "del_list", thr[c].insts, thr[c].names, thr[c].snap,
                    thr[c].i, thr[c].j)
        <3>1. thr' = [thr EXCEPT ![c].pc = "del_list", ![c].targets = hs]
            BY <1>3, Zenon DEF DeleteInstances
        <3> QED
            BY <1>0, <3>1, EnterWithTargets DEF PCs
    <2>3. FrameOK(c)'
        BY <2>2 DEF FrameOK, FrameStep
    <2> QED
        BY <2>1, <2>2, <2>3, FrameOnlyStep DEF FrameStep, IInv, HostsOK
<1>4. ASSUME NEW c \in Callers, NEW h \in Hosts, UpdateConfigs(c, h)
      PROVE  IInv'
    <2>1. <<h>> \in Seq(Hosts) /\ Len(<<h>>) = 1 /\ <<h>>[1] = h
        OBVIOUS
    <2>2. thr[c].pc = "idle" /\ UNCHANGED <<mgr, env>>
        BY <1>4 DEF UpdateConfigs
    <2>3. FrameStep(c, "upd_deploy", <<h>>, thr[c].names, thr[c].snap, 1, 1)
        <3>1. thr' = [thr EXCEPT ![c].pc = "upd_deploy", ![c].insts = <<h>>,
                                 ![c].i = 1, ![c].j = 1]
            BY <1>4, Zenon DEF UpdateConfigs
        <3> QED
            BY <1>0, <2>1, <3>1, EnterWithInsts DEF PCs
    <2>4. FrameOK(c)'
        BY <2>1, <2>3, NodeLifecycleAssumption
        DEF FrameOK, FrameStep, CurProc, CurInst
    <2> QED
        BY <2>2, <2>3, <2>4, FrameOnlyStep DEF FrameStep, IInv, HostsOK
<1>5. ASSUME NEW c \in Callers, AddRoleSkip(c) PROVE IInv'
    <2>1. thr[c].pc = "add_role" /\ UNCHANGED <<mgr, env>> /\ NextProcess(c)
        BY <1>5 DEF AddRoleSkip
    <2>2. FrameOK(c)
        BY DEF IInv
    <2>3. CASE thr[c].j < Len(NodeProcs[CurInst(c)])
              /\ FrameStep(c, "add_role", thr[c].insts, thr[c].names,
                           thr[c].snap, thr[c].i, thr[c].j + 1)
        <3>1. FrameOK(c)'
            BY <2>1, <2>2, <2>3 DEF FrameOK, FrameStep, CurProc, CurInst
        <3> QED
            BY <2>1, <2>3, <3>1, FrameOnlyStep DEF FrameStep, IInv, HostsOK
    <2>4. CASE ~(thr[c].j < Len(NodeProcs[CurInst(c)]))
              /\ thr[c].i < Len(thr[c].insts)
              /\ FrameStep(c, "add_role", thr[c].insts, thr[c].names,
                           thr[c].snap, thr[c].i + 1, 1)
        <3>1. FrameOK(c)'
            BY <1>0, <2>1, <2>2, <2>4, NodeLifecycleAssumption
            DEF FrameOK, FrameStep, CurProc, CurInst, Frame
        <3> QED
            BY <2>1, <2>4, <3>1, FrameOnlyStep DEF FrameStep, IInv, HostsOK
    <2>5. CASE FrameStep(c, "idle", <<>>, <<>>, <<>>, 0, 0)
        <3>1. FrameOK(c)'
            BY <2>5 DEF FrameOK, FrameStep
        <3> QED
            BY <2>1, <2>5, <3>1, FrameOnlyStep DEF FrameStep
    <2> QED
        BY <1>0, <2>1, <2>3, <2>4, <2>5, NextProcessStep
<1>6. ASSUME NEW c \in Callers, AddRoleRaise(c) PROVE IInv'
    <2>1. UNCHANGED <<mgr, env>> /\ Return(c)
        BY <1>6 DEF AddRoleRaise
    <2>2. FrameStep(c, "idle", <<>>, <<>>, <<>>, 0, 0)
        BY <1>0, <2>1, ReturnStep
    <2>3. FrameOK(c)'
        BY <2>2 DEF FrameOK, FrameStep
    <2> QED
        BY <2>1, <2>2, <2>3, FrameOnlyStep DEF FrameStep
<1>7. ASSUME NEW c \in Callers, AddRole(c) PROVE IInv'
    <2>1. /\ thr[c].pc = "add_role"
          /\ ConvertRoleShowname[CurProc(c)] \in SupportedRoleTypes
          /\ roles' = [roles EXCEPT ![CurRole(c)] = "commissioned"]
          /\ Goto(c, "update_config")
          /\ UNCHANGED <<configured, clientCfg, registered, members, env>>
        BY <1>7 DEF AddRole, CreateAccepted
    <2>2. FrameStep(c, "update_config", thr[c].insts, thr[c].names,
                    thr[c].snap, thr[c].i, thr[c].j)
        BY <1>0, <2>1, GotoStep DEF PCs
    <2>3. FrameOK(c) /\ TypeOK
        BY DEF IInv
    <2>4. CurInst(c) \in Hosts /\ thr[c].j \in 1..Len(NodeProcs[CurInst(c)])
        BY <1>0, <2>1, <2>3 DEF FrameOK, CurInst, Frame
    <2>5. ConvertRoleShowname[CurProc(c)] \in RoleTypes
        BY <2>1, <2>4, RoutedType DEF CurProc
    <2>6. FrameOK(c)'
        BY <2>1, <2>2, <2>3, <2>5 DEF FrameOK, FrameStep, CurProc, CurInst
    <2>7. roles' \in [RoleIds -> RoleStates]
        BY <2>1, <2>3 DEF TypeOK, RoleStates
    <2> QED
        BY <2>1, <2>2, <2>3, <2>6, <2>7, RoleStep
        DEF FrameStep, IInv, HostsOK, TypeOK, env
<1>8. ASSUME NEW c \in Callers, UpdateConfig(c) PROVE IInv'
    <2>1. thr[c].pc = "update_config"
          /\ UNCHANGED <<roles, clientCfg, registered, members, env>>
        BY <1>8 DEF UpdateConfig
    <2>2. FrameOK(c) /\ TypeOK
        BY DEF IInv
    <2>3. CASE roles[CurRole(c)] = "absent"
        <3>1. Return(c) /\ UNCHANGED configured
            BY <1>8, <2>3 DEF UpdateConfig
        <3>2. FrameStep(c, "idle", <<>>, <<>>, <<>>, 0, 0)
            BY <1>0, <3>1, ReturnStep
        <3>3. FrameOK(c)'
            BY <3>2 DEF FrameOK, FrameStep
        <3> QED
            BY <2>1, <3>1, <3>2, <3>3, FrameOnlyStep DEF FrameStep, mgr
    <2>4. CASE roles[CurRole(c)] # "absent"
        <3>1. configured' = configured \cup {CurRole(c)} /\ NextProcess(c)
            BY <1>8, <2>4 DEF UpdateConfig
        <3>2. CurRole(c) \in RoleIds
            BY <1>0, <2>1, <2>2, CurRoleIsRole
        <3>3. /\ thr' \in [Callers -> Frame]
              /\ \A d \in Callers \ {c} : thr'[d] = thr[d]
              /\ FrameOK(c)'
              /\ thr'[c].pc \in {"add_role", "idle"}
              /\ thr'[c].snap \in {thr[c].snap, <<>>}
            BY <1>0, <2>1, <2>2, <3>1, NextProcessOK
        <3> QED
            BY <2>1, <2>2, <3>1, <3>2, <3>3, RoleStep
            DEF IInv, HostsOK, TypeOK, env
    <2> QED
        BY <2>3, <2>4
<1>9. ASSUME NEW c \in Callers, DecSubmit(c) PROVE IInv'
    <2>1. thr[c].pc = "dec_submit" /\ UNCHANGED <<mgr, env>>
        BY <1>9 DEF DecSubmit
    <2>2. CASE DecommissionAccepted(c)
        <3>1. FrameStep(c, "dec_wait", thr[c].insts, thr[c].names,
                        thr[c].snap, thr[c].i, thr[c].j)
            BY <1>0, <1>9, <2>2, GotoStep DEF DecSubmit, PCs
        <3>2. FrameOK(c)'
            BY <2>1, <3>1 DEF FrameOK, FrameStep, IInv
        <3> QED
            BY <2>1, <3>1, <3>2, FrameOnlyStep DEF FrameStep, IInv, HostsOK
    <2>3. CASE ~DecommissionAccepted(c)
        <3>1. FrameStep(c, "idle", <<>>, <<>>, <<>>, 0, 0)
            BY <1>0, <1>9, <2>3, ReturnStep DEF DecSubmit
        <3>2. FrameOK(c)'
            BY <3>1 DEF FrameOK, FrameStep
        <3> QED
            BY <2>1, <3>1, <3>2, FrameOnlyStep DEF FrameStep
    <2> QED
        BY <2>2, <2>3
<1>10. ASSUME NEW c \in Callers, DecWait(c) PROVE IInv'
    <2>1. /\ thr[c].pc = "dec_wait"
          /\ \E ok \in BOOLEAN : Decommissioned(c, ok)
          /\ UNCHANGED <<configured, clientCfg, registered, members, env>>
        BY <1>10 DEF DecWait
    <2>2. FrameStep(c, "dec_delete", thr[c].insts, thr[c].names,
                    thr[c].snap, 1, thr[c].j)
        <3>1. thr' = [thr EXCEPT ![c].pc = "dec_delete", ![c].i = 1]
            BY <1>10, Zenon DEF DecWait
        <3> QED
            BY <1>0, <3>1, SetPcI DEF PCs
    <2>3. FrameOK(c)'
        BY <2>1, <2>2 DEF FrameOK, FrameStep, IInv
    <2>4. roles' \in [RoleIds -> RoleStates]
        BY <2>1 DEF Decommissioned, RoleStates, IInv, TypeOK
    <2> QED
        BY <2>1, <2>2, <2>3, <2>4, RoleStep
        DEF FrameStep, IInv, HostsOK, TypeOK, env
<1>11. ASSUME NEW c \in Callers, DecDelete(c) PROVE IInv'
    <2> DEFINE r == thr[c].names[thr[c].i]
    <2>1. thr[c].pc = "dec_delete" /\ UNCHANGED <<registered, members, env>>
        BY <1>11 DEF DecDelete
    <2>2. FrameOK(c) /\ TypeOK
        BY DEF IInv
    <2>3. r \in RoleIds
        BY <1>0, <2>1, <2>2 DEF FrameOK, Frame
    <2>4. CASE roles[r] = "absent"
        <3>1. Return(c) /\ UNCHANGED <<roles, configured, clientCfg>>
            BY <1>11, <2>4 DEF DecDelete
        <3>2. FrameStep(c, "idle", <<>>, <<>>, <<>>, 0, 0)
            BY <1>0, <3>1, ReturnStep
        <3>3. FrameOK(c)'
            BY <3>2 DEF FrameOK, FrameStep
        <3> QED
            BY <2>1, <3>1, <3>2, <3>3, FrameOnlyStep DEF FrameStep, mgr
    <2>5. CASE roles[r] # "absent"
        <3>1. /\ roles' = [roles EXCEPT ![r] = "absent"]
              /\ configured' = configured \ {r}
              /\ clientCfg' = clientCfg \ {r}
            BY <1>11, <2>5 DEF DecDelete
        <3>2. /\ roles' \in [RoleIds -> RoleStates]
              /\ configured' \subseteq RoleIds
              /\ clientCfg' \subseteq RoleIds
            BY <2>2, <3>1 DEF TypeOK, RoleStates
        <3>3. CASE thr[c].i < Len(thr[c].names)
            <4>1. FrameStep(c, "dec_delete", thr[c].insts, thr[c].names,
                            thr[c].snap, thr[c].i + 1, thr[c].j)
                <5>1. thr' = [thr EXCEPT ![c].i = thr[c].i + 1]
                    BY <1>11, <2>5, <3>3, Zenon DEF DecDelete
                <5>2. thr[c].i + 1 \in Nat
                    BY <1>0 DEF Frame
                <5> QED
                    BY <1>0, <2>1, <5>1, <5>2, SetI
            <4>2. FrameOK(c)'
                BY <2>1, <2>2, <3>3, <4>1 DEF FrameOK, FrameStep
            <4> QED
                BY <2>1, <3>2, <4>1, <4>2, RoleStep
                DEF FrameStep, IInv, HostsOK, TypeOK, env
        <3>4. CASE ~(thr[c].i < Len(thr[c].names))
            <4>1. FrameStep(c, "idle", <<>>, <<>>, <<>>, 0, 0)
                BY <1>0, <1>11, <2>5, <3>4, ReturnStep DEF DecDelete
            <4>2. FrameOK(c)'
                BY <4>1 DEF FrameOK, FrameStep
            <4> QED
                BY <2>1, <2>2, <3>2, <4>1, <4>2, RoleStep
                DEF FrameStep, TypeOK, env
        <3> QED
            BY <3>3, <3>4
    <2> QED
        BY <2>4, <2>5
<1>12. ASSUME NEW c \in Callers, DelList(c) PROVE IInv'
    <2>1. thr[c].pc = "del_list" /\ UNCHANGED <<mgr, env>>
        BY <1>12 DEF DelList
    <2>2. PICK s \in Orderings(registered) :
              thr' = [thr EXCEPT ![c].pc = "del_scan", ![c].snap = s,
                                 ![c].i = 1]
        BY <1>12, Zenon DEF DelList
    <2>3. s \in Seq(registered) /\ s \in Seq(Hosts)
        <3>1. s \in Seq(registered)
            BY OrderingsAreSeqs
        <3>2. registered \subseteq Hosts
            BY DEF IInv, TypeOK
        <3> QED
            BY <3>1, <3>2, SeqMonotone
    <2>4. FrameStep(c, "del_scan", thr[c].insts, thr[c].names, s, 1,
                    thr[c].j)
        BY <1>0, <2>2, <2>3, SetPcSnapI DEF PCs
    <2>5. FrameOK(c)'
        BY <2>3, <2>4 DEF FrameOK, FrameStep
    <2>6. \A k \in DOMAIN s : s[k] \notin fresh
        BY <2>3 DEF IInv, HostsOK
    <2> QED
        BY <2>1, <2>4, <2>5, <2>6, FrameOnlyStep DEF FrameStep
<1>15. ASSUME NEW c \in Callers, UpdDeploy(c) PROVE IInv'
    <2>1. thr[c].pc = "upd_deploy" /\ UNCHANGED <<mgr, env>>
        BY <1>15 DEF UpdDeploy
    <2>2. CASE /\ ConvertRoleShowname[CurProc(c)] \in SupportedRoleTypes
               /\ roles[CurRole(c)] # "absent"
        <3>1. FrameStep(c, "upd_wait", thr[c].insts, thr[c].names,
                        thr[c].snap, thr[c].i, thr[c].j)
            BY <1>0, <1>15, <2>2, GotoStep DEF UpdDeploy, PCs
        <3>2. FrameOK(c)
            BY DEF IInv
        <3>3. CurInst(c) \in Hosts /\ thr[c].j \in 1..Len(NodeProcs[CurInst(c)])
            BY <1>0, <2>1, <3>2 DEF FrameOK, CurInst, Frame
        <3>4. ConvertRoleShowname[CurProc(c)] \in RoleTypes
            BY <2>2, <3>3, RoutedType DEF CurProc
        <3>5. FrameOK(c)'
            BY <2>1, <3>1, <3>2, <3>4 DEF FrameOK, FrameStep, CurProc, CurInst
        <3> QED
            BY <2>1, <3>1, <3>5, FrameOnlyStep DEF FrameStep, IInv, HostsOK
    <2>3. CASE ~(/\ ConvertRoleShowname[CurProc(c)] \in SupportedRoleTypes
                 /\ roles[CurRole(c)] # "absent")
        <3>1. FrameStep(c, "idle", <<>>, <<>>, <<>>, 0, 0)
            BY <1>0, <1>15, <2>3, ReturnStep DEF UpdDeploy
        <3>2. FrameOK(c)'
            BY <3>1 DEF FrameOK, FrameStep
        <3> QED
            BY <2>1, <3>1, <3>2, FrameOnlyStep DEF FrameStep
    <2> QED
        BY <2>2, <2>3
<1>13. ASSUME NEW c \in Callers, DelScan(c) PROVE IInv'
    <2> DEFINE h == thr[c].snap[thr[c].i]
    <2>1. /\ thr[c].pc = "del_scan"
          /\ UNCHANGED <<roles, configured, clientCfg, registered, env>>
        BY <1>13 DEF DelScan
    <2>2. FrameOK(c) /\ HostsOK /\ TypeOK
        BY DEF IInv
    <2>0. thr[c].i \in Nat /\ Len(thr[c].snap) \in Nat
        BY <1>0 DEF Frame
    <2>3. CASE thr[c].i > Len(thr[c].snap)
        <3>1. FrameStep(c, "idle", <<>>, <<>>, <<>>, 0, 0)
              /\ UNCHANGED members
            BY <1>0, <1>13, <2>3, ReturnStep DEF DelScan
        <3>2. FrameOK(c)'
            BY <3>1 DEF FrameOK, FrameStep
        <3> QED
            BY <2>1, <3>1, <3>2, FrameOnlyStep DEF FrameStep, mgr
    <2>4. CASE thr[c].i <= Len(thr[c].snap) /\ h \notin thr[c].targets
        <3>0. ~(thr[c].i > Len(thr[c].snap)) /\ thr[c].i + 1 \in Nat
            BY <2>0, <2>4
        <3>1. thr' = [thr EXCEPT ![c].i = thr[c].i + 1] /\ UNCHANGED members
            BY <1>13, <2>4, <3>0, Zenon DEF DelScan
        <3>2. FrameStep(c, "del_scan", thr[c].insts, thr[c].names,
                        thr[c].snap, thr[c].i + 1, thr[c].j)
            BY <1>0, <2>1, <3>0, <3>1, SetI
        <3>3. FrameOK(c)'
            BY <2>1, <2>2, <2>4, <3>2 DEF FrameOK, FrameStep
        <3> QED
            BY <2>1, <3>1, <3>2, <3>3, FrameOnlyStep
            DEF FrameStep, mgr, IInv, HostsOK
    <2>5. CASE /\ thr[c].i <= Len(thr[c].snap) /\ h \in thr[c].targets
               /\ h \notin members
        <3>1. FrameStep(c, "idle", <<>>, <<>>, <<>>, 0, 0)
              /\ UNCHANGED members
            BY <1>0, <1>13, <2>5, ReturnStep DEF DelScan
        <3>2. FrameOK(c)'
            BY <3>1 DEF FrameOK, FrameStep
        <3> QED
            BY <2>1, <3>1, <3>2, FrameOnlyStep DEF FrameStep, mgr
    <2>6. CASE /\ thr[c].i <= Len(thr[c].snap) /\ h \in thr[c].targets
               /\ h \in members
        <3>0. ~(thr[c].i > Len(thr[c].snap))
            BY <2>0, <2>6
        <3>1. members' = members \ {h} /\ Goto(c, "del_host")
            BY <1>13, <2>6, <3>0 DEF DelScan
        <3>2. FrameStep(c, "del_host", thr[c].insts, thr[c].names,
                        thr[c].snap, thr[c].i, thr[c].j)
            BY <1>0, <3>1, GotoStep DEF PCs
        <3>3. FrameOK(c)'
            BY <2>1, <2>2, <2>6, <3>2 DEF FrameOK, FrameStep
        <3>4. TypeOK'
            BY <2>1, <2>2, <3>1, <3>2 DEF TypeOK, FrameStep, env
        <3>5. \A d \in Callers : FrameOK(d)'
            BY <3>2, <3>3, AllFramesOK DEF FrameStep
        <3>6. HostsOK'
            BY <2>1, <2>2, <3>1, <3>2 DEF HostsOK, FrameStep, env
        <3>7. MembersRegistered'
            BY <2>1, <3>1 DEF IInv, MembersRegistered
        <3>8. \A d \in Callers :
                  thr'[d].pc = "del_host" =>
                      thr'[d].snap[thr'[d].i] \notin members' \cup joining'
            BY <2>1, <2>2, <2>6, <3>1, <3>2 DEF IInv, HostsOK, FrameStep, env
        <3> QED
            BY <3>4, <3>5, <3>6, <3>7, <3>8 DEF IInv
    <2> QED
        BY <2>0, <2>3, <2>4, <2>5, <2>6
<1>14. ASSUME NEW c \in Callers, DelHost(c) PROVE IInv'
    <2> DEFINE h == thr[c].snap[thr[c].i]
    <2>1. /\ thr[c].pc = "del_host"
          /\ UNCHANGED <<roles, configured, clientCfg, members, env>>
        BY <1>14 DEF DelHost
    <2>2. FrameOK(c) /\ HostsOK /\ TypeOK /\ h \notin members \cup joining
        BY <2>1 DEF IInv
    <2>3. CASE h \notin registered
        <3>1. FrameStep(c, "idle", <<>>, <<>>, <<>>, 0, 0)
              /\ UNCHANGED registered
            BY <1>0, <1>14, <2>3, ReturnStep DEF DelHost
        <3>2. FrameOK(c)'
            BY <3>1 DEF FrameOK, FrameStep
        <3> QED
            BY <2>1, <3>1, <3>2, FrameOnlyStep DEF FrameStep, mgr
    <2>4. CASE h \in registered
        <3>1. /\ registered' = registered \ {h}
              /\ thr' = [thr EXCEPT ![c].pc = "del_scan",
                                    ![c].i = thr[c].i + 1]
            BY <1>14, <2>4, Zenon DEF DelHost
        <3>2. FrameStep(c, "del_scan", thr[c].insts, thr[c].names,
                        thr[c].snap, thr[c].i + 1, thr[c].j)
            <4>1. thr[c].i + 1 \in Nat
                BY <1>0 DEF Frame
            <4> QED
                BY <1>0, <3>1, <4>1, SetPcI DEF PCs
        <3>3. FrameOK(c)'
            BY <2>1, <2>2, <3>2 DEF FrameOK, FrameStep
        <3>4. TypeOK'
            BY <2>1, <2>2, <3>1, <3>2 DEF TypeOK, FrameStep, env
        <3>5. \A d \in Callers : FrameOK(d)'
            BY <3>2, <3>3, AllFramesOK DEF FrameStep
        <3>6. HostsOK'
            BY <2>1, <2>2, <3>1, <3>2 DEF HostsOK, FrameStep, env
        <3>7. MembersRegistered'
            BY <2>1, <2>2, <3>1 DEF IInv, MembersRegistered
        <3>8. \A d \in Callers :
                  thr'[d].pc = "del_host" =>
                      thr'[d].snap[thr'[d].i] \notin members' \cup joining'
            BY <2>1, <3>2 DEF IInv, FrameStep, env
        <3> QED
            BY <3>4, <3>5, <3>6, <3>7, <3>8 DEF IInv
    <2> QED
        BY <2>3, <2>4
<1>16. ASSUME NEW c \in Callers, NEW r \in Cmd!Result, UpdWait(c, r)
       PROVE  IInv'
    <2>1. /\ thr[c].pc = "upd_wait"
          /\ clientCfg' = IF r.success THEN clientCfg \cup {CurRole(c)}
                          ELSE clientCfg
          /\ UNCHANGED <<roles, configured, registered, members, env>>
        BY <1>16 DEF UpdWait
    <2>2. FrameOK(c) /\ TypeOK
        BY DEF IInv
    <2>3. clientCfg' \subseteq RoleIds
        BY <1>0, <2>1, <2>2, CurRoleIsRole DEF TypeOK
    <2>4. CASE Cmd!Raises(r) \/ thr[c].j = Len(NodeProcs[CurInst(c)])
        <3>1. FrameStep(c, "idle", <<>>, <<>>, <<>>, 0, 0)
            BY <1>0, <1>16, <2>4, ReturnStep DEF UpdWait
        <3>2. FrameOK(c)'
            BY <3>1 DEF FrameOK, FrameStep
        <3> QED
            BY <2>1, <2>2, <2>3, <3>1, <3>2, RoleStep
            DEF FrameStep, TypeOK, env
    <2>5. CASE ~(Cmd!Raises(r) \/ thr[c].j = Len(NodeProcs[CurInst(c)]))
        <3>1. thr' = [thr EXCEPT ![c].pc = "upd_deploy", ![c].j = thr[c].j + 1]
            BY <1>16, <2>5, Zenon DEF UpdWait
        <3>2. FrameStep(c, "upd_deploy", thr[c].insts, thr[c].names,
                        thr[c].snap, thr[c].i, thr[c].j + 1)
            <4>1. thr[c].j + 1 \in Nat
                BY <1>0 DEF Frame
            <4> QED
                BY <1>0, <3>1, <4>1, SetPcJ DEF PCs
        <3>3. FrameOK(c)'
            <4>1. /\ thr'[c].pc = "upd_deploy" /\ thr'[c].insts = thr[c].insts
                  /\ thr'[c].i = thr[c].i /\ thr'[c].j = thr[c].j + 1
                BY <3>2 DEF FrameStep
            <4>2. /\ thr[c].i \in 1..Len(thr[c].insts)
                  /\ thr[c].j \in 1..Len(NodeProcs[CurInst(c)])
                BY <2>1, <2>2 DEF FrameOK, CurInst
            <4>3. thr[c].j + 1 \in 1..Len(NodeProcs[CurInst(c)])
                BY <2>5, <4>2
            <4> QED
                BY <4>1, <4>2, <4>3 DEF FrameOK, CurInst
        <3> QED
            BY <2>1, <2>2, <2>3, <3>2, <3>3, RoleStep
            DEF FrameStep, IInv, HostsOK, TypeOK, env
    <2> QED
        BY <2>4, <2>5
<1>17. ASSUME NEW c \in Callers, RemoteFails(c) PROVE IInv'
    <2>1. /\ failures < MaxFailures /\ failures' = failures + 1
          /\ IF thr[c].pc = "upd_wait"
             THEN \E ok \in BOOLEAN :
                     clientCfg' = IF ok THEN clientCfg \cup {CurRole(c)}
                                  ELSE clientCfg
             ELSE UNCHANGED clientCfg
          /\ addRaised' = IF \/ thr[c].pc = "update_config"
                             \/ thr[c].pc = "add_role" /\ roles' # roles
                          THEN addRaised \cup {CurRole(c)} ELSE addRaised
          /\ Return(c)
          /\ UNCHANGED <<configured, registered, members, fresh, joining>>
        BY <1>17 DEF RemoteFails
    <2>2. FrameOK(c) /\ TypeOK
        BY DEF IInv
    <2>3. roles' \in [RoleIds -> RoleStates] /\ addRaised' \subseteq RoleIds
        <3>1. CASE thr[c].pc = "dec_wait"
            <4>1. \E ok \in BOOLEAN : Decommissioned(c, ok)
                BY <1>17, <3>1 DEF RemoteFails
            <4> QED
                BY <2>1, <2>2, <3>1, <4>1 DEF Decommissioned, RoleStates,
                   TypeOK
        <3>2. CASE thr[c].pc = "add_role"
            <4>1. \/ UNCHANGED roles
                  \/ /\ CreateAccepted(c)
                     /\ roles' = [roles EXCEPT ![CurRole(c)] = "commissioned"]
                BY <1>17, <3>2 DEF RemoteFails
            <4>2. CASE UNCHANGED roles
                BY <2>1, <2>2, <3>2, <4>2 DEF TypeOK
            <4>3. CASE /\ CreateAccepted(c)
                       /\ roles' = [roles EXCEPT ![CurRole(c)] = "commissioned"]
                <5>1. CurInst(c) \in Hosts
                      /\ thr[c].j \in 1..Len(NodeProcs[CurInst(c)])
                    BY <1>0, <2>2, <3>2 DEF FrameOK, CurInst, Frame
                <5>2. ConvertRoleShowname[CurProc(c)] \in RoleTypes
                    BY <4>3, <5>1, RoutedType DEF CreateAccepted, CurProc
                <5>3. CurRole(c) \in RoleIds
                    BY <5>1, <5>2 DEF CurRole, RoleIds
                <5> QED
                    BY <2>1, <2>2, <4>3, <5>3 DEF TypeOK, RoleStates
            <4> QED
                BY <4>1, <4>2, <4>3
        <3>3. CASE thr[c].pc = "update_config"
            <4>1. UNCHANGED roles
                BY <1>17, <3>3 DEF RemoteFails
            <4> QED
                BY <1>0, <2>1, <2>2, <3>3, <4>1, CurRoleIsRole DEF TypeOK
        <3>4. CASE thr[c].pc \notin {"dec_wait", "add_role", "update_config"}
            <4>1. UNCHANGED roles
                BY <1>17, <3>4 DEF RemoteFails
            <4> QED
                BY <2>1, <2>2, <3>4, <4>1 DEF TypeOK
        <3> QED
            BY <3>1, <3>2, <3>3, <3>4
    <2>4. clientCfg' \subseteq RoleIds
        <3>1. CASE thr[c].pc = "upd_wait"
            BY <1>0, <2>1, <2>2, <3>1, CurRoleIsRole DEF TypeOK
        <3>2. CASE thr[c].pc # "upd_wait"
            BY <2>1, <2>2, <3>2 DEF TypeOK
        <3> QED
            BY <3>1, <3>2
    <2>5. failures' \in 0..MaxFailures
        BY <2>1, <2>2, NodeLifecycleAssumption DEF TypeOK
    <2>6. FrameStep(c, "idle", <<>>, <<>>, <<>>, 0, 0)
        BY <1>0, <2>1, ReturnStep
    <2>7. FrameOK(c)'
        BY <2>6 DEF FrameOK, FrameStep
    <2> QED
        BY <2>1, <2>2, <2>3, <2>4, <2>5, <2>6, <2>7, RoleStep
        DEF FrameStep, TypeOK
<1>18. ASSUME NEW h \in Hosts, AgentRegisters(h) PROVE IInv'
    <2>1. /\ h \in fresh /\ fresh' = fresh \ {h}
          /\ registered' = registered \cup {h} /\ joining' = joining \cup {h}
          /\ UNCHANGED <<roles, configured, clientCfg, members, failures,
                         addRaised, thr>>
        BY <1>18 DEF AgentRegisters
    <2>2. TypeOK' /\ HostsOK' /\ MembersRegistered'
        BY <2>1 DEF IInv, TypeOK, HostsOK, MembersRegistered
    <2>3. \A d \in Callers : FrameOK(d)'
        BY <2>1, FrameOKUnchanged DEF IInv
    <2>4. \A d \in Callers :
              thr'[d].pc = "del_host" =>
                  thr'[d].snap[thr'[d].i] \notin members' \cup joining'
        BY <1>0, <2>1 DEF IInv, HostsOK, FrameOK, Frame
    <2> QED
        BY <2>2, <2>3, <2>4 DEF IInv
<1>19. ASSUME NEW h \in Hosts, AddHostToCluster(h) PROVE IInv'
    <2>1. /\ h \in joining /\ joining' = joining \ {h}
          /\ members' = members \cup {h}
          /\ UNCHANGED <<roles, configured, clientCfg, registered, fresh,
                         failures, addRaised, thr>>
        BY <1>19 DEF AddHostToCluster
    <2>2. TypeOK' /\ HostsOK' /\ MembersRegistered'
        BY <2>1 DEF IInv, TypeOK, HostsOK, MembersRegistered
    <2>3. \A d \in Callers : FrameOK(d)'
        BY <2>1, FrameOKUnchanged DEF IInv
    <2>4. \A d \in Callers :
              thr'[d].pc = "del_host" =>
                  thr'[d].snap[thr'[d].i] \notin members' \cup joining'
        BY <2>1 DEF IInv
    <2> QED
        BY <2>2, <2>3, <2>4 DEF IInv
<1>20. CASE UNCHANGED vars
    <2>1. \A d \in Callers : FrameOK(d)'
        BY <1>20, FrameOKUnchanged DEF IInv, vars
    <2> QED
        BY <1>20, <2>1 DEF IInv, TypeOK, HostsOK, MembersRegistered, vars,
           mgr, env
<1> QED
    BY <1>1, <1>2, <1>3, <1>4, <1>5, <1>6, <1>7, <1>8, <1>9, <1>10, <1>11,
       <1>12, <1>13, <1>14, <1>15, <1>16, <1>17, <1>18, <1>19, <1>20
    DEF Next
-----------------------------------------------------------------------------
(***************************************************************************)
(* The roles _add_role leaves half done.  UnconfiguredRoleAccounted is    *)
(* inductive once a configured role is known to exist: update_config      *)
(* marks a role configured only when the manager still has it, and        *)
(* delete_role forgets the configuration with the role.                   *)
(***************************************************************************)
ConfiguredPresent == \A r \in configured : roles[r] # "absent"

RInv == ConfiguredPresent /\ UnconfiguredRoleAccounted

\* The role a thread's frame is at reads that frame alone.
LEMMA CurRoleUnchanged ==
    ASSUME NEW d, thr'[d] = thr[d]
    PROVE  CurRole(d)' = CurRole(d)
BY DEF CurRole, CurProc, CurInst

(* A step that deletes and configures no role, creates one only if it    *)
(* records it as raised, forgets no raised _add_role, and moves one       *)
(* thread c, neither into nor out of update_config, keeps RInv.           *)
LEMMA QuietStep ==
    ASSUME RInv, TypeOK, NEW c \in Callers,
           \A r \in RoleIds : roles[r] # "absent" => roles'[r] # "absent",
           \A r \in RoleIds : roles'[r] # "absent" =>
                                 roles[r] # "absent" \/ r \in addRaised',
           configured' = configured, addRaised \subseteq addRaised',
           \A d \in Callers \ {c} : thr'[d] = thr[d],
           thr[c].pc # "update_config", thr'[c].pc # "update_config"
    PROVE  RInv'
<1>1. ConfiguredPresent'
    BY DEF RInv, ConfiguredPresent, TypeOK
<1>2. UnconfiguredRoleAccounted'
    <2> SUFFICES ASSUME NEW r \in RoleIds, roles'[r] # "absent",
                        r \notin configured'
                 PROVE  \/ \E d \in Callers : /\ thr'[d].pc = "update_config"
                                              /\ CurRole(d)' = r
                        \/ r \in addRaised'
        BY DEF UnconfiguredRoleAccounted
    <2>0. CASE r \in addRaised'
        BY <2>0
    <2> SUFFICES ASSUME r \notin addRaised'
                 PROVE  \E d \in Callers : /\ thr'[d].pc = "update_config"
                                            /\ CurRole(d)' = r
        BY <2>0
    <2>1. \/ \E d \in Callers : thr[d].pc = "update_config" /\ CurRole(d) = r
          \/ r \in addRaised
        BY DEF RInv, UnconfiguredRoleAccounted
    <2>2. CASE r \in addRaised
        BY <2>2
    <2>3. CASE \E d \in Callers : thr[d].pc = "update_config" /\ CurRole(d) = r
        <3>1. PICK d \in Callers : thr[d].pc = "update_config" /\ CurRole(d) = r
            BY <2>3
        <3>2. thr'[d] = thr[d]
            BY <3>1
        <3> QED
            BY <3>1, <3>2, CurRoleUnchanged
    <2> QED
        BY <2>1, <2>2, <2>3
<1> QED
    BY <1>1, <1>2 DEF RInv

\* The same, for a step that changes no role, configuration or raised call.
LEMMA QuietFrameStep ==
    ASSUME RInv, TypeOK, UNCHANGED <<roles, configured, addRaised>>,
           NEW c \in Callers, NEW l, NEW ins, NEW nms, NEW snp, NEW n, NEW m,
           thr[c].pc # "update_config", l # "update_config",
           FrameStep(c, l, ins, nms, snp, n, m)
    PROVE  RInv'
BY QuietStep DEF FrameStep

(* Thread c leaves update_config: the role it was at was deleted         *)
(* meanwhile, or is now configured, or its update_config raised.          *)
LEMMA LeaveConfigStep ==
    ASSUME RInv, TypeOK, NEW c \in Callers,
           thr[c].pc = "update_config", thr'[c].pc # "update_config",
           \A d \in Callers \ {c} : thr'[d] = thr[d],
           roles' = roles, configured \subseteq configured',
           addRaised \subseteq addRaised',
           \A r \in configured' : roles[r] # "absent",
           \/ roles[CurRole(c)] = "absent"
           \/ CurRole(c) \in configured'
           \/ CurRole(c) \in addRaised'
    PROVE  RInv'
<1>1. ConfiguredPresent'
    BY DEF ConfiguredPresent
<1>2. UnconfiguredRoleAccounted'
    <2> SUFFICES ASSUME NEW r \in RoleIds, roles'[r] # "absent",
                        r \notin configured'
                 PROVE  \/ \E d \in Callers : /\ thr'[d].pc = "update_config"
                                              /\ CurRole(d)' = r
                        \/ r \in addRaised'
        BY DEF UnconfiguredRoleAccounted
    <2>1. \/ \E d \in Callers : thr[d].pc = "update_config" /\ CurRole(d) = r
          \/ r \in addRaised
        BY DEF RInv, UnconfiguredRoleAccounted
    <2>2. CASE r \in addRaised
        BY <2>2
    <2>3. CASE \E d \in Callers : thr[d].pc = "update_config" /\ CurRole(d) = r
        <3>1. PICK d \in Callers : thr[d].pc = "update_config" /\ CurRole(d) = r
            BY <2>3
        <3>2. CASE d = c
            BY <3>1, <3>2
        <3>3. CASE d # c
            BY <3>1, <3>3, CurRoleUnchanged
        <3> QED
            BY <3>2, <3>3
    <2> QED
        BY <2>1, <2>2, <2>3
<1> QED
    BY <1>1, <1>2 DEF RInv

(* delete_role of r0 by a thread that is not configuring a role.          *)
LEMMA DropRoleStep ==
    ASSUME RInv, TypeOK, NEW c \in Callers, NEW r0 \in RoleIds,
           roles' = [roles EXCEPT ![r0] = "absent"],
           configured' = configured \ {r0}, addRaised' = addRaised,
           \A d \in Callers \ {c} : thr'[d] = thr[d],
           thr[c].pc # "update_config", thr'[c].pc # "update_config"
    PROVE  RInv'
<1>1. ConfiguredPresent'
    BY DEF RInv, ConfiguredPresent, TypeOK
<1>2. UnconfiguredRoleAccounted'
    <2> SUFFICES ASSUME NEW r \in RoleIds, roles'[r] # "absent",
                        r \notin configured'
                 PROVE  \/ \E d \in Callers : /\ thr'[d].pc = "update_config"
                                              /\ CurRole(d)' = r
                        \/ r \in addRaised'
        BY DEF UnconfiguredRoleAccounted
    <2>0. r # r0 /\ roles[r] # "absent" /\ r \notin configured
        BY DEF TypeOK
    <2>1. \/ \E d \in Callers : thr[d].pc = "update_config" /\ CurRole(d) = r
          \/ r \in addRaised
        BY <2>0 DEF RInv, UnconfiguredRoleAccounted
    <2>2. CASE r \in addRaised
        BY <2>2
    <2>3. CASE \E d \in Callers : thr[d].pc = "update_config" /\ CurRole(d) = r
        <3>1. PICK d \in Callers : thr[d].pc = "update_config" /\ CurRole(d) = r
            BY <2>3
        <3>2. d # c /\ thr'[d] = thr[d]
            BY <3>1
        <3> QED
            BY <3>1, <3>2, CurRoleUnchanged
    <2> QED
        BY <2>1, <2>2, <2>3
<1> QED
    BY <1>1, <1>2 DEF RInv

LEMMA NextRInv == IInv /\ RInv /\ [Next]_vars => RInv'
<1> SUFFICES ASSUME IInv, RInv, [Next]_vars PROVE RInv'
    OBVIOUS
<1>0. thr \in [Callers -> Frame] /\ TypeOK
    BY DEF IInv, TypeOK
<1>1. ASSUME NEW c \in Callers, NEW s \in Orderings(Hosts) \ {<<>>},
             ConfigureInstances(c, s)
      PROVE  RInv'
    <2>1. thr[c].pc = "idle" /\ UNCHANGED <<mgr, env>>
        BY <1>1 DEF ConfigureInstances
    <2>2. FrameStep(c, "add_role", s, thr[c].names, thr[c].snap, 1, 1)
        <3>1. s \in Seq(Hosts)
            BY OrderingsAreSeqs
        <3>2. thr' = [thr EXCEPT ![c].pc = "add_role", ![c].insts = s,
                                 ![c].i = 1, ![c].j = 1]
            BY <1>1, Zenon DEF ConfigureInstances
        <3> QED
            BY <1>0, <3>1, <3>2, EnterWithInsts DEF PCs
    <2> QED
        BY <1>0, <2>1, <2>2, QuietFrameStep DEF mgr, env
<1>2. ASSUME NEW c \in Callers, NEW t \in RoleTypes,
             NEW s \in Orderings({<<h, t>> : h \in Hosts}) \ {<<>>},
             DecommissionNodes(c, t, s)
      PROVE  RInv'
    <2>1. thr[c].pc = "idle" /\ UNCHANGED <<mgr, env>>
        BY <1>2 DEF DecommissionNodes
    <2>2. FrameStep(c, "dec_submit", thr[c].insts, s, thr[c].snap,
                    thr[c].i, thr[c].j)
        <3>1. s \in Seq(RoleIds)
            <4>1. s \in Seq({<<h, t>> : h \in Hosts})
                BY OrderingsAreSeqs
            <4>2. {<<h, t>> : h \in Hosts} \subseteq RoleIds
                BY DEF RoleIds
            <4> QED
                BY <4>1, <4>2, SeqMonotone
        <3>2. thr' = [thr EXCEPT ![c].pc = "dec_submit", ![c].proc = t,
                                 ![c].names = s]
            BY <1>2, Zenon DEF DecommissionNodes
        <3> QED
            BY <1>0, <3>1, <3>2, EnterWithNames DEF PCs
    <2> QED
        BY <1>0, <2>1, <2>2, QuietFrameStep DEF mgr, env
<1>3. ASSUME NEW c \in Callers, NEW hs \in SUBSET Hosts \ {{}},
             DeleteInstances(c, hs)
      PROVE  RInv'
    <2>1. thr[c].pc = "idle" /\ UNCHANGED <<mgr, env>>
        BY <1>3 DEF DeleteInstances
    <2>2. FrameStep(c, "del_list", thr[c].insts, thr[c].names, thr[c].snap,
                    thr[c].i, thr[c].j)
        <3>1. thr' = [thr EXCEPT ![c].pc = "del_list", ![c].targets = hs]
            BY <1>3, Zenon DEF DeleteInstances
        <3> QED
            BY <1>0, <3>1, EnterWithTargets DEF PCs
    <2> QED
        BY <1>0, <2>1, <2>2, QuietFrameStep DEF mgr, env
<1>4. ASSUME NEW c \in Callers, NEW h \in Hosts, UpdateConfigs(c, h)
      PROVE  RInv'
    <2>1. thr[c].pc = "idle" /\ UNCHANGED <<mgr, env>>
        BY <1>4 DEF UpdateConfigs
    <2>2. FrameStep(c, "upd_deploy", <<h>>, thr[c].names, thr[c].snap, 1, 1)
        <3>1. thr' = [thr EXCEPT ![c].pc = "upd_deploy", ![c].insts = <<h>>,
                                 ![c].i = 1, ![c].j = 1]
            BY <1>4, Zenon DEF UpdateConfigs
        <3>2. <<h>> \in Seq(Hosts)
            OBVIOUS
        <3> QED
            BY <1>0, <3>1, <3>2, EnterWithInsts DEF PCs
    <2> QED
        BY <1>0, <2>1, <2>2, QuietFrameStep DEF mgr, env
<1>5. ASSUME NEW c \in Callers, AddRoleSkip(c) PROVE RInv'
    <2>1. thr[c].pc = "add_role" /\ UNCHANGED <<mgr, env>> /\ NextProcess(c)
        BY <1>5 DEF AddRoleSkip
    <2>2. /\ \A d \in Callers \ {c} : thr'[d] = thr[d]
          /\ thr'[c].pc \in {"add_role", "idle"}
        BY <1>0, <2>1, NextProcessOK DEF IInv
    <2> QED
        BY <1>0, <2>1, <2>2, QuietStep DEF mgr, env
<1>6. ASSUME NEW c \in Callers, AddRoleRaise(c) PROVE RInv'
    <2>1. thr[c].pc = "add_role" /\ UNCHANGED <<mgr, env>> /\ Return(c)
        BY <1>6 DEF AddRoleRaise
    <2>2. FrameStep(c, "idle", <<>>, <<>>, <<>>, 0, 0)
        BY <1>0, <2>1, ReturnStep
    <2> QED
        BY <1>0, <2>1, <2>2, QuietFrameStep DEF mgr, env
<1>7. ASSUME NEW c \in Callers, AddRole(c) PROVE RInv'
    <2>1. /\ thr[c].pc = "add_role"
          /\ ConvertRoleShowname[CurProc(c)] \in SupportedRoleTypes
          /\ roles[CurRole(c)] = "absent"
          /\ roles' = [roles EXCEPT ![CurRole(c)] = "commissioned"]
          /\ Goto(c, "update_config")
          /\ UNCHANGED <<configured, clientCfg, registered, members, env>>
        BY <1>7 DEF AddRole, CreateAccepted
    <2>2. FrameStep(c, "update_config", thr[c].insts, thr[c].names,
                    thr[c].snap, thr[c].i, thr[c].j)
        BY <1>0, <2>1, GotoStep DEF PCs
    <2>3. CurRole(c)' = CurRole(c)
        BY <2>2 DEF FrameStep, CurRole, CurProc, CurInst
    <2>4. CurRole(c) \in RoleIds
        <3>1. FrameOK(c)
            BY DEF IInv
        <3>2. CurInst(c) \in Hosts
              /\ thr[c].j \in 1..Len(NodeProcs[CurInst(c)])
            BY <1>0, <2>1, <3>1 DEF FrameOK, CurInst, Frame
        <3>3. ConvertRoleShowname[CurProc(c)] \in RoleTypes
            BY <2>1, <3>2, RoutedType DEF CurProc
        <3> QED
            BY <3>2, <3>3 DEF CurRole, RoleIds
    <2>5. ConfiguredPresent'
        BY <1>0, <2>1 DEF RInv, ConfiguredPresent, TypeOK
    <2>6. UnconfiguredRoleAccounted'
        <3> SUFFICES ASSUME NEW r \in RoleIds, roles'[r] # "absent",
                            r \notin configured'
                     PROVE  \/ \E d \in Callers :
                                   /\ thr'[d].pc = "update_config"
                                   /\ CurRole(d)' = r
                            \/ r \in addRaised'
            BY DEF UnconfiguredRoleAccounted
        <3>1. CASE r = CurRole(c)
            BY <2>2, <2>3, <3>1 DEF FrameStep
        <3>2. CASE r # CurRole(c)
            <4>1. roles[r] # "absent" /\ r \notin configured
                BY <2>1, <3>2
            <4>2. \/ \E d \in Callers : /\ thr[d].pc = "update_config"
                                        /\ CurRole(d) = r
                  \/ r \in addRaised
                BY <4>1 DEF RInv, UnconfiguredRoleAccounted
            <4>3. CASE r \in addRaised
                BY <2>1, <4>3 DEF env
            <4>4. CASE \E d \in Callers : /\ thr[d].pc = "update_config"
                                          /\ CurRole(d) = r
                <5>1. PICK d \in Callers : /\ thr[d].pc = "update_config"
                                           /\ CurRole(d) = r
                    BY <4>4
                <5>2. d # c /\ thr'[d] = thr[d]
                    BY <2>1, <2>2, <5>1 DEF FrameStep
                <5> QED
                    BY <5>1, <5>2, CurRoleUnchanged
            <4> QED
                BY <4>2, <4>3, <4>4
        <3> QED
            BY <3>1, <3>2
    <2> QED
        BY <2>5, <2>6 DEF RInv
<1>8. ASSUME NEW c \in Callers, UpdateConfig(c) PROVE RInv'
    <2>1. thr[c].pc = "update_config"
          /\ UNCHANGED <<roles, clientCfg, registered, members, env>>
        BY <1>8 DEF UpdateConfig
    <2>2. CASE roles[CurRole(c)] = "absent"
        <3>1. Return(c) /\ UNCHANGED configured
            BY <1>8, <2>2 DEF UpdateConfig
        <3>2. FrameStep(c, "idle", <<>>, <<>>, <<>>, 0, 0)
            BY <1>0, <3>1, ReturnStep
        <3> QED
            BY <1>0, <2>1, <2>2, <3>1, <3>2, LeaveConfigStep
            DEF FrameStep, env, RInv, ConfiguredPresent
    <2>3. CASE roles[CurRole(c)] # "absent"
        <3>1. configured' = configured \cup {CurRole(c)} /\ NextProcess(c)
            BY <1>8, <2>3 DEF UpdateConfig
        <3>2. /\ \A d \in Callers \ {c} : thr'[d] = thr[d]
              /\ thr'[c].pc \in {"add_role", "idle"}
            BY <1>0, <2>1, <3>1, NextProcessOK DEF IInv
        <3> QED
            BY <1>0, <2>1, <2>3, <3>1, <3>2, LeaveConfigStep
            DEF env, RInv, ConfiguredPresent
    <2> QED
        BY <2>2, <2>3
<1>9. ASSUME NEW c \in Callers, DecSubmit(c) PROVE RInv'
    <2>1. thr[c].pc = "dec_submit" /\ UNCHANGED <<mgr, env>>
        BY <1>9 DEF DecSubmit
    <2>2. CASE DecommissionAccepted(c)
        <3>1. FrameStep(c, "dec_wait", thr[c].insts, thr[c].names,
                        thr[c].snap, thr[c].i, thr[c].j)
            BY <1>0, <1>9, <2>2, GotoStep DEF DecSubmit, PCs
        <3> QED
            BY <1>0, <2>1, <3>1, QuietFrameStep DEF mgr, env
    <2>3. CASE ~DecommissionAccepted(c)
        <3>1. FrameStep(c, "idle", <<>>, <<>>, <<>>, 0, 0)
            BY <1>0, <1>9, <2>3, ReturnStep DEF DecSubmit
        <3> QED
            BY <1>0, <2>1, <3>1, QuietFrameStep DEF mgr, env
    <2> QED
        BY <2>2, <2>3
<1>10. ASSUME NEW c \in Callers, DecWait(c) PROVE RInv'
    <2>1. /\ thr[c].pc = "dec_wait"
          /\ \E ok \in BOOLEAN : Decommissioned(c, ok)
          /\ UNCHANGED <<configured, clientCfg, registered, members, env>>
        BY <1>10 DEF DecWait
    <2>2. FrameStep(c, "dec_delete", thr[c].insts, thr[c].names,
                    thr[c].snap, 1, thr[c].j)
        <3>1. thr' = [thr EXCEPT ![c].pc = "dec_delete", ![c].i = 1]
            BY <1>10, Zenon DEF DecWait
        <3> QED
            BY <1>0, <3>1, SetPcI DEF PCs
    <2>3. \A r \in RoleIds : roles'[r] = "absent" <=> roles[r] = "absent"
        BY <2>1 DEF Decommissioned
    <2> QED
        BY <1>0, <2>1, <2>2, <2>3, QuietStep DEF FrameStep, env
<1>11. ASSUME NEW c \in Callers, DecDelete(c) PROVE RInv'
    <2> DEFINE r == thr[c].names[thr[c].i]
    <2>1. thr[c].pc = "dec_delete" /\ UNCHANGED <<registered, members, env>>
        BY <1>11 DEF DecDelete
    <2>2. CASE roles[r] = "absent"
        <3>1. Return(c) /\ UNCHANGED <<roles, configured, clientCfg>>
            BY <1>11, <2>2 DEF DecDelete
        <3>2. FrameStep(c, "idle", <<>>, <<>>, <<>>, 0, 0)
            BY <1>0, <3>1, ReturnStep
        <3> QED
            BY <1>0, <2>1, <3>1, <3>2, QuietFrameStep DEF env
    <2>3. CASE roles[r] # "absent"
        <3>1. /\ roles' = [roles EXCEPT ![r] = "absent"]
              /\ configured' = configured \ {r}
            BY <1>11, <2>3 DEF DecDelete
        <3>2. r \in RoleIds
            BY <1>0, <2>1 DEF IInv, FrameOK, Frame
        <3>3. /\ \A d \in Callers \ {c} : thr'[d] = thr[d]
              /\ thr'[c].pc \in {"dec_delete", "idle"}
            <4>1. CASE thr[c].i < Len(thr[c].names)
                <5>1. thr' = [thr EXCEPT ![c].i = thr[c].i + 1]
                    BY <1>11, <2>3, <4>1, Zenon DEF DecDelete
                <5>2. thr[c].i + 1 \in Nat
                    BY <1>0 DEF Frame
                <5> QED
                    BY <1>0, <2>1, <5>1, <5>2, SetI DEF FrameStep
            <4>2. CASE ~(thr[c].i < Len(thr[c].names))
                <5>1. FrameStep(c, "idle", <<>>, <<>>, <<>>, 0, 0)
                    BY <1>0, <1>11, <2>3, <4>2, ReturnStep DEF DecDelete
                <5> QED
                    BY <5>1 DEF FrameStep
            <4> QED
                BY <4>1, <4>2
        <3> QED
            BY <1>0, <2>1, <3>1, <3>2, <3>3, DropRoleStep DEF env
    <2> QED
        BY <2>2, <2>3
<1>12. ASSUME NEW c \in Callers, DelList(c) PROVE RInv'
    <2>1. thr[c].pc = "del_list" /\ UNCHANGED <<mgr, env>>
        BY <1>12 DEF DelList
    <2>2. PICK s \in Orderings(registered) :
              thr' = [thr EXCEPT ![c].pc = "del_scan", ![c].snap = s,
                                 ![c].i = 1]
        BY <1>12, Zenon DEF DelList
    <2>3. s \in Seq(Hosts)
        <3>1. s \in Seq(registered)
            BY OrderingsAreSeqs
        <3> QED
            BY <1>0, <3>1, SeqMonotone DEF TypeOK
    <2>4. FrameStep(c, "del_scan", thr[c].insts, thr[c].names, s, 1,
                    thr[c].j)
        BY <1>0, <2>2, <2>3, SetPcSnapI DEF PCs
    <2> QED
        BY <1>0, <2>1, <2>4, QuietFrameStep DEF mgr, env
<1>13. ASSUME NEW c \in Callers, DelScan(c) PROVE RInv'
    <2> DEFINE h == thr[c].snap[thr[c].i]
    <2>1. /\ thr[c].pc = "del_scan"
          /\ UNCHANGED <<roles, configured, clientCfg, registered, env>>
        BY <1>13 DEF DelScan
    <2>0. thr[c].i \in Nat /\ Len(thr[c].snap) \in Nat
        BY <1>0 DEF Frame
    <2>2. CASE \/ thr[c].i > Len(thr[c].snap)
               \/ thr[c].i <= Len(thr[c].snap) /\ h \in thr[c].targets
                  /\ h \notin members
        <3>1. FrameStep(c, "idle", <<>>, <<>>, <<>>, 0, 0)
            BY <1>0, <1>13, <2>0, <2>2, ReturnStep DEF DelScan
        <3> QED
            BY <1>0, <2>1, <3>1, QuietFrameStep DEF env
    <2>3. CASE thr[c].i <= Len(thr[c].snap) /\ h \notin thr[c].targets
        <3>0. ~(thr[c].i > Len(thr[c].snap)) /\ thr[c].i + 1 \in Nat
            BY <2>0, <2>3
        <3>1. thr' = [thr EXCEPT ![c].i = thr[c].i + 1]
            BY <1>13, <2>3, <3>0, Zenon DEF DelScan
        <3>2. FrameStep(c, "del_scan", thr[c].insts, thr[c].names,
                        thr[c].snap, thr[c].i + 1, thr[c].j)
            BY <1>0, <2>1, <3>0, <3>1, SetI
        <3> QED
            BY <1>0, <2>1, <3>2, QuietFrameStep DEF env
    <2>4. CASE /\ thr[c].i <= Len(thr[c].snap) /\ h \in thr[c].targets
               /\ h \in members
        <3>0. ~(thr[c].i > Len(thr[c].snap))
            BY <2>0, <2>4
        <3>1. Goto(c, "del_host")
            BY <1>13, <2>4, <3>0 DEF DelScan
        <3>2. FrameStep(c, "del_host", thr[c].insts, thr[c].names,
                        thr[c].snap, thr[c].i, thr[c].j)
            BY <1>0, <3>1, GotoStep DEF PCs
        <3> QED
            BY <1>0, <2>1, <3>2, QuietFrameStep DEF env
    <2> QED
        BY <2>0, <2>2, <2>3, <2>4
<1>14. ASSUME NEW c \in Callers, DelHost(c) PROVE RInv'
    <2> DEFINE h == thr[c].snap[thr[c].i]
    <2>1. /\ thr[c].pc = "del_host"
          /\ UNCHANGED <<roles, configured, clientCfg, members, env>>
        BY <1>14 DEF DelHost
    <2>2. CASE h \notin registered
        <3>1. FrameStep(c, "idle", <<>>, <<>>, <<>>, 0, 0)
            BY <1>0, <1>14, <2>2, ReturnStep DEF DelHost
        <3> QED
            BY <1>0, <2>1, <3>1, QuietFrameStep DEF env
    <2>3. CASE h \in registered
        <3>1. thr' = [thr EXCEPT ![c].pc = "del_scan", ![c].i = thr[c].i + 1]
            BY <1>14, <2>3, Zenon DEF DelHost
        <3>2. thr[c].i + 1 \in Nat
            BY <1>0 DEF Frame
        <3>3. FrameStep(c, "del_scan", thr[c].insts, thr[c].names,
                        thr[c].snap, thr[c].i + 1, thr[c].j)
            BY <1>0, <3>1, <3>2, SetPcI DEF PCs
        <3> QED
            BY <1>0, <2>1, <3>3, QuietFrameStep DEF env
    <2> QED
        BY <2>2, <2>3
<1>15. ASSUME NEW c \in Callers, UpdDeploy(c) PROVE RInv'
    <2>1. thr[c].pc = "upd_deploy" /\ UNCHANGED <<mgr, env>>
        BY <1>15 DEF UpdDeploy
    <2>2. CASE /\ ConvertRoleShowname[CurProc(c)] \in SupportedRoleTypes
               /\ roles[CurRole(c)] # "absent"
        <3>1. FrameStep(c, "upd_wait", thr[c].insts, thr[c].names,
                        thr[c].snap, thr[c].i, thr[c].j)
            BY <1>0, <1>15, <2>2, GotoStep DEF UpdDeploy, PCs
        <3> QED
            BY <1>0, <2>1, <3>1, QuietFrameStep DEF mgr, env
    <2>3. CASE ~(/\ ConvertRoleShowname[CurProc(c)] \in SupportedRoleTypes
                 /\ roles[CurRole(c)] # "absent")
        <3>1. FrameStep(c, "idle", <<>>, <<>>, <<>>, 0, 0)
            BY <1>0, <1>15, <2>3, ReturnStep DEF UpdDeploy
        <3> QED
            BY <1>0, <2>1, <3>1, QuietFrameStep DEF mgr, env
    <2> QED
        BY <2>2, <2>3
<1>16. ASSUME NEW c \in Callers, NEW r \in Cmd!Result, UpdWait(c, r)
       PROVE  RInv'
    <2>1. /\ thr[c].pc = "upd_wait"
          /\ UNCHANGED <<roles, configured, registered, members, env>>
        BY <1>16 DEF UpdWait
    <2>2. CASE Cmd!Raises(r) \/ thr[c].j = Len(NodeProcs[CurInst(c)])
        <3>1. FrameStep(c, "idle", <<>>, <<>>, <<>>, 0, 0)
            BY <1>0, <1>16, <2>2, ReturnStep DEF UpdWait
        <3> QED
            BY <1>0, <2>1, <3>1, QuietFrameStep DEF env
    <2>3. CASE ~(Cmd!Raises(r) \/ thr[c].j = Len(NodeProcs[CurInst(c)]))
        <3>1. thr' = [thr EXCEPT ![c].pc = "upd_deploy", ![c].j = thr[c].j + 1]
            BY <1>16, <2>3, Zenon DEF UpdWait
        <3>2. thr[c].j + 1 \in Nat
            BY <1>0 DEF Frame
        <3>3. FrameStep(c, "upd_deploy", thr[c].insts, thr[c].names,
                        thr[c].snap, thr[c].i, thr[c].j + 1)
            BY <1>0, <3>1, <3>2, SetPcJ DEF PCs
        <3> QED
            BY <1>0, <2>1, <3>3, QuietFrameStep DEF env
    <2> QED
        BY <2>2, <2>3
<1>17. ASSUME NEW c \in Callers, RemoteFails(c) PROVE RInv'
    <2>1. /\ addRaised' = IF \/ thr[c].pc = "update_config"
                             \/ thr[c].pc = "add_role" /\ roles' # roles
                          THEN addRaised \cup {CurRole(c)} ELSE addRaised
          /\ Return(c)
          /\ UNCHANGED configured
        BY <1>17 DEF RemoteFails
    <2>2. FrameStep(c, "idle", <<>>, <<>>, <<>>, 0, 0)
        BY <1>0, <2>1, ReturnStep
    <2>3. CASE thr[c].pc = "update_config"
        <3>1. UNCHANGED roles
            BY <1>17, <2>3 DEF RemoteFails
        <3> QED
            BY <1>0, <2>1, <2>2, <2>3, <3>1, LeaveConfigStep
            DEF FrameStep, RInv, ConfiguredPresent
    <2>4. CASE thr[c].pc = "dec_wait"
        <3>1. \E ok \in BOOLEAN : Decommissioned(c, ok)
            BY <1>17, <2>4 DEF RemoteFails
        <3>2. \A r \in RoleIds : roles'[r] = "absent" <=> roles[r] = "absent"
            BY <3>1 DEF Decommissioned
        <3> QED
            BY <1>0, <2>1, <2>2, <2>4, <3>2, QuietStep DEF FrameStep
    <2>5. CASE thr[c].pc = "add_role"
        <3>1. \/ UNCHANGED roles
              \/ roles' = [roles EXCEPT ![CurRole(c)] = "commissioned"]
            BY <1>17, <2>5 DEF RemoteFails
        <3>2. \A r \in RoleIds : roles[r] # "absent" => roles'[r] # "absent"
            BY <1>0, <3>1 DEF TypeOK
        <3>3. \A r \in RoleIds : roles'[r] # "absent" =>
                                     roles[r] # "absent" \/ r \in addRaised'
            BY <1>0, <2>1, <2>5, <3>1 DEF TypeOK
        <3> QED
            BY <1>0, <2>1, <2>2, <2>5, <3>2, <3>3, QuietStep DEF FrameStep
    <2>6. CASE thr[c].pc \notin {"dec_wait", "add_role", "update_config"}
        <3>1. UNCHANGED roles
            BY <1>17, <2>6 DEF RemoteFails
        <3> QED
            BY <1>0, <2>1, <2>2, <2>6, <3>1, QuietStep DEF FrameStep
    <2> QED
        BY <2>3, <2>4, <2>5, <2>6
<1>18. ASSUME NEW h \in Hosts, AgentRegisters(h) PROVE RInv'
    <2>1. UNCHANGED <<roles, configured, addRaised, thr>>
        BY <1>18 DEF AgentRegisters
    <2> QED
        BY <2>1 DEF RInv, ConfiguredPresent, UnconfiguredRoleAccounted,
           CurRole, CurProc, CurInst
<1>19. ASSUME NEW h \in Hosts, AddHostToCluster(h) PROVE RInv'
    <2>1. UNCHANGED <<roles, configured, addRaised, thr>>
        BY <1>19 DEF AddHostToCluster
    <2> QED
        BY <2>1 DEF RInv, ConfiguredPresent, UnconfiguredRoleAccounted,
           CurRole, CurProc, CurInst
<1>20. CASE UNCHANGED vars
    BY <1>20 DEF vars, mgr, env, RInv, ConfiguredPresent,
       UnconfiguredRoleAccounted, CurRole, CurProc, CurInst
<1> QED
    BY <1>1, <1>2, <1>3, <1>4, <1>5, <1>6, <1>7, <1>8, <1>9, <1>10, <1>11,
       <1>12, <1>13, <1>14, <1>15, <1>16, <1>17, <1>18, <1>19, <1>20
    DEF Next

LEMMA InitRInv == Init => RInv
BY DEF Init, RInv, ConfiguredPresent, UnconfiguredRoleAccounted
-----------------------------------------------------------------------------
(* The manager's state, the provisioning layer's and every thread's frame *)
(* keep their types through every interleaving of configure_instances,    *)
(* decommission_nodes, delete_instances and update_configs, whichever    *)
(* remote calls raise.                                                    *)
THEOREM NodeTypeCorrect == Spec => []TypeOK
<1>1. IInv => TypeOK
    BY DEF IInv
<1> QED
    BY <1>1, InitIInv, NextIInv, PTL DEF Spec

(* Every host of the Cloudera cluster is known to the manager in every    *)
(* reachable state, for any number of hosts, threads and failures:       *)
(* delete_instances calls remove_host before delete_host (lines 103-104), *)
(* and no other thread or the provisioning layer puts the host back.     *)
THEOREM MembersAlwaysRegistered == Spec => []MembersRegistered
<1>1. IInv => MembersRegistered
    BY DEF IInv
<1> QED
    BY <1>1, InitIInv, NextIInv, PTL DEF Spec

(* Spec 3.2, for every number of hosts, threads and failed calls: a role  *)
(* _add_role created and did not configure is still waiting for its      *)
(* update_config, or that update_config raised to the caller.            *)
THEOREM HalfDoneRolesAccounted == Spec => []UnconfiguredRoleAccounted
<1>1. IInv /\ RInv => UnconfiguredRoleAccounted
    BY DEF RInv
<1>2. Init => IInv /\ RInv
    BY InitIInv, InitRInv
<1>3. IInv /\ RInv /\ [Next]_vars => (IInv /\ RInv)'
    BY NextIInv, NextRInv
<1> QED
    BY <1>1, <1>2, <1>3, PTL DEF Spec
=============================================================================
