------------------------- MODULE PartControlProofs -------------------------
(***************************************************************************)
(* Proofs about the registration of the motors, the counters of the        *)
(* command groups and the frames of set_can_current, for configurations of *)
(* any ids and any number of joints that two counts each fit the counters. *)
(***************************************************************************)
EXTENDS PartControl, FiniteSetTheorems, TLAPS

-----------------------------------------------------------------------------
(* The invariants. *)

\* Where the two tasks are, and which joint each of them counts.
TasksOK ==
  /\ config \in Configs
  /\ nreg \in 0..Len(config)
  /\ online \in [Joint -> BOOLEAN]
  /\ cnt \in [Group -> 0..(CntMod - 1)]
  /\ rpc \in {"add", "load", "store", "send"}
  /\ rpc \in {"load", "store"} => nreg > 0
  /\ rpc = "send" => nreg = Len(config)
  /\ rreg \in 0..(CntMod - 1)
  /\ mpc \in {"idle", "load", "store"}
  /\ mpc # "idle" => mi \in Registered
  /\ mreg \in 0..(CntMod - 1)
  /\ lost \subseteq Group

\* No joint twice, and counters that are exact until one of their
\* updates is lost.
CountInv == TasksOK /\ FeedbackIdsDistinct /\ GroupCounts

\* The frames of the groups that this round of set_can_current has passed.
RoundSent ==
  /\ sj \in 0..4
  /\ rpc # "send" => sj = 0
  /\ \A i \in Registered :
       LET g == GroupOf(IdAt(i)) IN g \in lost \/ g >= sj \/ CurrentFrame(g) \in sent

\* Every joint has a slot, and some joint is counted in the group that sends it.
\* The shipped configuration has it: id 4, which is counted in group 1 and sent
\* with group 0, comes with 1, 2 and 3, and there is no id 8.
SlotsServed ==
  \A c \in Configs : \A i \in 1..Len(c) :
    c[i] # 8 /\ \E j \in 1..Len(c) : GroupOf(c[j]) = Bearer(c[i])

-----------------------------------------------------------------------------
(* Configurations and sets of joints. *)

\* Registered joints are places of the configuration, and their groups exist.
LEMMA Places ==
  ASSUME TasksOK
  PROVE  /\ Len(config) \in Nat /\ Len(config) <= MaxJoint
         /\ nreg \in Nat /\ nreg <= MaxJoint
         /\ Registered \subseteq Joint
         /\ \A i \in 1..Len(config) : config[i] \in 1..11 /\ GroupOf(config[i]) \in Group
         /\ \A i \in Registered : GroupOf(IdAt(i)) \in Group
<1>1. config \in Seq(1..11) /\ Len(config) <= MaxJoint /\ MaxJoint \in Nat
  BY ConfigAssumption DEF TasksOK
<1>2. Len(config) \in Nat /\ \A i \in 1..Len(config) : config[i] \in 1..11
  BY <1>1
<1>3. \A n \in 1..11 : GroupOf(n) \in Group
  BY DEF GroupOf, Group
<1>4. nreg \in Nat /\ nreg <= Len(config) /\ nreg <= MaxJoint
  BY <1>1, <1>2 DEF TasksOK
<1>5. Registered \subseteq Joint /\ Registered \subseteq 1..Len(config)
  BY <1>1, <1>2, <1>4 DEF Registered, Joint
<1>6. \A i \in 1..Len(config) : config[i] \in 1..11 /\ GroupOf(config[i]) \in Group
  BY <1>2, <1>3
<1> QED BY <1>1, <1>2, <1>4, <1>5, <1>6 DEF IdAt

\* A set of registered joints has no more elements than there are joints.
LEMMA JointSets ==
  ASSUME TasksOK, NEW S \in SUBSET Registered
  PROVE  IsFiniteSet(S) /\ Cardinality(S) \in Nat /\ Cardinality(S) <= MaxJoint
<1>1. nreg \in Nat /\ nreg <= MaxJoint /\ MaxJoint \in Nat
  BY Places, ConfigAssumption DEF TasksOK
<1>2. IsFiniteSet(Registered) /\ Cardinality(Registered) <= MaxJoint
      /\ Cardinality(Registered) \in Nat
  <2>1. /\ IsFiniteSet(1..nreg)
        /\ Cardinality(1..nreg) = IF 1 > nreg THEN 0 ELSE nreg - 1 + 1
    <3>1. 1 \in Int /\ nreg \in Int
      BY <1>1
    <3> QED BY <3>1, FS_Interval
  <2> QED BY <1>1, <2>1 DEF Registered
<1>3. IsFiniteSet(S) /\ Cardinality(S) <= Cardinality(Registered)
  BY <1>2, FS_Subset
<1> QED BY <1>1, <1>2, <1>3, FS_CardinalityType

\* The two sets behind a counter, and how many joints are in them.
LEMMA CountedSets ==
  ASSUME TasksOK, NEW g \in Group
  PROVE  /\ IsFiniteSet(Counted(g)) /\ IsFiniteSet(OnlineCounted(g))
         /\ Cardinality(Counted(g)) \in 0..MaxJoint
         /\ Cardinality(OnlineCounted(g)) \in 0..MaxJoint
<1>1. Counted(g) \in SUBSET Registered /\ OnlineCounted(g) \in SUBSET Registered
  BY DEF Counted, OnlineCounted
<1> QED BY <1>1, JointSets, ConfigAssumption

-----------------------------------------------------------------------------
(* Steps that leave the counters and what they count alone. *)

\* The sets behind the counters depend on nothing else.
LEMMA CountsKept ==
  ASSUME CountInv, TasksOK',
         UNCHANGED <<config, nreg, online, cnt, lost, mi>>,
         mpc' = mpc \/ (mpc = "load" /\ mpc' = "store"),
         rpc' = rpc \/ (rpc = "load" /\ rpc' = "store")
  PROVE  CountInv'
<1>1. \A g : Counted(g)' = Counted(g)
  BY DEF Counted, Registered, IdAt
<1>2. \A g : OnlineCounted(g)' = OnlineCounted(g)
  BY DEF OnlineCounted, Registered, IdAt
<1>3. GroupCounts'
  BY <1>1, <1>2, Zenon DEF CountInv, GroupCounts
<1> QED BY <1>3 DEF CountInv, FeedbackIdsDistinct, Registered, IdAt

\* The loads of set_online_cnt, and everything that set_can_current and the
\* CAN controller do.
LEMMA CountOthers ==
  CountInv /\ (JointLoad \/ CountLoad \/ Send \/ Transmit \/ UNCHANGED vars) => CountInv'
<1> SUFFICES ASSUME CountInv,
                    JointLoad \/ CountLoad \/ Send \/ Transmit \/ UNCHANGED vars
             PROVE  CountInv'
  OBVIOUS
<1>1. CASE UNCHANGED counter
  <2>1. UNCHANGED <<config, nreg, online, cnt, mpc, mi, mreg, rpc, rreg, lost>>
    BY <1>1 DEF counter
  <2>2. TasksOK'
    BY <2>1 DEF CountInv, TasksOK, Registered
  <2> QED BY <2>1, <2>2, CountsKept
<1>2. CASE JointLoad
  <2>1. /\ UNCHANGED <<config, nreg, online, cnt, mpc, mi, mreg, lost>>
        /\ rpc = "load" /\ rpc' = "store" /\ rreg' = cnt[GroupOf(IdAt(nreg))]
    BY <1>2 DEF JointLoad
  <2>2. rreg' \in 0..(CntMod - 1)
    <3>1. nreg \in Registered
      BY <2>1, Places DEF CountInv, TasksOK, Registered
    <3> QED BY <2>1, <3>1, Places DEF CountInv, TasksOK
  <2>3. TasksOK'
    BY <2>1, <2>2 DEF CountInv, TasksOK, Registered
  <2> QED BY <2>1, <2>3, CountsKept
<1>3. CASE CountLoad
  <2>1. /\ UNCHANGED <<config, nreg, online, cnt, mi, rpc, rreg, lost>>
        /\ mpc = "load" /\ mpc' = "store" /\ mreg' = cnt[GroupOf(IdAt(mi))]
    BY <1>3 DEF CountLoad
  <2>2. mreg' \in 0..(CntMod - 1)
    BY <2>1, Places DEF CountInv, TasksOK
  <2>3. TasksOK'
    BY <2>1, <2>2 DEF CountInv, TasksOK, Registered
  <2> QED BY <2>1, <2>3, CountsKept
<1>4. Send \/ Transmit \/ UNCHANGED vars => UNCHANGED counter
  BY DEF Send, SendGroup, NextRound, Transmit, vars
<1> QED BY <1>1, <1>2, <1>3, <1>4

-----------------------------------------------------------------------------
(* Steps that change what is counted, or a counter. *)

\* joint_add registers a joint whose id is new; it is offline and not counted.
LEMMA CountAdd == CountInv /\ JointAdd => CountInv'
<1> SUFFICES ASSUME CountInv, JointAdd PROVE CountInv'
  OBVIOUS
<1> USE DEF CountInv
<1>1. CASE UNCHANGED <<nreg, online, rpc>>
  <2>1. UNCHANGED <<config, nreg, online, cnt, mpc, mi, mreg, rpc, rreg, lost>>
    BY <1>1 DEF JointAdd
  <2>2. TasksOK'
    BY <2>1 DEF TasksOK, Registered
  <2> QED BY <2>1, <2>2, CountsKept
<1>2. CASE ~UNCHANGED <<nreg, online, rpc>>
  <2>1. /\ rpc = "add" /\ rpc' = "load" /\ nreg' = nreg + 1 /\ nreg < Len(config)
        /\ online' = [online EXCEPT ![nreg + 1] = FALSE]
        /\ UNCHANGED <<config, cnt, mpc, mi, mreg, rreg, lost>>
        /\ \A i \in Registered : IdAt(i) # config[nreg + 1]
    BY <1>2 DEF JointAdd
  <2>2. nreg \in Nat /\ Len(config) \in Nat /\ Len(config) <= MaxJoint /\ MaxJoint \in Nat
    BY Places, ConfigAssumption
  <2>3. /\ Registered' = Registered \union {nreg + 1} /\ nreg + 1 \notin Registered
        /\ nreg + 1 \in Joint
    BY <2>1, <2>2 DEF Registered, Joint
  <2>4. TasksOK'
    <3>1. online' \in [Joint -> BOOLEAN]
      BY <2>1, <2>3 DEF TasksOK
    <3>2. nreg' \in 0..Len(config') /\ nreg' > 0
      BY <2>1, <2>2
    <3>3. mpc' # "idle" => mi' \in Registered'
      BY <2>1, <2>3 DEF TasksOK
    <3> QED BY <2>1, <3>1, <3>2, <3>3 DEF TasksOK
  <2>5. FeedbackIdsDistinct'
    BY <2>1, <2>3 DEF FeedbackIdsDistinct, IdAt
  <2>6. ASSUME NEW g \in Group PROVE Counted(g)' = Counted(g)
    BY <2>1, <2>2, <2>3 DEF Counted, IdAt, Registered
  <2>7. ASSUME NEW g \in Group PROVE OnlineCounted(g)' = OnlineCounted(g)
    <3> DEFINE P(i) == online[i] # (i = mi /\ mpc \in {"load", "store"})
           Q(i) == online'[i] # (i = mi' /\ mpc' \in {"load", "store"})
    <3>1. online'[nreg + 1] = FALSE
      BY <2>1, <2>3 DEF TasksOK
    <3>2. (nreg + 1 = mi' /\ mpc' \in {"load", "store"}) = FALSE
      BY <2>1, <2>3 DEF TasksOK
    <3>3. ~Q(nreg + 1)
      BY <3>1, <3>2
    <3>4. \A i \in Registered : online'[i] = online[i]
      BY <2>1, <2>3, Places DEF TasksOK
    <3>5. \A i \in Registered : Q(i) <=> P(i)
      BY <2>1, <3>4
    <3>6. \A i : IdAt(i)' = IdAt(i)
      BY <2>1 DEF IdAt
    <3> HIDE DEF P, Q
    <3>7. /\ OnlineCounted(g)' = {i \in Registered' : GroupOf(IdAt(i)') = g /\ Q(i)}
          /\ OnlineCounted(g) = {i \in Registered : GroupOf(IdAt(i)) = g /\ P(i)}
      BY DEF OnlineCounted, P, Q
    <3> QED BY <2>3, <3>3, <3>5, <3>6, <3>7
  <2>8. GroupCounts'
    BY <2>1, <2>6, <2>7 DEF GroupCounts
  <2> QED BY <2>4, <2>5, <2>8
<1> QED BY <1>1, <1>2

\* set_online_cnt of joint_add: the store counts the last joint, unless the
\* monitor has changed the counter since the load.
LEMMA CountJointStore == CountInv /\ JointStore => CountInv'
<1> SUFFICES ASSUME CountInv, JointStore PROVE CountInv'
  OBVIOUS
<1> USE DEF CountInv
<1> DEFINE h == GroupOf(IdAt(nreg))
<1>1. /\ UNCHANGED <<config, nreg, online, mpc, mi, mreg>>
      /\ rpc = "store" /\ rpc' = IF nreg = Len(config) THEN "send" ELSE "add"
      /\ cnt' = [cnt EXCEPT ![h] = Inc(rreg, CntMod)] /\ rreg' = 0
      /\ lost' = IF cnt[h] = rreg THEN lost ELSE lost \union {h}
  BY DEF JointStore, Overwritten
<1>2. /\ nreg \in Registered /\ h \in Group
      /\ CntMod \in Nat /\ CntMod > 0 /\ MaxJoint \in Nat /\ 2 * MaxJoint < CntMod
  BY <1>1, Places, ConfigAssumption DEF TasksOK, Registered
<1> HIDE DEF h
<1>3. Inc(rreg, CntMod) \in 0..(CntMod - 1)
  BY <1>2 DEF Inc, TasksOK
<1>4. TasksOK'
  <2>1. cnt' \in [Group -> 0..(CntMod - 1)]
    BY <1>1, <1>2, <1>3 DEF TasksOK
  <2>2. lost' \subseteq Group
    BY <1>1, <1>2 DEF TasksOK
  <2> QED BY <1>1, <1>2, <2>1, <2>2 DEF TasksOK, Registered
<1>5. FeedbackIdsDistinct'
  BY <1>1 DEF FeedbackIdsDistinct, Registered, IdAt
<1>6. GroupCounts'
  <2> SUFFICES ASSUME NEW g \in Group \ lost'
               PROVE  cnt'[g] = Cardinality(Counted(g)') + Cardinality(OnlineCounted(g)')
    BY DEF GroupCounts
  <2>1. g \in Group \ lost /\ (g = h => cnt[h] = rreg)
    BY <1>1
  <2>2. cnt[g] = Cardinality(Counted(g)) + Cardinality(OnlineCounted(g))
    BY <2>1 DEF GroupCounts
  <2>3. OnlineCounted(g)' = OnlineCounted(g)
    BY <1>1 DEF OnlineCounted, Registered, IdAt
  <2>4. /\ IsFiniteSet(Counted(g)) /\ Cardinality(Counted(g)) \in Nat
        /\ Cardinality(OnlineCounted(g)) \in 0..MaxJoint
    BY CountedSets
  <2>5. CASE g # h
    <3>1. Counted(g)' = Counted(g)
      BY <1>1, <1>2, <2>5 DEF Counted, Registered, IdAt, h
    <3> QED BY <1>1, <2>2, <2>3, <2>5, <3>1 DEF TasksOK
  <2>6. CASE g = h
    <3>1. Counted(g)' = Counted(g) \union {nreg} /\ nreg \notin Counted(g)
      BY <1>1, <1>2, <2>6 DEF Counted, Registered, IdAt, h
    <3>2. Cardinality(Counted(g)') = Cardinality(Counted(g)) + 1
      BY <2>4, <3>1, FS_AddElement
    <3>3. Cardinality(Counted(g)') <= MaxJoint
      <4>1. Counted(g) \union {nreg} \in SUBSET Registered
        BY <1>2 DEF Counted
      <4> QED BY <3>1, <4>1, JointSets
    <3>4. cnt[g] + 1 < CntMod
      BY <1>2, <2>2, <2>4, <3>2, <3>3
    <3>5. cnt'[g] = cnt[g] + 1
      BY <1>1, <1>2, <2>1, <2>6, <3>4 DEF TasksOK, Inc
    <3> QED BY <2>2, <2>3, <2>4, <3>2, <3>5
  <2> QED BY <2>5, <2>6
<1> QED BY <1>4, <1>5, <1>6

\* The monitor changes a flag: until it is counted, the flag counts as it was.
LEMMA CountJudge == CountInv /\ (\E i \in Registered : Judge(i)) => CountInv'
<1> SUFFICES ASSUME CountInv, NEW j \in Registered, Judge(j) PROVE CountInv'
  OBVIOUS
<1> USE DEF CountInv
<1>1. /\ UNCHANGED <<config, nreg, cnt, mreg, rpc, rreg, lost>>
      /\ mpc = "idle" /\ mpc' = "load" /\ mi' = j
      /\ online' = [online EXCEPT ![j] = ~online[j]]
  BY DEF Judge
<1>2. j \in Joint /\ online[j] \in BOOLEAN
  BY Places DEF TasksOK
<1>3. online' \in [Joint -> BOOLEAN]
  BY <1>1, <1>2 DEF TasksOK
<1>4. TasksOK' /\ FeedbackIdsDistinct'
  BY <1>1, <1>3 DEF TasksOK, FeedbackIdsDistinct, Registered, IdAt
<1>5. \A g : Counted(g)' = Counted(g)
  BY <1>1 DEF Counted, Registered, IdAt
<1>6. \A g : OnlineCounted(g)' = OnlineCounted(g)
  <2> DEFINE P(i) == online[i] # (i = mi /\ mpc \in {"load", "store"})
             Q(i) == online'[i] # (i = mi' /\ mpc' \in {"load", "store"})
  <2>1. ASSUME NEW i \in Registered PROVE P(i) <=> Q(i)
    <3>1. i \in Joint /\ online[i] \in BOOLEAN
      BY Places DEF TasksOK
    <3>2. (i = mi /\ mpc \in {"load", "store"}) = FALSE
      BY <1>1
    <3>3. CASE i = j
      <4>1. (i = mi' /\ mpc' \in {"load", "store"}) = TRUE
        BY <1>1, <3>3
      <4>2. online'[i] = ~online[i]
        BY <1>1, <1>2, <3>3 DEF TasksOK
      <4>3. CASE online[i] = TRUE
        BY <3>2, <4>1, <4>2, <4>3
      <4>4. CASE online[i] = FALSE
        BY <3>2, <4>1, <4>2, <4>4
      <4> QED BY <3>1, <4>3, <4>4
    <3>4. CASE i # j
      <4>1. (i = mi' /\ mpc' \in {"load", "store"}) = FALSE
        BY <1>1, <3>4
      <4>2. online'[i] = online[i]
        BY <1>1, <3>1, <3>4 DEF TasksOK
      <4> QED BY <3>2, <4>1, <4>2
    <3> QED BY <3>3, <3>4
  <2> HIDE DEF P, Q
  <2>2. \A g : /\ OnlineCounted(g)' = {i \in Registered' : GroupOf(IdAt(i)') = g /\ Q(i)}
               /\ OnlineCounted(g) = {i \in Registered : GroupOf(IdAt(i)) = g /\ P(i)}
    BY DEF OnlineCounted, P, Q
  <2>3. Registered' = Registered /\ \A i : IdAt(i)' = IdAt(i)
    BY <1>1 DEF Registered, IdAt
  <2> QED BY <2>1, <2>2, <2>3
<1>7. GroupCounts'
  BY <1>1, <1>5, <1>6, Zenon DEF GroupCounts
<1> QED BY <1>4, <1>7

\* set_online_cnt of the monitor: the store counts the changed flag, unless
\* joint_add has changed the counter since the load.
LEMMA CountMonitorStore == CountInv /\ CountStore => CountInv'
<1> SUFFICES ASSUME CountInv, CountStore PROVE CountInv'
  OBVIOUS
<1> USE DEF CountInv
<1> DEFINE h == GroupOf(IdAt(mi))
           new == IF online[mi] THEN Inc(mreg, CntMod) ELSE Dec(mreg, CntMod)
<1>1. /\ UNCHANGED <<config, nreg, online, rpc, rreg>>
      /\ mpc = "store" /\ mpc' = "idle" /\ mi' = 0 /\ mreg' = 0
      /\ cnt' = [cnt EXCEPT ![h] = new]
      /\ lost' = IF cnt[h] = mreg THEN lost ELSE lost \union {h}
  BY DEF CountStore, Overwritten
<1>2. /\ mi \in Registered /\ h \in Group /\ online[mi] \in BOOLEAN
      /\ CntMod \in Nat /\ CntMod > 0 /\ MaxJoint \in Nat /\ 2 * MaxJoint < CntMod
  BY <1>1, Places, ConfigAssumption DEF TasksOK
<1> HIDE DEF h
<1>3. new \in 0..(CntMod - 1)
  BY <1>2 DEF Inc, Dec, TasksOK
<1>4. TasksOK'
  <2> HIDE DEF new
  <2>1. cnt' \in [Group -> 0..(CntMod - 1)]
    BY <1>1, <1>2, <1>3 DEF TasksOK
  <2>2. lost' \subseteq Group
    BY <1>1, <1>2 DEF TasksOK
  <2> QED BY <1>1, <1>2, <2>1, <2>2 DEF TasksOK, Registered
<1>5. FeedbackIdsDistinct'
  BY <1>1 DEF FeedbackIdsDistinct, Registered, IdAt
<1>6. GroupCounts'
  <2> SUFFICES ASSUME NEW g \in Group \ lost'
               PROVE  cnt'[g] = Cardinality(Counted(g)') + Cardinality(OnlineCounted(g)')
    BY DEF GroupCounts
  <2>1. g \in Group \ lost /\ (g = h => cnt[h] = mreg)
    BY <1>1
  <2>2. cnt[g] = Cardinality(Counted(g)) + Cardinality(OnlineCounted(g))
    BY <2>1 DEF GroupCounts
  <2>3. Counted(g)' = Counted(g)
    BY <1>1 DEF Counted, Registered, IdAt
  <2>4. /\ IsFiniteSet(OnlineCounted(g)) /\ Cardinality(OnlineCounted(g)) \in Nat
        /\ Cardinality(Counted(g)) \in 0..MaxJoint
    BY CountedSets
  <2> DEFINE P(i) == online[i] # (i = mi /\ mpc \in {"load", "store"})
             Q(i) == online'[i] # (i = mi' /\ mpc' \in {"load", "store"})
  <2>5. \A i \in Registered : i # mi => (P(i) <=> Q(i))
    BY <1>1
  <2>6. online[mi] = TRUE => ~P(mi) /\ Q(mi)
    BY <1>1
  <2>7. online[mi] = FALSE => P(mi) /\ ~Q(mi)
    BY <1>1
  <2>8. /\ OnlineCounted(g)' = {i \in Registered : GroupOf(IdAt(i)) = g /\ Q(i)}
        /\ OnlineCounted(g) = {i \in Registered : GroupOf(IdAt(i)) = g /\ P(i)}
    BY <1>1 DEF OnlineCounted, Registered, IdAt
  <2> HIDE DEF P, Q, new
  <2>9. CASE g # h
    <3>1. OnlineCounted(g)' = OnlineCounted(g)
      BY <2>5, <2>8, <2>9 DEF h
    <3> QED BY <1>1, <2>2, <2>3, <2>9, <3>1 DEF TasksOK
  <2>10. CASE g = h /\ online[mi] = TRUE
    <3>1. OnlineCounted(g)' = OnlineCounted(g) \union {mi} /\ mi \notin OnlineCounted(g)
      BY <1>2, <2>5, <2>6, <2>8, <2>10 DEF h
    <3>2. Cardinality(OnlineCounted(g)') = Cardinality(OnlineCounted(g)) + 1
      BY <2>4, <3>1, FS_AddElement
    <3>3. Cardinality(OnlineCounted(g)') <= MaxJoint
      <4>1. OnlineCounted(g) \union {mi} \in SUBSET Registered
        BY <1>2, <2>8
      <4> QED BY <3>1, <4>1, JointSets
    <3>4. cnt[g] + 1 < CntMod
      BY <1>2, <2>2, <2>4, <3>2, <3>3
    <3>5. cnt'[g] = cnt[g] + 1
      BY <1>1, <1>2, <2>1, <2>10, <3>4 DEF TasksOK, Inc, new
    <3> QED BY <2>2, <2>3, <2>4, <3>2, <3>5
  <2>11. CASE g = h /\ online[mi] = FALSE
    <3>1. OnlineCounted(g)' = OnlineCounted(g) \ {mi} /\ mi \in OnlineCounted(g)
      BY <1>2, <2>5, <2>7, <2>8, <2>11 DEF h
    <3>2. Cardinality(OnlineCounted(g)') = Cardinality(OnlineCounted(g)) - 1
      BY <2>4, <3>1, FS_RemoveElement
    <3>3. Cardinality(OnlineCounted(g)) # 0
      BY <2>4, <3>1, FS_EmptySet
    <3>4. cnt[g] \in Nat /\ cnt[g] # 0
      BY <2>2, <2>4, <3>3
    <3>5. cnt'[g] = cnt[g] - 1
      BY <1>1, <1>2, <2>1, <2>11, <3>4 DEF TasksOK, Dec, new
    <3> QED BY <2>2, <2>3, <2>4, <3>2, <3>5
  <2> QED BY <1>2, <2>9, <2>10, <2>11
<1> QED BY <1>4, <1>5, <1>6

-----------------------------------------------------------------------------
(* The theorems about registration and counters. *)

\* The invariant of the counters under every interleaving of motor_control and
\* device_monitor.
THEOREM CountInvariant == Spec => []CountInv
<1>1. Init => CountInv
  <2> SUFFICES ASSUME Init PROVE CountInv
    OBVIOUS
  <2>1. TasksOK
    <3>1. CntMod \in Nat /\ CntMod > 0 /\ config \in Seq(1..11)
      BY ConfigAssumption DEF Init, CounterInit
    <3>2. Len(config) \in Nat
      BY <3>1
    <3>3. 0 \in 0..(CntMod - 1) /\ nreg \in 0..Len(config)
      BY <3>1, <3>2 DEF Init, CounterInit
    <3>4. online \in [Joint -> BOOLEAN] /\ cnt \in [Group -> 0..(CntMod - 1)]
      BY <3>3 DEF Init, CounterInit
    <3> QED BY <3>3, <3>4 DEF Init, CounterInit, TasksOK
  <2>2. Registered = {}
    BY DEF Init, CounterInit, Registered
  <2>3. \A g : Counted(g) = {} /\ OnlineCounted(g) = {}
    BY <2>2 DEF Counted, OnlineCounted
  <2>4. GroupCounts
    BY <2>3, FS_EmptySet DEF GroupCounts, Init, CounterInit
  <2> QED BY <2>1, <2>2, <2>4 DEF CountInv, FeedbackIdsDistinct
<1>2. CountInv /\ [Next]_vars => CountInv'
  BY CountOthers, CountAdd, CountJointStore, CountJudge, CountMonitorStore
     DEF Next, Register, Count
<1> QED BY <1>1, <1>2, PTL DEF Spec

\* register_and_init never pushes a second joint with the same feedback id.
THEOREM IdsDistinct == Spec => []FeedbackIdsDistinct
<1>1. CountInv => FeedbackIdsDistinct
  BY DEF CountInv
<1> QED BY CountInvariant, <1>1, PTL

\* Until an update of set_online_cnt is lost, every group counter is the number
\* of registered joints plus the number of online joints of its group.
THEOREM CountersExact == Spec => []GroupCounts
<1>1. CountInv => GroupCounts
  BY DEF CountInv
<1> QED BY CountInvariant, <1>1, PTL

-----------------------------------------------------------------------------
(* The frames of set_can_current. *)

\* A group with a registered joint has a counter that is not zero, unless one
\* of its updates was lost.
LEMMA GroupServed ==
  ASSUME CountInv, rpc = "send", NEW i \in Registered, GroupOf(IdAt(i)) \notin lost
  PROVE  cnt[GroupOf(IdAt(i))] # 0
<1> DEFINE g == GroupOf(IdAt(i))
<1>1. g \in Group \ lost
  BY Places DEF CountInv
<1>2. i \in Counted(g)
  BY DEF Counted
<1> HIDE DEF g
<1>3. /\ IsFiniteSet(Counted(g)) /\ Cardinality(Counted(g)) \in Nat
      /\ Cardinality(OnlineCounted(g)) \in Nat
  BY <1>1, CountedSets DEF CountInv
<1>4. Cardinality(Counted(g)) # 0
  BY <1>2, <1>3, FS_EmptySet
<1>5. cnt[g] = Cardinality(Counted(g)) + Cardinality(OnlineCounted(g))
  BY <1>1 DEF CountInv, GroupCounts
<1> QED BY <1>3, <1>4, <1>5 DEF g

\* A round of set_can_current sends the frame of every group with a joint,
\* whatever the monitor does to the counters between two iterations.
THEOREM RoundInvariant == Spec => []RoundSent
<1>1. Init => RoundSent
  BY DEF Init, CounterInit, RoundSent, Registered
<1>2. CountInv /\ CountInv' /\ RoundSent /\ [Next]_vars => RoundSent'
  <2> SUFFICES ASSUME CountInv, CountInv', RoundSent, [Next]_vars PROVE RoundSent'
    OBVIOUS
  <2>1. CASE sj' = 0
    <3>1. ASSUME NEW i \in Registered' PROVE GroupOf(IdAt(i)') >= 0
      <4>1. config' \in Seq(1..11) /\ nreg' \in 0..Len(config')
        BY ConfigAssumption DEF CountInv, TasksOK
      <4>2. config'[i] \in 1..11
        BY <4>1 DEF Registered
      <4> QED BY <4>2 DEF IdAt, GroupOf
    <3> QED BY <2>1, <3>1 DEF RoundSent
  <2>2. CASE UNCHANGED <<config, nreg, rpc, sj, sent>> /\ lost \subseteq lost'
    BY <2>2 DEF RoundSent, Registered, IdAt
  <2>3. CASE Register
    <3>1. sj' = sj /\ rpc # "send"
      BY <2>3 DEF Register, JointAdd, JointLoad, JointStore, sender
    <3> QED BY <2>1, <3>1 DEF RoundSent
  <2>4. CASE Count \/ (\E i \in Registered : Judge(i)) \/ UNCHANGED vars
    <3>1. lost \subseteq lost'
      BY <2>4 DEF Count, CountLoad, CountStore, Overwritten, Judge, vars, counter
    <3> QED BY <2>2, <2>4, <3>1
            DEF Count, CountLoad, CountStore, Judge, vars, counter, sender
  <2>5. CASE NextRound
    BY <2>1, <2>5 DEF NextRound
  <2>6. CASE Transmit
    BY <2>2, <2>6 DEF Transmit, counter
  <2>7. CASE SendGroup
    <3>1. /\ rpc = "send" /\ sj \in 0..3 /\ sj' = sj + 1
          /\ UNCHANGED <<config, nreg, rpc, lost>>
      BY <2>7 DEF SendGroup, counter, RoundSent
    <3>2. /\ sent \subseteq sent'
          /\ cnt[sj] # 0 => CurrentFrame(sj) \in sent'
      BY <2>7 DEF SendGroup
    <3>3. ASSUME NEW i \in Registered, GroupOf(IdAt(i)) \notin lost,
                 GroupOf(IdAt(i)) < sj + 1
          PROVE  CurrentFrame(GroupOf(IdAt(i))) \in sent'
      <4>1. GroupOf(IdAt(i)) \in 0..3
        BY Places DEF CountInv, Group
      <4>2. CASE GroupOf(IdAt(i)) < sj
        BY <3>1, <3>2, <3>3, <4>1, <4>2 DEF RoundSent
      <4>3. CASE GroupOf(IdAt(i)) = sj
        BY <3>1, <3>2, <3>3, <4>3, GroupServed
      <4> QED BY <3>1, <3>3, <4>1, <4>2, <4>3
    <3>4. \A i \in Registered : GroupOf(IdAt(i)) \in Int
      BY Places DEF CountInv, Group
    <3> QED BY <3>1, <3>3, <3>4 DEF RoundSent, Registered, IdAt
  <2> QED BY <2>3, <2>4, <2>5, <2>6, <2>7 DEF Next, Send
<1> QED BY CountInvariant, <1>1, <1>2, PTL DEF Spec

\* The frame of group (id - 1) / 4 has the set point of joint id in the slot its
\* motor takes it from, except for id 8.
LEMMA FrameBearsJoint ==
  ASSUME NEW id \in 1..11, id # 8
  PROVE  /\ Bearer(id) \in 0..3
         /\ CurrentFrame(Bearer(id)).head = gCanHeadTarget(id)
         /\ CurrentFrame(Bearer(id)).slots[Place(id)] = id
<1>1. /\ Bearer(id) \in 0..3 /\ Place(id) \in 1..4
      /\ id = 4 * Bearer(id) + Place(id)
      /\ Place(id) = 4 => Bearer(id) = 0
  BY DEF Bearer, Place
<1>2. SlotId(Bearer(id), Place(id)) = id
  BY <1>1 DEF SlotId
<1>3. SlotId(Bearer(id), 1) = 4 * Bearer(id) + 1
  BY <1>1 DEF SlotId
<1>4. gCanHeadTarget(4 * Bearer(id) + 1) = gCanHeadTarget(id)
  <2>1. CASE Bearer(id) = 0
    BY <1>1, <2>1 DEF gCanHeadTarget
  <2>2. CASE Bearer(id) = 1
    BY <1>1, <2>2 DEF gCanHeadTarget
  <2>3. CASE Bearer(id) = 2
    BY <1>1, <2>3 DEF gCanHeadTarget
  <2>4. Bearer(id) # 3
    BY <1>1
  <2> QED BY <1>1, <2>1, <2>2, <2>3, <2>4
<1> QED BY <1>1, <1>2, <1>3, <1>4 DEF CurrentFrame

\* At the end of set_can_current the set point of every joint has been sent in
\* the slot of its motor, if the configuration gives every joint a slot in a
\* frame that somebody is counted for and the counter of that frame has lost no
\* update.
THEOREM AllCommanded == SlotsServed /\ Spec => []JointsCommanded
<1> SUFFICES ASSUME SlotsServed PROVE Spec => []JointsCommanded
  OBVIOUS
<1>1. CountInv /\ RoundSent => JointsCommanded
  <2> SUFFICES ASSUME CountInv, RoundSent, rpc = "send", sj = 4,
                      NEW i \in Registered, Bearer(IdAt(i)) \notin lost
               PROVE  Commanded(IdAt(i))
    BY DEF JointsCommanded
  <2>1. /\ Registered = 1..Len(config) /\ config \in Configs
        /\ IdAt(i) \in 1..11
    BY Places DEF CountInv, TasksOK, Registered, IdAt
  <2>2. IdAt(i) # 8 /\ \E j \in Registered : GroupOf(IdAt(j)) = Bearer(IdAt(i))
    BY <2>1 DEF SlotsServed, IdAt
  <2>3. PICK j \in Registered : GroupOf(IdAt(j)) = Bearer(IdAt(i))
    BY <2>2
  <2>4. /\ Bearer(IdAt(i)) \in 0..3
        /\ CurrentFrame(Bearer(IdAt(i))).head = gCanHeadTarget(IdAt(i))
        /\ CurrentFrame(Bearer(IdAt(i))).slots[Place(IdAt(i))] = IdAt(i)
    BY <2>1, <2>2, FrameBearsJoint
  <2>5. CurrentFrame(Bearer(IdAt(i))) \in sent
    BY <2>3, <2>4 DEF RoundSent
  <2> QED BY <2>4, <2>5 DEF Commanded
<1> QED BY CountInvariant, RoundInvariant, <1>1, PTL
=============================================================================
