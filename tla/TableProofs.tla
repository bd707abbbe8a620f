---- MODULE TableProofs ----
(***************************************************************************)
(* The tables of the two devices that forget their entries with time.      *)
(* The NAT's table is a pool of ports, for every set of endpoints, every   *)
(* range of ports and every timeout.  The switch finds every host that     *)
(* has settled, for any hosts, ports, timeout and number of moves.         *)
(***************************************************************************)
EXTENDS Nat, Switch, TLAPS

(***************************************************************************)
(* The NAT                                                                 *)
(***************************************************************************)

\* A dead process has no mappings.
DeadIsEmpty == alive \/ \A f \in Flow : mapping[f] = None

\* The inductive invariant.
NatInv == TypeOK /\ PortsAreExclusive /\ MarkedIsUsed /\ DeadIsEmpty

\* A packet changes no port.
LEMMA TouchedType ==
    ASSUME NEW m \in Mapping, NEW side \in Side, NEW fin \in BOOLEAN
    PROVE  Touched(m, side, fin) \in Mapping /\ Touched(m, side, fin).port = m.port
<1>1. IF fin THEN m.fins \cup {side} \in SUBSET Side ELSE m.fins \ {side} \in SUBSET Side
  BY DEF Mapping
<1>2. 0 \in 0 .. Timeout + 1
  BY TimeoutAssumption
<1> QED
  BY <1>1, <1>2 DEF Touched, Mapping

\* Nor does time.
LEMMA OlderType ==
    ASSUME NEW m \in Mapping
    PROVE  Older(m) \in Mapping /\ Older(m).port = m.port
BY TimeoutAssumption DEF Older, Mapping

LEMMA NewMappingType ==
    ASSUME NEW p \in PortMin .. PortMax
    PROVE  NewMapping(p) \in Mapping /\ NewMapping(p).port = p
BY TimeoutAssumption DEF NewMapping, Mapping

\* The ports that parse_config marks are not in the pool.
LEMMA ReservedIsOutside == Reserved \subseteq Nat /\ Reserved \cap Pool = {}
BY RulesAssumption, PortAssumption DEF Reserved, Pool

\* The same flows have the same ports.
SamePorts ==
    \A f \in Flow : /\ mapping'[f] = None <=> mapping[f] = None
                    /\ mapping[f] # None => mapping'[f].port = mapping[f].port

\* A step that leaves the ports alone keeps the invariant.
LEMMA SamePortsKeep ==
    ASSUME NatInv, SamePorts, TypeOK', UNCHANGED <<assigned, alive>>
    PROVE  NatInv'
BY DEF NatInv, SamePorts, PortsAreExclusive, MarkedIsUsed, DeadIsEmpty, Mapped

LEMMA UserType ==
    ASSUME TypeOK, NEW i \in Inner, NEW p, Leaves(i, p)
    PROVE  user' \in [Pool -> Inner \cup {None}]
BY DEF TypeOK, Leaves

\* What is heard in a step: a packet's side ends or has not ended, a second passes.
LEMMA HearsType ==
    ASSUME TypeOK, NEW f \in Flow, NEW side \in Side, NEW fin \in BOOLEAN, Hears(f, side, fin)
    PROVE  /\ heard' \in [Flow -> Silence]
           /\ heard'[f] = [since |-> 0,
                           ended |-> IF fin THEN heard[f].ended \cup {side}
                                            ELSE heard[f].ended \ {side}]
           /\ \A g \in Flow : g # f => heard'[g] = heard[g]
<1> DEFINE others == heard[f].ended \ {side}
           ended == IF fin THEN others \cup {side} ELSE others
<1>1. heard \in [Flow -> Silence] /\ heard' = [heard EXCEPT ![f] = [since |-> 0, ended |-> ended]]
  BY DEF TypeOK, Hears
<1>2. heard[f].ended \in SUBSET Side
  BY <1>1 DEF Silence
<1>3. 0 \in 0 .. Timeout + 1
  BY TimeoutAssumption
<1>4. ended \in SUBSET Side /\ ended = IF fin THEN heard[f].ended \cup {side}
                                              ELSE heard[f].ended \ {side}
  BY <1>2
<1>5. [since |-> 0, ended |-> ended] \in Silence
  BY <1>3, <1>4 DEF Silence
<1> HIDE DEF ended
<1> QED
  BY <1>1, <1>4, <1>5

LEMMA UnheardType == Unheard \in Silence
BY TimeoutAssumption DEF Unheard, Silence

LEMMA LongerType ==
    ASSUME NEW h \in Silence
    PROVE  Longer(h) \in Silence
BY TimeoutAssumption DEF Longer, Silence

LEMMA TouchKeeps ==
    ASSUME NatInv, NEW f \in Mapped, NEW side \in Side, NEW fin \in BOOLEAN,
           mapping' = [mapping EXCEPT ![f] = Touched(mapping[f], side, fin)],
           user' \in [Pool -> Inner \cup {None}], Hears(f, side, fin),
           UNCHANGED <<assigned, alive>>
    PROVE  NatInv' /\ SamePorts
<1>1. mapping[f] \in Mapping /\ f \in Flow /\ mapping[f] # None
  BY DEF NatInv, TypeOK, Mapped
<1>2. Touched(mapping[f], side, fin) \in Mapping /\ Touched(mapping[f], side, fin).port = mapping[f].port
  BY <1>1, TouchedType
<1>3. mapping' \in [Flow -> Mapping \cup {None}]
  BY <1>1, <1>2 DEF NatInv, TypeOK
<1>4. SamePorts
  BY <1>1, <1>2, NoneAssumption DEF SamePorts, NatInv, TypeOK
<1>5. heard' \in [Flow -> Silence]
  BY <1>1, HearsType DEF NatInv
<1>6. TypeOK'
  BY <1>3, <1>5 DEF NatInv, TypeOK
<1> QED
  BY <1>4, <1>6, SamePortsKeep

LEMMA NewFlowKeeps ==
    ASSUME NatInv, NEW f \in Flow, NEW fin \in BOOLEAN, NEW p \in PortMin .. PortMax,
           alive, f \notin Mapped, SearchStopsAt(p),
           assigned' = assigned \cup ({p} \cap Pool),
           mapping' = [mapping EXCEPT ![f] = Touched(NewMapping(p), "internal", fin)],
           Leaves(f[2], p), Hears(f, "internal", fin), UNCHANGED alive
    PROVE  /\ NatInv'
           /\ mapping'[f] # None /\ mapping'[f].port = p
           /\ \A g \in Flow \ {f} : mapping'[g] = mapping[g]
<1>1. /\ Touched(NewMapping(p), "internal", fin) \in Mapping
      /\ Touched(NewMapping(p), "internal", fin).port = p
  BY NewMappingType, TouchedType DEF Side
<1>2. f[2] \in Inner
  BY DEF Flow
<1>3. mapping'[f] # None /\ mapping'[f].port = p
  BY <1>1, NoneAssumption DEF NatInv, TypeOK
<1>4. \A g \in Flow \ {f} : mapping'[g] = mapping[g]
  BY DEF NatInv, TypeOK
<1>5. TypeOK'
  <2>1. mapping' \in [Flow -> Mapping \cup {None}]
    BY <1>1 DEF NatInv, TypeOK
  <2>2. assigned' \in SUBSET Nat
    BY PortAssumption DEF NatInv, TypeOK, Pool
  <2>3. user' \in [Pool -> Inner \cup {None}]
    BY <1>2, UserType DEF NatInv
  <2>4. heard' \in [Flow -> Silence]
    BY HearsType DEF NatInv, Side
  <2> QED BY <2>1, <2>2, <2>3, <2>4 DEF NatInv, TypeOK
<1>6. p \in Pool => \A g \in Flow : mapping[g] # None => mapping[g].port # p
  BY DEF SearchStopsAt, NatInv, MarkedIsUsed, Mapped
<1>7. PortsAreExclusive'
  BY <1>3, <1>4, <1>6 DEF NatInv, PortsAreExclusive, Mapped
<1>8. MarkedIsUsed'
  <2> SUFFICES ASSUME NEW q \in Pool
               PROVE  q \in assigned' <=> \E g \in Mapped' : mapping'[g].port = q
    BY DEF MarkedIsUsed
  <2>1. q \in assigned <=> \E g \in Mapped : mapping[g].port = q
    BY DEF NatInv, MarkedIsUsed
  <2>2. Mapped' = Mapped \cup {f}
    BY <1>3, <1>4 DEF Mapped
  <2>3. q \in assigned' <=> q \in assigned \/ q = p
    OBVIOUS
  <2> QED BY <1>3, <1>4, <2>1, <2>2, <2>3 DEF Mapped
<1> QED
  BY <1>3, <1>4, <1>5, <1>7, <1>8 DEF NatInv, DeadIsEmpty

\* The flows that a sweep forgets.
Forgets(gone) ==
    /\ gone \subseteq Mapped
    /\ mapping' = [f \in Flow |-> IF f \in gone THEN None ELSE mapping[f]]
    /\ assigned' = assigned \ {mapping[f].port : f \in gone}
    /\ heard' = [f \in Flow |-> IF f \in gone THEN Unheard ELSE heard[f]]
    /\ UNCHANGED <<alive, user>>

LEMMA SweepForgets ==
    ASSUME Sweep
    PROVE  \E gone \in SUBSET Mapped : Forgets(gone)
<1>1. PICK finished \in SUBSET {f \in Mapped : BothFinished(f)} :
          /\ mapping' = [f \in Flow |-> IF f \in finished \cup {g \in Mapped : Expired(g)}
                                        THEN None ELSE mapping[f]]
          /\ assigned' = assigned \ {mapping[f].port : f \in finished \cup {g \in Mapped : Expired(g)}}
          /\ heard' = [f \in Flow |-> IF f \in finished \cup {g \in Mapped : Expired(g)}
                                      THEN Unheard ELSE heard[f]]
          /\ UNCHANGED <<alive, user>>
  BY DEF Sweep
<1>2. finished \cup {g \in Mapped : Expired(g)} \in SUBSET Mapped
  OBVIOUS
<1> QED
  BY <1>1, <1>2 DEF Forgets

LEMMA ForgettingKeeps ==
    ASSUME NatInv, NEW gone \in SUBSET Mapped, Forgets(gone)
    PROVE  NatInv'
<1>1. Mapped' = Mapped \ gone
  BY NoneAssumption DEF Mapped, Forgets
<1>2. \A f \in Mapped' : mapping'[f] = mapping[f]
  BY <1>1 DEF Forgets, Mapped
<1>3. TypeOK'
  BY UnheardType DEF NatInv, TypeOK, Forgets
<1>4. PortsAreExclusive'
  BY <1>1, <1>2 DEF NatInv, PortsAreExclusive
<1>5. MarkedIsUsed'
  <2> SUFFICES ASSUME alive, NEW q \in Pool
               PROVE  q \in assigned' <=> \E f \in Mapped' : mapping'[f].port = q
    BY DEF MarkedIsUsed, Forgets
  <2>1. q \in assigned <=> \E f \in Mapped : mapping[f].port = q
    BY DEF NatInv, MarkedIsUsed
  <2>2. q \in assigned' <=> q \in assigned /\ \A f \in gone : mapping[f].port # q
    BY DEF Forgets
  <2>3. \A f \in Mapped, g \in gone : mapping[f].port = q /\ mapping[g].port = q => f = g
    BY DEF NatInv, PortsAreExclusive
  <2> QED BY <1>1, <1>2, <2>1, <2>2, <2>3
<1>6. DeadIsEmpty'
  BY DEF NatInv, DeadIsEmpty, Forgets
<1> QED BY <1>3, <1>4, <1>5, <1>6 DEF NatInv

LEMMA StartsInvariant ==
    ASSUME Init PROVE NatInv
<1>1. TypeOK
  BY ReservedIsOutside, UnheardType DEF Init, TypeOK
<1>2. Mapped = {}
  BY DEF Init, Mapped
<1> QED
  BY <1>1, <1>2, ReservedIsOutside DEF Init, NatInv, PortsAreExclusive, MarkedIsUsed, DeadIsEmpty

\* What a step does to the flows and their ports.
NewFlow(f, fin, p) ==
    /\ alive
    /\ f \notin Mapped
    /\ SearchStopsAt(p)
    /\ assigned' = assigned \cup ({p} \cap Pool)
    /\ mapping' = [mapping EXCEPT ![f] = Touched(NewMapping(p), "internal", fin)]
    /\ Leaves(f[2], p)
    /\ Hears(f, "internal", fin)
    /\ UNCHANGED alive

\* Every step keeps the ports, adds one flow, forgets some or forgets all.
LEMMA StepKinds ==
    ASSUME NatInv, [Next]_vars
    PROVE  \/ NatInv' /\ SamePorts
           \/ \E f \in Flow, fin \in BOOLEAN, p \in PortMin .. PortMax : NewFlow(f, fin, p)
           \/ \E gone \in SUBSET Mapped : Forgets(gone)
           \/ NatInv' /\ mapping' = [f \in Flow |-> None]
<1>1. ASSUME NEW f \in Flow, NEW fin \in BOOLEAN, OutKnown(f, fin)
      PROVE  NatInv' /\ SamePorts
  <2>1. f \in Mapped /\ f[2] \in Inner
    BY <1>1 DEF OutKnown, Flow
  <2>2. user' \in [Pool -> Inner \cup {None}]
    BY <1>1, <2>1, UserType DEF NatInv, OutKnown
  <2> QED
    BY <1>1, <2>1, <2>2, TouchKeeps DEF OutKnown, Side
<1>2. ASSUME NEW f \in Flow, NEW fin \in BOOLEAN, OutNew(f, fin)
      PROVE  \E p \in PortMin .. PortMax : NewFlow(f, fin, p)
  BY <1>2 DEF OutNew, NewFlow
<1>3. ASSUME NEW b \in Bucket, NEW p \in Addressable, NEW fin \in BOOLEAN, InKnown(b, p, fin)
      PROVE  NatInv' /\ SamePorts
  <2>1. PICK f \in Matches(b, p) :
            /\ mapping' = [mapping EXCEPT ![f] = Touched(mapping[f], "external", fin)]
            /\ Hears(f, "external", fin)
    BY <1>3 DEF InKnown
  <2>2. f \in Mapped
    BY DEF Matches
  <2>3. user' \in [Pool -> Inner \cup {None}] /\ UNCHANGED <<assigned, alive>>
    BY <1>3 DEF InKnown, NatInv, TypeOK
  <2> QED
    BY <2>1, <2>2, <2>3, TouchKeeps DEF Side
<1>4. ASSUME NEW b \in Bucket, NEW p \in Addressable, InStray(b, p)
      PROVE  NatInv' /\ mapping' = [f \in Flow |-> None]
  <2>1. /\ mapping' = [f \in Flow |-> None] /\ assigned' = {} /\ alive' = FALSE
        /\ heard' = [f \in Flow |-> Unheard] /\ UNCHANGED user
    BY <1>4 DEF InStray
  <2>2. Mapped' = {}
    BY <2>1 DEF Mapped
  <2> QED
    BY <2>1, <2>2, UnheardType DEF NatInv, TypeOK, PortsAreExclusive, MarkedIsUsed, DeadIsEmpty
<1>5. ASSUME Restart
      PROVE  NatInv' /\ mapping' = [f \in Flow |-> None]
  <2>1. mapping' = [f \in Flow |-> None]
    BY <1>5 DEF Restart, NatInv, TypeOK, DeadIsEmpty
  <2>2. Mapped' = {}
    BY <2>1 DEF Mapped
  <2>3. TypeOK'
    BY <1>5, ReservedIsOutside DEF Restart, NatInv, TypeOK
  <2> QED
    BY <1>5, <2>1, <2>2, <2>3, ReservedIsOutside
    DEF Restart, NatInv, PortsAreExclusive, MarkedIsUsed, DeadIsEmpty
<1>6. ASSUME Sweep
      PROVE  \E gone \in SUBSET Mapped : Forgets(gone)
  BY <1>6, SweepForgets
<1>7. ASSUME Tick
      PROVE  NatInv' /\ SamePorts
  <2>1. \A f \in Flow : mapping[f] # None => Older(mapping[f]) \in Mapping
                                             /\ Older(mapping[f]).port = mapping[f].port
    BY OlderType DEF NatInv, TypeOK
  <2>2. \A f \in Flow : mapping'[f] = IF mapping[f] # None THEN Older(mapping[f]) ELSE None
    BY <1>7 DEF Tick, Mapped
  <2>3. TypeOK'
    <3>1. heard' \in [Flow -> Silence]
      BY <1>7, LongerType, UnheardType DEF Tick, NatInv, TypeOK
    <3> QED BY <1>7, <2>1, <3>1 DEF Tick, NatInv, TypeOK, Mapped
  <2>4. SamePorts
    BY <2>1, <2>2, NoneAssumption DEF SamePorts
  <2> QED
    BY <1>7, <2>3, <2>4, SamePortsKeep DEF Tick
<1>8. ASSUME UNCHANGED vars
      PROVE  NatInv' /\ SamePorts
  BY <1>8 DEF vars, NatInv, TypeOK, PortsAreExclusive, MarkedIsUsed, DeadIsEmpty, Mapped, SamePorts
<1> QED
  BY <1>1, <1>2, <1>3, <1>4, <1>5, <1>6, <1>7, <1>8 DEF Next, Translate

LEMMA StepKeepsInvariant ==
    ASSUME NatInv, [Next]_vars PROVE NatInv'
<1>1. ASSUME NEW f \in Flow, NEW fin \in BOOLEAN, NEW p \in PortMin .. PortMax, NewFlow(f, fin, p)
      PROVE  NatInv'
  BY <1>1, NewFlowKeeps DEF NewFlow
<1>2. ASSUME NEW gone \in SUBSET Mapped, Forgets(gone)
      PROVE  NatInv'
  BY <1>2, ForgettingKeeps
<1> QED
  BY <1>1, <1>2, StepKinds

LEMMA NatInvariance == Spec => []NatInv
<1>1. Init => NatInv
  BY StartsInvariant
<1>2. NatInv /\ [Next]_vars => NatInv'
  BY StepKeepsInvariant
<1> QED
  BY <1>1, <1>2, PTL DEF Spec

\* Every variable keeps its type; no mapping has a port above NAT_PORT_MAX.
THEOREM TypeCorrect == Spec => []TypeOK
<1>1. NatInv => TypeOK
  BY DEF NatInv
<1> QED
  BY <1>1, NatInvariance, PTL

\* No two flows share a port of the pool.
THEOREM ExclusivePorts == Spec => []PortsAreExclusive
<1>1. NatInv => PortsAreExclusive
  BY DEF NatInv
<1> QED
  BY <1>1, NatInvariance, PTL

\* No port of the pool leaks and none is free while it is used.
THEOREM AccountedPorts == Spec => []MarkedIsUsed
<1>1. NatInv => MarkedIsUsed
  BY DEF NatInv
<1> QED
  BY <1>1, NatInvariance, PTL

(***************************************************************************)
(* The refinement: who holds a port of the pool.                           *)
(***************************************************************************)

LEMMA HolderIsTheFlow ==
    ASSUME PortsAreExclusive, NEW p \in Pool, NEW f \in Flow, mapping[f] # None, mapping[f].port = p
    PROVE  HolderOf(p) = f
<1>1. f \in Holders(p)
  BY DEF Holders
<1>2. \A g \in Holders(p) : g = f
  BY DEF Holders, PortsAreExclusive, Mapped
<1> QED
  BY <1>1, <1>2 DEF HolderOf

LEMMA HolderOfNone ==
    ASSUME NEW p \in Pool, \A f \in Flow : ~(mapping[f] # None /\ mapping[f].port = p)
    PROVE  HolderOf(p) = None
BY DEF HolderOf, Holders

LEMMA HolderHolds ==
    ASSUME NEW p \in Pool, HolderOf(p) # None
    PROVE  HolderOf(p) \in Flow /\ mapping[HolderOf(p)] # None /\ mapping[HolderOf(p)].port = p
<1>1. Holders(p) # {}
  BY DEF HolderOf
<1>2. HolderOf(p) \in Holders(p)
  BY <1>1 DEF HolderOf
<1> QED
  BY <1>2 DEF Holders

\* A port whose flows stay the same keeps its holder.
LEMMA HolderStays ==
    ASSUME NEW p \in Pool,
           \A f \in Flow : (mapping'[f] # None /\ mapping'[f].port = p)
                               <=> (mapping[f] # None /\ mapping[f].port = p)
    PROVE  HolderOf(p)' = HolderOf(p)
<1>1. Holders(p)' = Holders(p)
  BY DEF Holders
<1> QED
  BY <1>1 DEF HolderOf

\* The abstract variable.
Holding == [p \in Pool |-> HolderOf(p)]

LEMMA HoldingStays ==
    ASSUME \A p \in Pool : HolderOf(p)' = HolderOf(p)
    PROVE  Holding' = Holding
BY DEF Holding, Pool

LEMMA NewFlowAssigns ==
    ASSUME NatInv, NatInv', NEW f \in Flow, NEW fin \in BOOLEAN, NEW p \in PortMin .. PortMax,
           NewFlow(f, fin, p)
    PROVE  [Ports!Next]_Holding
<1>1. /\ mapping'[f] # None /\ mapping'[f].port = p /\ mapping[f] = None
      /\ \A g \in Flow \ {f} : mapping'[g] = mapping[g]
  BY NewFlowKeeps DEF NewFlow, Mapped
<1>2. \A q \in Pool : q # p => HolderOf(q)' = HolderOf(q)
  BY <1>1, HolderStays
<1>3. CASE p \in Pool
  <2>1. HolderOf(p) = None
    <3>1. \A g \in Flow : mapping[g] # None => mapping[g].port # p
      BY <1>3 DEF NewFlow, SearchStopsAt, NatInv, MarkedIsUsed, Mapped
    <3> QED BY <1>3, <3>1, HolderOfNone
  <2>2. HolderOf(p)' = f
    <3>1. \A g \in Flow : mapping'[g] # None /\ mapping'[g].port = p => g = f
      BY <1>1, <1>3 DEF NatInv, PortsAreExclusive, Mapped
    <3>2. f \in Holders(p)'
      BY <1>1 DEF Holders
    <3>3. \A g \in Holders(p)' : g = f
      BY <3>1 DEF Holders
    <3> QED BY <3>2, <3>3 DEF HolderOf
  <2>3. \A q \in Pool : HolderOf(q) # f
    BY <1>1, HolderHolds, NoneAssumption
  <2>4. Holding' = [Holding EXCEPT ![p] = f]
    BY <1>2, <2>2 DEF Holding, Pool
  <2>5. Holding[p] = None /\ \A q \in Pool : Holding[q] # f
    BY <1>3, <2>1, <2>3 DEF Holding
  <2>6. Ports!Assign(p, f)
    BY <2>4, <2>5 DEF Ports!Assign, Holding
  <2> QED BY <1>3, <2>6 DEF Ports!Next
<1>4. CASE p \notin Pool
  BY <1>2, <1>4, HoldingStays
<1> QED BY <1>3, <1>4

LEMMA ForgettingForgets ==
    ASSUME NatInv, NEW gone \in SUBSET Mapped, Forgets(gone)
    PROVE  [Ports!Next]_Holding
<1> DEFINE ports == {p \in Pool : \E f \in gone : mapping[f].port = p}
<1>1. ASSUME NEW p \in ports PROVE HolderOf(p)' = None
  <2>1. PICK f \in gone : mapping[f].port = p
    BY <1>1
  <2>2. \A g \in Mapped : mapping[g].port = p => g = f
    BY <1>1, <2>1 DEF NatInv, PortsAreExclusive
  <2>3. \A g \in Flow : ~(mapping'[g] # None /\ mapping'[g].port = p)
    BY <2>1, <2>2 DEF Forgets, Mapped
  <2>4. Holders(p)' = {}
    BY <2>3 DEF Holders
  <2> QED BY <2>4 DEF HolderOf
<1>2. ASSUME NEW p \in Pool \ ports PROVE HolderOf(p)' = HolderOf(p)
  <2>1. \A f \in Flow : (mapping'[f] # None /\ mapping'[f].port = p)
                            <=> (mapping[f] # None /\ mapping[f].port = p)
    BY <1>2 DEF Forgets, Mapped
  <2> QED BY <2>1, HolderStays
<1>3. Holding' = [p \in Pool |-> IF p \in ports THEN None ELSE Holding[p]]
  BY <1>1, <1>2 DEF Holding, Pool
<1>4. Ports!Forget(ports)
  BY <1>3 DEF Ports!Forget, Holding
<1> QED BY <1>4 DEF Ports!Next

\* Every step of the NAT is a step of the pool or changes no holder.
LEMMA StepMaps ==
    ASSUME NatInv, [Next]_vars PROVE [Ports!Next]_Holding
<1>1. NatInv'
  BY StepKeepsInvariant
<1>2. ASSUME SamePorts PROVE Holding' = Holding
  <2>1. \A p \in Pool : HolderOf(p)' = HolderOf(p)
    BY <1>2, HolderStays DEF SamePorts
  <2> QED BY <2>1, HoldingStays
<1>3. ASSUME NEW f \in Flow, NEW fin \in BOOLEAN, NEW p \in PortMin .. PortMax, NewFlow(f, fin, p)
      PROVE  [Ports!Next]_Holding
  BY <1>1, <1>3, NewFlowAssigns
<1>4. ASSUME NEW gone \in SUBSET Mapped, Forgets(gone)
      PROVE  [Ports!Next]_Holding
  BY <1>4, ForgettingForgets
<1>5. ASSUME mapping' = [f \in Flow |-> None]
      PROVE  [Ports!Next]_Holding
  <2>1. \A p \in Pool : Holders(p)' = {}
    BY <1>5 DEF Holders
  <2>2. \A p \in Pool : HolderOf(p)' = None
    BY <2>1 DEF HolderOf
  <2>3. Holding' = [p \in Pool |-> IF p \in Pool THEN None ELSE Holding[p]]
    BY <2>2 DEF Holding, Pool
  <2>4. Ports!Forget(Pool)
    BY <2>3 DEF Ports!Forget, Holding
  <2> QED BY <2>4 DEF Ports!Next
<1> QED
  BY <1>2, <1>3, <1>4, <1>5, StepKinds

\* The NAT implements the pool of ports: a flow keeps the port it was given until
\* it is forgotten, and until then nobody else gets it.
THEOREM NatImplementsPortPool == Spec => ImplementsPortPool
<1>1. Init => Ports!Init
  <2> SUFFICES ASSUME Init PROVE Ports!Init
    OBVIOUS
  <2>1. \A p \in Pool : HolderOf(p) = None
    BY HolderOfNone DEF Init
  <2> QED BY <2>1 DEF Ports!Init, Holding
<1>2. NatInv /\ [Next]_vars => [Ports!Next]_Holding
  BY StepMaps
<1> QED
  BY <1>1, <1>2, NatInvariance, PTL DEF Spec, ImplementsPortPool, Ports!Spec, Holding

(***************************************************************************)
(* The two action properties.                                              *)
(***************************************************************************)

\* A port of the pool was last used by the endpoint whose flow has it now.
UserHolds == \A f \in Mapped : mapping[f].port \in Pool => user[mapping[f].port] = f[2]

\* A step that leaves the ports and the users alone keeps that.
LEMMA SamePortsKeepUsers ==
    ASSUME UserHolds, SamePorts, UNCHANGED user
    PROVE  UserHolds'
BY DEF UserHolds, SamePorts, Mapped

LEMMA OutKnownFacts ==
    ASSUME NatInv, UserHolds, NEW f \in Flow, NEW fin \in BOOLEAN, OutKnown(f, fin)
    PROVE  UserHolds'
<1>1. /\ f \in Mapped
      /\ mapping' = [mapping EXCEPT ![f] = Touched(mapping[f], "internal", fin)]
      /\ Leaves(f[2], mapping[f].port) /\ Hears(f, "internal", fin)
      /\ UNCHANGED <<assigned, alive>>
  BY DEF OutKnown
<1>2. user' \in [Pool -> Inner \cup {None}]
  <2>1. f[2] \in Inner  BY DEF Flow
  <2> QED  BY <1>1, <2>1, UserType DEF NatInv
<1>3. SamePorts
  BY <1>1, <1>2, TouchKeeps DEF Side
<1>4. user' = [q \in Pool |-> IF q = mapping[f].port THEN f[2] ELSE user[q]]
  BY <1>1 DEF Leaves
<1>5. UserHolds'
  <2> SUFFICES ASSUME NEW g \in Mapped', mapping'[g].port \in Pool
               PROVE  user'[mapping'[g].port] = g[2]
    BY DEF UserHolds
  <2>1. g \in Mapped /\ g \in Flow /\ mapping'[g].port = mapping[g].port
    BY <1>3 DEF SamePorts, Mapped
  <2>2. CASE mapping[g].port = mapping[f].port
    <3>1. g = f  BY <1>1, <2>1, <2>2 DEF NatInv, PortsAreExclusive
    <3> QED  BY <1>4, <2>1, <3>1
  <2>3. CASE mapping[g].port # mapping[f].port
    BY <1>4, <2>1, <2>3 DEF UserHolds
  <2> QED  BY <2>2, <2>3
<1> QED
  BY <1>5

LEMMA OutNewFacts ==
    ASSUME NatInv, UserHolds, NEW f \in Flow, NEW fin \in BOOLEAN, OutNew(f, fin)
    PROVE  UserHolds'
<1>1. PICK p \in PortMin .. PortMax :
          /\ SearchStopsAt(p)
          /\ assigned' = assigned \cup ({p} \cap Pool)
          /\ mapping' = [mapping EXCEPT ![f] = Touched(NewMapping(p), "internal", fin)]
          /\ Leaves(f[2], p)
  BY DEF OutNew
<1>2. alive /\ f \notin Mapped /\ UNCHANGED alive /\ Hears(f, "internal", fin)
  BY DEF OutNew
<1>3. /\ NatInv'
      /\ mapping'[f] # None /\ mapping'[f].port = p
      /\ \A g \in Flow \ {f} : mapping'[g] = mapping[g]
  BY <1>1, <1>2, NewFlowKeeps
<1>4. user' = [q \in Pool |-> IF q = p THEN f[2] ELSE user[q]]
  BY <1>1 DEF Leaves
<1>5. f \in Mapped'
  BY <1>3 DEF Mapped
<1>6. UserHolds'
  <2> SUFFICES ASSUME NEW g \in Mapped', mapping'[g].port \in Pool
               PROVE  user'[mapping'[g].port] = g[2]
    BY DEF UserHolds
  <2>1. CASE mapping'[g].port = p
    <3>1. g = f  BY <1>3, <1>5, <2>1 DEF NatInv, PortsAreExclusive
    <3> QED  BY <1>3, <1>4, <3>1
  <2>2. CASE mapping'[g].port # p
    <3>1. g \in Mapped /\ mapping'[g] = mapping[g]  BY <1>3, <2>2 DEF Mapped
    <3> QED  BY <1>4, <2>2, <3>1 DEF UserHolds
  <2> QED  BY <2>1, <2>2
<1> QED
  BY <1>6

LEMMA InKnownFacts ==
    ASSUME NatInv, UserHolds, NEW b \in Bucket, NEW p, NEW fin \in BOOLEAN, InKnown(b, p, fin)
    PROVE  /\ UserHolds'
           /\ p \in Pool => \A f \in Flow : mapping'[f] # mapping[f] => f[2] = user[p]
<1>1. PICK g \in Matches(b, p) :
          /\ mapping' = [mapping EXCEPT ![g] = Touched(mapping[g], "external", fin)]
          /\ Hears(g, "external", fin)
  BY DEF InKnown
<1>2. UNCHANGED <<assigned, alive, user>> /\ g \in Mapped /\ mapping[g].port = p
  BY DEF InKnown, Matches
<1>3. SamePorts
  <2>1. user' \in [Pool -> Inner \cup {None}]  BY <1>2 DEF NatInv, TypeOK
  <2> QED  BY <1>1, <1>2, <2>1, TouchKeeps DEF Side
<1>4. \A f \in Flow : f # g => mapping'[f] = mapping[f]
  BY <1>1 DEF NatInv, TypeOK
<1>5. p \in Pool => g[2] = user[p]
  BY <1>2 DEF UserHolds
<1> QED
  BY <1>2, <1>3, <1>4, <1>5, SamePortsKeepUsers

LEMMA SweepFacts ==
    ASSUME NatInv, UserHolds, Sweep
    PROVE  UserHolds'
<1>1. PICK finished \in SUBSET {f \in Mapped : BothFinished(f)} :
          mapping' = [f \in Flow |-> IF f \in finished \cup {g \in Mapped : Expired(g)}
                                     THEN None ELSE mapping[f]]
  BY DEF Sweep
<1>2. UNCHANGED user
  BY DEF Sweep
<1> QED
  BY <1>1, <1>2 DEF UserHolds, Mapped

\* The remaining steps.
LEMMA OtherFacts ==
    ASSUME NatInv, UserHolds,
           \/ \E b \in Bucket, p \in Addressable : InStray(b, p)
           \/ Restart \/ Tick \/ UNCHANGED vars
    PROVE  UserHolds'
<1>1. CASE \E b \in Bucket, p \in Addressable : InStray(b, p)
  BY <1>1 DEF InStray, UserHolds, Mapped
<1>2. CASE Restart
  BY <1>2 DEF Restart, UserHolds, Mapped
<1>3. CASE Tick
  <2>1. \A f \in Flow : mapping[f] # None => mapping[f] \in Mapping
    BY DEF NatInv, TypeOK
  <2>2. \A f \in Flow : mapping[f] # None =>
           Older(mapping[f]) # None /\ Older(mapping[f]).port = mapping[f].port
    BY <2>1, OlderType, NoneAssumption
  <2>3. SamePorts
    BY <1>3, <2>2 DEF Tick, SamePorts, Mapped
  <2> QED  BY <1>3, <2>3, SamePortsKeepUsers DEF Tick
<1>4. CASE UNCHANGED vars
  BY <1>4 DEF vars, UserHolds, Mapped
<1> QED
  BY <1>1, <1>2, <1>3, <1>4

LEMMA StepUsers ==
    ASSUME NatInv, UserHolds, [Next]_vars
    PROVE  UserHolds'
<1>1. CASE \E f \in Flow, fin \in BOOLEAN : OutKnown(f, fin)
  BY <1>1, OutKnownFacts
<1>2. CASE \E f \in Flow, fin \in BOOLEAN : OutNew(f, fin)
  BY <1>2, OutNewFacts
<1>3. CASE \E b \in Bucket, p \in Addressable, fin \in BOOLEAN : InKnown(b, p, fin)
  BY <1>3, InKnownFacts
<1> QED
  BY <1>1, <1>2, <1>3, SweepFacts, OtherFacts DEF Next, Translate

LEMMA UsersInvariance == Spec => [](NatInv /\ UserHolds)
<1>1. Init => UserHolds
  BY DEF Init, UserHolds, Mapped
<1>2. NatInv /\ UserHolds /\ [Next]_vars => UserHolds'
  BY StepUsers
<1> QED
  BY <1>1, <1>2, NatInvariance, PTL DEF Spec

\* A packet that comes in for a port of the pool reaches the endpoint that last
\* sent through it, for every set of endpoints, range of ports and timeout.
THEOREM RepliesReachTheUserHolds == Spec => RepliesReachTheUser
<1>1. NatInv /\ UserHolds /\ [Next]_vars
        => [\A b \in Bucket, p \in Pool, fin \in BOOLEAN :
              InKnown(b, p, fin) => \A f \in Flow : mapping'[f] # mapping[f] => f[2] = user[p]]_vars
  BY InKnownFacts
<1> QED
  BY <1>1, UsersInvariance, PTL DEF Spec, RepliesReachTheUser

(***************************************************************************)
(* A flow in use keeps its entry.  An entry's age and FIN flags are what    *)
(* was heard of the flow: every path of a packet through do_translation     *)
(* notes the time and the packet's flag, and nothing else does.             *)
(***************************************************************************)

EntryIsHeard(f) == mapping[f] # None => /\ mapping[f].idle = heard[f].since
                                        /\ mapping[f].fins = heard[f].ended
EntriesAreHeard == \A f \in Flow : EntryIsHeard(f)

\* A packet changes the entry of its flow and what is heard of it alike.
LEMMA PacketIsHeard ==
    ASSUME NatInv, EntriesAreHeard, NEW f \in Mapped, NEW side \in Side, NEW fin \in BOOLEAN,
           mapping' = [mapping EXCEPT ![f] = Touched(mapping[f], side, fin)],
           Hears(f, side, fin)
    PROVE  EntriesAreHeard' /\ Mapped' = Mapped
<1>1. f \in Flow /\ mapping[f] \in Mapping /\ mapping[f] # None
  BY DEF NatInv, TypeOK, Mapped
<1>2. /\ heard'[f] = [since |-> 0,
                      ended |-> IF fin THEN heard[f].ended \cup {side}
                                       ELSE heard[f].ended \ {side}]
      /\ \A g \in Flow : g # f => heard'[g] = heard[g]
  BY <1>1, HearsType DEF NatInv
<1>3. mapping'[f] = Touched(mapping[f], side, fin) /\ \A g \in Flow : g # f => mapping'[g] = mapping[g]
  BY <1>1 DEF NatInv, TypeOK
<1>4. /\ Touched(mapping[f], side, fin).idle = 0
      /\ Touched(mapping[f], side, fin).fins
           = IF fin THEN mapping[f].fins \cup {side} ELSE mapping[f].fins \ {side}
  BY <1>1 DEF Touched, Mapping
<1>5. mapping[f].fins = heard[f].ended
  BY <1>1 DEF EntriesAreHeard, EntryIsHeard
<1>6. heard'[f].since = 0 /\ heard'[f].ended = Touched(mapping[f], side, fin).fins
  BY <1>2, <1>4, <1>5
<1>7. EntryIsHeard(f)'
  BY <1>3, <1>4, <1>6 DEF EntryIsHeard
<1>8. ASSUME NEW g \in Flow, g # f PROVE EntryIsHeard(g)'
  BY <1>2, <1>3, <1>8 DEF EntriesAreHeard, EntryIsHeard
<1>9. mapping'[f] # None
  BY <1>1, <1>3, TouchedType, NoneAssumption
<1> QED
  BY <1>1, <1>3, <1>7, <1>8, <1>9 DEF EntriesAreHeard, Mapped

\* Nothing is heard of a flow that has no entry.
SilentUnlessMapped == \A f \in Flow : mapping[f] = None => heard[f] = Unheard

HeardInv == NatInv /\ EntriesAreHeard /\ SilentUnlessMapped

LEMMA OutNewIsHeard ==
    ASSUME HeardInv, NEW f \in Flow, NEW fin \in BOOLEAN, OutNew(f, fin)
    PROVE  EntriesAreHeard' /\ SilentUnlessMapped'
<1>1. PICK p \in PortMin .. PortMax :
          mapping' = [mapping EXCEPT ![f] = Touched(NewMapping(p), "internal", fin)]
  BY DEF OutNew
<1>2. f \notin Mapped /\ Hears(f, "internal", fin)
  BY DEF OutNew
<1>3. heard[f].ended = {}
  BY <1>2 DEF HeardInv, SilentUnlessMapped, Mapped, Unheard
<1>4. /\ heard'[f].since = 0 /\ heard'[f].ended = IF fin THEN {"internal"} ELSE {}
      /\ \A g \in Flow : g # f => heard'[g] = heard[g]
  <2>1. /\ heard'[f] = [since |-> 0,
                        ended |-> IF fin THEN heard[f].ended \cup {"internal"}
                                         ELSE heard[f].ended \ {"internal"}]
        /\ \A g \in Flow : g # f => heard'[g] = heard[g]
    BY <1>2, HearsType DEF HeardInv, NatInv, Side
  <2> QED
    BY <1>3, <2>1
<1>5. /\ mapping'[f] = Touched(NewMapping(p), "internal", fin)
      /\ \A g \in Flow : g # f => mapping'[g] = mapping[g]
  BY <1>1 DEF HeardInv, NatInv, TypeOK
<1>6. /\ Touched(NewMapping(p), "internal", fin).idle = 0
      /\ Touched(NewMapping(p), "internal", fin).fins = IF fin THEN {"internal"} ELSE {}
  BY DEF Touched, NewMapping
<1>7. mapping'[f] # None
  BY <1>5, NewMappingType, TouchedType, NoneAssumption DEF Side
<1>8. EntryIsHeard(f)'
  BY <1>4, <1>5, <1>6 DEF EntryIsHeard
<1>9. ASSUME NEW g \in Flow, g # f PROVE EntryIsHeard(g)'
  BY <1>4, <1>5, <1>9 DEF HeardInv, EntriesAreHeard, EntryIsHeard
<1> QED
  BY <1>4, <1>5, <1>7, <1>8, <1>9 DEF EntriesAreHeard, SilentUnlessMapped, HeardInv

\* The clock does as well.
LEMMA TickIsHeard ==
    ASSUME HeardInv, Tick
    PROVE  EntriesAreHeard' /\ SilentUnlessMapped' /\ Mapped' = Mapped
<1>1. ASSUME NEW f \in Flow, mapping[f] # None
      PROVE  mapping'[f] # None /\ EntryIsHeard(f)'
  <2>1. mapping[f] \in Mapping /\ heard[f] \in Silence
    BY <1>1 DEF HeardInv, NatInv, TypeOK
  <2>2. mapping'[f] = Older(mapping[f]) /\ heard'[f] = Longer(heard[f])
    BY <1>1 DEF Tick, Mapped
  <2>3. mapping[f].idle = heard[f].since /\ mapping[f].fins = heard[f].ended
    BY <1>1 DEF HeardInv, EntriesAreHeard, EntryIsHeard
  <2>4. heard[f].since \in 0 .. Timeout + 1
    BY <2>1 DEF Silence
  <2>5. Older(mapping[f]).idle = Longer(heard[f]).since
    BY <2>1, <2>3, <2>4, TimeoutAssumption DEF Older, Longer, Mapping, Silence
  <2>6. Older(mapping[f]).fins = Longer(heard[f]).ended
    BY <2>1, <2>3 DEF Older, Longer, Mapping, Silence
  <2>7. Older(mapping[f]) # None
    BY <2>1, OlderType, NoneAssumption
  <2> QED
    BY <2>2, <2>5, <2>6, <2>7 DEF EntryIsHeard
<1>2. ASSUME NEW f \in Flow, mapping[f] = None
      PROVE  mapping'[f] = None /\ heard'[f] = Unheard
  BY <1>2 DEF Tick, Mapped
<1> QED
  BY <1>1, <1>2 DEF EntriesAreHeard, EntryIsHeard, SilentUnlessMapped, Mapped

\* A flow that is forgotten was not in use.
Kept ==
    \A f \in Flow : mapping[f] # None /\ mapping'[f] = None /\ alive'
                        => heard[f].since > Timeout \/ heard[f].ended = Side

LEMMA SweepIsHeard ==
    ASSUME HeardInv, Sweep
    PROVE  EntriesAreHeard' /\ SilentUnlessMapped' /\ Kept
<1>1. PICK finished \in SUBSET {f \in Mapped : BothFinished(f)} :
          /\ mapping' = [f \in Flow |-> IF f \in finished \cup {g \in Mapped : Expired(g)}
                                        THEN None ELSE mapping[f]]
          /\ heard' = [f \in Flow |-> IF f \in finished \cup {g \in Mapped : Expired(g)}
                                      THEN Unheard ELSE heard[f]]
  BY DEF Sweep
<1> DEFINE gone == finished \cup {g \in Mapped : Expired(g)}
<1>2. ASSUME NEW f \in Flow, f \in gone
      PROVE  heard[f].since > Timeout \/ heard[f].ended = Side
  <2>1. mapping[f].idle = heard[f].since /\ mapping[f].fins = heard[f].ended
    BY <1>2 DEF HeardInv, EntriesAreHeard, EntryIsHeard, Mapped
  <2> QED
    BY <1>2, <2>1 DEF BothFinished, Expired
<1>3. \A f \in Flow : IF f \in gone THEN mapping'[f] = None /\ heard'[f] = Unheard
                                    ELSE mapping'[f] = mapping[f] /\ heard'[f] = heard[f]
  BY <1>1
<1> HIDE DEF gone
<1>4. EntriesAreHeard' /\ SilentUnlessMapped'
  BY <1>3 DEF HeardInv, EntriesAreHeard, EntryIsHeard, SilentUnlessMapped
<1>5. Kept
  BY <1>2, <1>3 DEF Kept
<1> QED
  BY <1>4, <1>5

LEMMA StepIsHeard ==
    ASSUME HeardInv, [Next]_vars
    PROVE  HeardInv' /\ Kept
<1>1. NatInv'
  BY StepKeepsInvariant DEF HeardInv
<1>2. ASSUME NEW f \in Mapped, NEW side \in Side, NEW fin \in BOOLEAN,
             mapping' = [mapping EXCEPT ![f] = Touched(mapping[f], side, fin)], Hears(f, side, fin)
      PROVE  EntriesAreHeard' /\ SilentUnlessMapped' /\ Kept
  <2>1. EntriesAreHeard' /\ Mapped' = Mapped
    BY <1>2, PacketIsHeard DEF HeardInv
  <2>2. f \in Flow /\ \A g \in Flow : g # f => heard'[g] = heard[g]
    BY <1>2, HearsType DEF HeardInv, NatInv, Mapped
  <2>3. \A g \in Flow : mapping'[g] = None <=> mapping[g] = None
    BY <2>1 DEF Mapped
  <2> QED
    BY <2>1, <2>2, <2>3 DEF SilentUnlessMapped, HeardInv, Kept, Mapped
<1>3. ASSUME NEW f \in Flow, NEW fin \in BOOLEAN, OutKnown(f, fin)
      PROVE  EntriesAreHeard' /\ SilentUnlessMapped' /\ Kept
  BY <1>2, <1>3 DEF OutKnown, Side
<1>4. ASSUME NEW f \in Flow, NEW fin \in BOOLEAN, OutNew(f, fin)
      PROVE  EntriesAreHeard' /\ SilentUnlessMapped' /\ Kept
  <2>1. \A g \in Flow : mapping[g] # None => mapping'[g] = mapping[g]
    BY <1>4 DEF OutNew, HeardInv, NatInv, TypeOK, Mapped
  <2> QED
    BY <1>4, <2>1, OutNewIsHeard DEF Kept
<1>5. ASSUME NEW b \in Bucket, NEW p \in Addressable, NEW fin \in BOOLEAN, InKnown(b, p, fin)
      PROVE  EntriesAreHeard' /\ SilentUnlessMapped' /\ Kept
  <2>1. PICK f \in Matches(b, p) :
            /\ mapping' = [mapping EXCEPT ![f] = Touched(mapping[f], "external", fin)]
            /\ Hears(f, "external", fin)
    BY <1>5 DEF InKnown
  <2> QED
    BY <1>2, <2>1 DEF Matches, Side
<1>6. ASSUME NEW b \in Bucket, NEW p \in Addressable, InStray(b, p)
      PROVE  EntriesAreHeard' /\ SilentUnlessMapped' /\ Kept
  BY <1>6 DEF InStray, EntriesAreHeard, EntryIsHeard, SilentUnlessMapped, Kept
<1>7. ASSUME Restart \/ UNCHANGED vars
      PROVE  EntriesAreHeard' /\ SilentUnlessMapped' /\ Kept
  <2>1. UNCHANGED <<mapping, heard>>
    BY <1>7 DEF Restart, vars
  <2> QED
    BY <2>1 DEF HeardInv, EntriesAreHeard, EntryIsHeard, SilentUnlessMapped, Kept
<1>8. ASSUME Tick
      PROVE  EntriesAreHeard' /\ SilentUnlessMapped' /\ Kept
  BY <1>8, TickIsHeard DEF Kept, Mapped
<1>9. EntriesAreHeard' /\ SilentUnlessMapped' /\ Kept
  BY <1>3, <1>4, <1>5, <1>6, <1>7, <1>8, SweepIsHeard DEF Next, Translate
<1> QED
  BY <1>1, <1>9 DEF HeardInv

LEMMA HeardInvariance == Spec => []HeardInv
<1>1. Init => HeardInv
  BY StartsInvariant DEF Init, HeardInv, EntriesAreHeard, EntryIsHeard, SilentUnlessMapped
<1>2. HeardInv /\ [Next]_vars => HeardInv'
  BY StepIsHeard
<1> QED
  BY <1>1, <1>2, PTL DEF Spec

\* A living process forgets a flow only when no packet of it has passed for more
\* than Timeout or the latest packets of both sides were FINs.
THEOREM KeptWhileUsedHolds == Spec => KeptWhileUsed
<1>1. HeardInv /\ [Next]_vars
        => [\A f \in Flow : mapping[f] # None /\ mapping'[f] = None /\ alive'
              => heard[f].since > Timeout \/ heard[f].ended = Side]_vars
  BY StepIsHeard DEF Kept
<1> QED
  BY <1>1, HeardInvariance, PTL DEF Spec, KeptWhileUsed

(***************************************************************************)
(* The switch                                                              *)
(***************************************************************************)

\* The age of an entry grows only with the time since the last sweep.
AgesAreBounded == \A e \in table : e.age <= MacPortTimeout + 1 + since

\* A host whose frame is handled has not been at another port for a second.
FrameIsFresh ==
    frame.step # "idle" /\ frame.in # where[frame.src] => settled[frame.src] = 0

\* Nothing is known of a host whose entry is about to be added.
InsertsTheUnknown == frame.step = "insert" => Hits(frame.src) = {}

\* The inductive invariant.
SwitchInv ==
    /\ SwitchTypeOK /\ AgesAreBounded /\ FrameIsFresh /\ InsertsTheUnknown
    /\ OneEntryEach /\ WrongIsOld /\ FrameReaches

LEMMA SwitchStarts == SwitchInit => SwitchInv
BY SwitchAssumption, HomeAssumption
DEF SwitchInit, SwitchInv, SwitchTypeOK, AgesAreBounded, FrameIsFresh, InsertsTheUnknown, OneEntryEach,
    WrongIsOld, FrameReaches, Frame, Idle, Old, Oldest, Entry

LEMMA ArriveKeeps ==
    ASSUME SwitchInv, NEW src \in Host, NEW dst \in Host, Arrive(src, dst)
    PROVE  SwitchInv'
<1>1. frame' \in Frame
  BY DEF Arrive, Frame, SwitchInv, SwitchTypeOK
<1>2. frame'.step = "forward" /\ frame'.src = src /\ frame'.in = where[src]
  BY DEF Arrive
<1> QED
  BY <1>1, <1>2 DEF Arrive, environment, SwitchInv, SwitchTypeOK, AgesAreBounded, FrameIsFresh,
     InsertsTheUnknown, OneEntryEach, WrongIsOld, FrameReaches, Hits

LEMMA ForwardKeeps ==
    ASSUME SwitchInv, Forward
    PROVE  SwitchInv'
<1>1. frame \in [step : {"forward"}, src : Host, dst : Host, in : Port]
  BY DEF SwitchInv, SwitchTypeOK, Frame, Forward, Idle
<1>2. PICK out \in IF Hits(frame.dst) # {}
                   THEN {{e.port} : e \in Hits(frame.dst)}
                   ELSE {Broadcast(frame.in)} :
          frame' = [step |-> "known", src |-> frame.src, dst |-> frame.dst,
                    in |-> frame.in, out |-> out]
  BY DEF Forward
<1>3. /\ table' = table /\ where' = where /\ settled' = settled /\ moves' = moves
      /\ lag' = lag /\ since' = since
  BY DEF Forward, environment
<1>4. out \subseteq Port
  BY <1>2 DEF Hits, Broadcast, SwitchInv, SwitchTypeOK, Entry
<1>5. settled[frame.dst] > Oldest => where[frame.dst] \in out \cup {frame.in}
  <2> SUFFICES ASSUME settled[frame.dst] > Oldest
               PROVE  where[frame.dst] \in out \cup {frame.in}
    OBVIOUS
  <2>1. CASE Hits(frame.dst) # {}
    <3>1. PICK e \in Hits(frame.dst) : out = {e.port}
      BY <1>2, <2>1
    <3>2. e \in table /\ e.mac = frame.dst /\ e.age \in 0 .. Oldest
      BY <3>1 DEF Hits, SwitchInv, SwitchTypeOK, Entry
    <3>3. settled[frame.dst] \in 0 .. Old
      BY <1>1 DEF SwitchInv, SwitchTypeOK
    <3>4. ~(e.age >= settled[frame.dst])
      BY <3>2, <3>3, SwitchAssumption DEF Old, Oldest
    <3> QED BY <3>1, <3>2, <3>4 DEF SwitchInv, WrongIsOld
  <2>2. CASE Hits(frame.dst) = {}
    BY <1>1, <1>2, <2>2 DEF Broadcast, SwitchInv, SwitchTypeOK
  <2> QED BY <2>1, <2>2
<1>6. frame' \in [step : {"known"}, src : Host, dst : Host, in : Port, out : SUBSET Port]
  BY <1>1, <1>2, <1>4
<1>7. FrameReaches'
  BY <1>2, <1>3, <1>5 DEF FrameReaches
<1> QED
  BY <1>1, <1>2, <1>3, <1>6, <1>7 DEF SwitchInv, SwitchTypeOK, Frame, AgesAreBounded, FrameIsFresh,
     InsertsTheUnknown, OneEntryEach, WrongIsOld, Hits

LEMMA LookupSourceKeeps ==
    ASSUME SwitchInv, LookupSource
    PROVE  SwitchInv'
<1>1. frame \in [step : {"known"}, src : Host, dst : Host, in : Port, out : SUBSET Port]
  BY DEF SwitchInv, SwitchTypeOK, Frame, LookupSource, Idle
<1>2. \/ frame' = Idle
      \/ Hits(frame.src) = {} /\ frame' = [step |-> "insert", src |-> frame.src, in |-> frame.in]
  BY DEF LookupSource
<1>3. /\ table' = table /\ where' = where /\ settled' = settled /\ moves' = moves
      /\ lag' = lag /\ since' = since
  BY DEF LookupSource, environment
<1>4. frame' \in Frame
  BY <1>1, <1>2 DEF Frame
<1> QED
  BY <1>1, <1>2, <1>3, <1>4 DEF Idle, SwitchInv, SwitchTypeOK, AgesAreBounded, FrameIsFresh,
     InsertsTheUnknown, OneEntryEach, WrongIsOld, FrameReaches, Hits

LEMMA InsertKeeps ==
    ASSUME SwitchInv, Insert
    PROVE  SwitchInv'
<1>1. frame \in [step : {"insert"}, src : Host, in : Port]
  BY DEF SwitchInv, SwitchTypeOK, Frame, Insert, Idle
<1> DEFINE e == [mac |-> frame.src, port |-> frame.in, age |-> 0]
<1>2. e \in Entry
  BY <1>1, SwitchAssumption DEF Entry, Oldest
<1>3. /\ table' = table \cup {e} /\ frame' = Idle
      /\ where' = where /\ settled' = settled /\ moves' = moves /\ lag' = lag /\ since' = since
  BY DEF Insert, environment
<1>4. SwitchTypeOK'
  BY <1>2, <1>3 DEF SwitchInv, SwitchTypeOK, Frame
<1>5. AgesAreBounded'
  BY <1>3, SwitchAssumption DEF SwitchInv, SwitchTypeOK, AgesAreBounded
<1>6. OneEntryEach'
  BY <1>1, <1>3 DEF SwitchInv, OneEntryEach, InsertsTheUnknown, Hits
<1>7. WrongIsOld'
  BY <1>1, <1>3 DEF SwitchInv, WrongIsOld, FrameIsFresh
<1> QED
  BY <1>3, <1>4, <1>5, <1>6, <1>7 DEF Idle, SwitchInv, FrameIsFresh, InsertsTheUnknown, FrameReaches

LEMMA SweepKeeps ==
    ASSUME SwitchInv, SweepStart \/ SweepRun
    PROVE  SwitchInv'
<1>1. CASE SweepStart
  BY <1>1 DEF SweepStart, environment, SwitchInv, SwitchTypeOK, AgesAreBounded, FrameIsFresh,
     InsertsTheUnknown, OneEntryEach, WrongIsOld, FrameReaches, Hits
<1>2. CASE SweepRun
  <2>1. /\ table' \subseteq table /\ frame' = frame /\ since' = 0 /\ lag' = -1
        /\ where' = where /\ settled' = settled /\ moves' = moves
        /\ \A e \in table' : ~(e.age - lag > MacPortTimeout)
    BY <1>2 DEF SweepRun, environment, Aged
  <2>2. AgesAreBounded'
    BY <2>1, SwitchAssumption DEF SwitchInv, SwitchTypeOK, Entry, AgesAreBounded
  <2> QED
    BY <2>1, <2>2 DEF SwitchInv, SwitchTypeOK, FrameIsFresh, InsertsTheUnknown, OneEntryEach,
       WrongIsOld, FrameReaches, Hits
<1> QED
  BY <1>1, <1>2

LEMMA TickKeeps ==
    ASSUME SwitchInv, SwitchTick
    PROVE  SwitchInv'
<1>1. \A e \in table : e \in Entry /\ e.age <= MacPortTimeout + 1 + since
  BY DEF SwitchInv, SwitchTypeOK, AgesAreBounded
<1>2. since \in 0 .. 1 /\ since' = since + 1 /\ frame = Idle /\ frame' = Idle
      /\ where' = where /\ moves' = moves
  BY DEF SwitchTick, SwitchInv, SwitchTypeOK
<1>3. ASSUME NEW e \in table
      PROVE  /\ [e EXCEPT !.age = @ + 1] \in Entry
             /\ [e EXCEPT !.age = @ + 1].age = e.age + 1
             /\ [e EXCEPT !.age = @ + 1].mac = e.mac
             /\ [e EXCEPT !.age = @ + 1].port = e.port
             /\ e.age + 1 <= MacPortTimeout + 1 + since'
  BY <1>1, <1>2, SwitchAssumption DEF Entry, Oldest
<1>4. \A d \in table' : \E e \in table :
          d \in Entry /\ d.age = e.age + 1 /\ d.mac = e.mac /\ d.port = e.port
              /\ e.age + 1 <= MacPortTimeout + 1 + since'
  <2> TAKE d \in table'
  <2>1. PICK e \in table : d = [e EXCEPT !.age = @ + 1]
    BY DEF SwitchTick
  <2>2. /\ d \in Entry /\ d.age = e.age + 1 /\ d.mac = e.mac /\ d.port = e.port
        /\ e.age + 1 <= MacPortTimeout + 1 + since'
    BY <1>3, <2>1
  <2> QED BY <2>2
<1>5. /\ settled' = [h \in Host |-> IF settled[h] < Old THEN settled[h] + 1 ELSE Old]
      /\ settled' \in [Host -> 0 .. Old]
  BY SwitchAssumption DEF SwitchTick, SwitchInv, SwitchTypeOK, Old, Oldest
<1>6. lag' \in -1 .. 1
  BY DEF SwitchTick, SwitchInv, SwitchTypeOK
<1>7. SwitchTypeOK'
  <2>1. table' \subseteq Entry
    BY <1>4
  <2>2. since' \in 0 .. 2
    BY <1>2
  <2> QED BY <1>2, <1>5, <1>6, <2>1, <2>2 DEF SwitchInv, SwitchTypeOK
<1>8. AgesAreBounded'
  BY <1>4 DEF AgesAreBounded
<1>9. OneEntryEach'
  <2> SUFFICES ASSUME NEW d \in table', NEW f \in table', d.mac = f.mac
               PROVE  d = f
    BY DEF OneEntryEach
  <2>1. PICK e \in table : d = [e EXCEPT !.age = @ + 1]
    BY DEF SwitchTick
  <2>2. PICK g \in table : f = [g EXCEPT !.age = @ + 1]
    BY DEF SwitchTick
  <2>3. e.mac = g.mac
    BY <1>3, <2>1, <2>2
  <2> QED BY <2>1, <2>2, <2>3 DEF SwitchInv, OneEntryEach
<1>10. WrongIsOld'
  <2> SUFFICES ASSUME NEW d \in table', d.port # where[d.mac]
               PROVE  d.age >= settled'[d.mac]
    BY <1>2 DEF WrongIsOld
  <2>1. PICK e \in table : d.age = e.age + 1 /\ d.mac = e.mac /\ d.port = e.port
    BY <1>4
  <2>2. e.age >= settled[e.mac] /\ e.mac \in Host /\ e.age \in 0 .. Oldest
    BY <1>1, <2>1 DEF SwitchInv, WrongIsOld, Entry
  <2>3. settled[e.mac] \in 0 .. Old /\ settled'[e.mac] = IF settled[e.mac] < Old THEN settled[e.mac] + 1 ELSE Old
    BY <1>5, <2>2 DEF SwitchInv, SwitchTypeOK
  <2> QED BY <2>1, <2>2, <2>3, SwitchAssumption DEF Old, Oldest
<1> QED
  BY <1>2, <1>7, <1>8, <1>9, <1>10 DEF Idle, SwitchInv, FrameIsFresh, InsertsTheUnknown, FrameReaches

LEMMA MoveKeeps ==
    ASSUME SwitchInv, NEW h \in Host, NEW port \in Port, Move(h, port)
    PROVE  SwitchInv'
<1>1. /\ where' = [where EXCEPT ![h] = port] /\ settled' = [settled EXCEPT ![h] = 0]
      /\ moves' = moves + 1 /\ moves < MaxMoves
      /\ table' = table /\ frame' = frame /\ lag' = lag /\ since' = since
  BY DEF Move
<1>2. SwitchTypeOK'
  BY <1>1, SwitchAssumption DEF SwitchInv, SwitchTypeOK, Old, Oldest
<1>3. WrongIsOld'
  <2> SUFFICES ASSUME NEW e \in table, e.port # where'[e.mac]
               PROVE  e.age >= settled'[e.mac]
    BY <1>1 DEF WrongIsOld
  <2>1. e.mac \in Host /\ e.age \in Nat
    BY SwitchAssumption DEF SwitchInv, SwitchTypeOK, Entry, Oldest
  <2>2. CASE e.mac = h
    BY <1>1, <2>1, <2>2 DEF SwitchInv, SwitchTypeOK
  <2>3. CASE e.mac # h
    BY <1>1, <2>1, <2>3 DEF SwitchInv, SwitchTypeOK, WrongIsOld
  <2> QED BY <2>2, <2>3
<1>4. FrameIsFresh'
  <2> SUFFICES ASSUME frame.step # "idle", frame.in # where'[frame.src]
               PROVE  settled'[frame.src] = 0
    BY <1>1 DEF FrameIsFresh
  <2>1. frame.src \in Host
    BY DEF SwitchInv, SwitchTypeOK, Frame, Idle
  <2> QED BY <1>1, <2>1 DEF SwitchInv, SwitchTypeOK, FrameIsFresh
<1>5. FrameReaches'
  <2> SUFFICES ASSUME frame.step = "known", settled'[frame.dst] > Oldest
               PROVE  where'[frame.dst] \in frame.out \cup {frame.in}
    BY <1>1 DEF FrameReaches
  <2>1. frame.dst \in Host
    BY DEF SwitchInv, SwitchTypeOK, Frame, Idle
  <2>2. frame.dst # h
    BY <1>1, <2>1, SwitchAssumption DEF SwitchInv, SwitchTypeOK, Oldest
  <2> QED BY <1>1, <2>1, <2>2 DEF SwitchInv, SwitchTypeOK, FrameReaches
<1> QED
  BY <1>1, <1>2, <1>3, <1>4, <1>5 DEF SwitchInv, AgesAreBounded, InsertsTheUnknown, OneEntryEach, Hits

LEMMA SwitchInvariance == SwitchSpec => []SwitchInv
<1>1. SwitchInv /\ [SwitchNext]_switchVars => SwitchInv'
  <2> SUFFICES ASSUME SwitchInv, [SwitchNext]_switchVars PROVE SwitchInv'
    OBVIOUS
  <2>1. CASE UNCHANGED switchVars
    BY <2>1 DEF switchVars, environment, SwitchInv, SwitchTypeOK, AgesAreBounded, FrameIsFresh, InsertsTheUnknown,
       OneEntryEach, WrongIsOld, FrameReaches, Hits
  <2>2. ASSUME NEW h \in Host, Sends(h) PROVE SwitchInv'
    BY <2>2, ArriveKeeps DEF Sends
  <2> QED
    BY <2>1, <2>2, ForwardKeeps, LookupSourceKeeps, InsertKeeps, SweepKeeps, TickKeeps, MoveKeeps
    DEF SwitchNext
<1> QED
  BY <1>1, SwitchStarts, PTL DEF SwitchSpec

\* Every variable keeps its type; no entry gets older than Oldest.
THEOREM SwitchTypeCorrect == SwitchSpec => []SwitchTypeOK
<1>1. SwitchInv => SwitchTypeOK
  BY DEF SwitchInv
<1> QED
  BY <1>1, SwitchInvariance, PTL

\* No host has two entries.
THEOREM EntriesAreUnique == SwitchSpec => []OneEntryEach
<1>1. SwitchInv => OneEntryEach
  BY DEF SwitchInv
<1> QED
  BY <1>1, SwitchInvariance, PTL

\* A wrong entry is at least as old as the host's move.
THEOREM WrongEntriesAreOld == SwitchSpec => []WrongIsOld
<1>1. SwitchInv => WrongIsOld
  BY DEF SwitchInv
<1> QED
  BY <1>1, SwitchInvariance, PTL

\* A frame for a host that has settled leaves by its port.
THEOREM FramesReachTheSettled == SwitchSpec => []FrameReaches
<1>1. SwitchInv => FrameReaches
  BY DEF SwitchInv
<1> QED
  BY <1>1, SwitchInvariance, PTL
=============================================================================
