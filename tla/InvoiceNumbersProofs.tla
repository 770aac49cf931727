------------------------ MODULE InvoiceNumbersProofs ------------------------
(***************************************************************************)
(* Theorems about the invoice numbers, for every value of the constants:   *)
(*                                                                         *)
(*   TypeCorrect        Spec => []TypeOK                                   *)
(*   LeasesNeverShare   Spec => [](LeasesDisjoint /\ OneLiveLease)         *)
(*   PaperIsUnique      Spec => [](DevicesPrintOnce /\ NumbersRise)        *)
(*   WebSalesNeverMeet  Spec => []WebNumbersFresh                          *)
(*                                                                         *)
(* The argument: under the lock, what a request has read as the highest    *)
(* number is still the highest when it inserts, so every lease lies above  *)
(* all others; a device only ever draws inside a lease of its own, above   *)
(* all it drew before, unless it resumed one.                              *)
(***************************************************************************)
EXTENDS InvoiceNumbers, NumberFacts, FiniteSetTheorems, TLAPS

\* There are bounds on what max() is taken of.
Bounded ==
  /\ \E n \in Nat : \A l \in leases : l.to <= n
  /\ \E n \in Nat : \A b \in printed : b.number <= n

TInv == TypeOK /\ Bounded

-----------------------------------------------------------------------------
(* Facts about the operators.                                              *)

\* max() of a bounded column is a natural, no member above it.
LEMMA HighestBounds ==
  ASSUME NEW S \in SUBSET Nat, NEW n \in Nat, \A y \in S : y <= n
  PROVE  Highest(S) \in Nat /\ \A y \in S : y <= Highest(S)
<1>1. CASE S = {}
  BY <1>1 DEF Highest
<1>2. CASE S # {}
  <2>1. \E m \in S : \A y \in S : y <= m
    BY <1>2, GreatestExists
  <2>2. Highest(S) = CHOOSE m \in S : \A y \in S : y <= m
    BY <1>2 DEF Highest
  <2> QED BY <2>1, <2>2
<1> QED BY <1>1, <1>2

LEMMA HighestLease ==
  ASSUME TInv
  PROVE  /\ Highest({l.to : l \in leases}) \in Nat
         /\ \A m \in leases : m.to <= Highest({l.to : l \in leases})
<1> DEFINE S == {l.to : l \in leases}
<1>1. PICK n \in Nat : \A l \in leases : l.to <= n
  BY DEF TInv, Bounded
<1>2. S \in SUBSET Nat /\ \A y \in S : y <= n
  BY <1>1 DEF TInv, TypeOK, LeaseTypeOK, Lease
<1>3. Highest(S) \in Nat /\ \A y \in S : y <= Highest(S)
  <2> HIDE DEF S
  <2> QED BY <1>2, HighestBounds
<1> QED BY <1>3

LEMMA HighestNumber ==
  ASSUME TInv
  PROVE  /\ Highest({s.number : s \in sales}) \in Nat
         /\ \A b \in sales : b.number <= Highest({s.number : s \in sales})
<1> DEFINE S == {s.number : s \in sales}
<1>1. PICK n \in Nat : \A b \in printed : b.number <= n
  BY DEF TInv, Bounded
<1>2. S \in SUBSET Nat /\ \A y \in S : y <= n
  BY <1>1 DEF TInv, TypeOK, SalesTypeOK, Bill
<1>3. Highest(S) \in Nat /\ \A y \in S : y <= Highest(S)
  <2> HIDE DEF S
  <2> QED BY <1>2, HighestBounds
<1> QED BY <1>3

\* A request that runs serves a device that asked for a block.
LEMMA RunningAsks ==
  ASSUME TypeOK, NEW r \in Requests, stage[r] # "free"
  PROVE  ask[r].device \in Devices /\ ask[r].size \in Nat \ {0} /\ granted[r].from \in Nat
         /\ granted[r].to \in Nat /\ highest[r] \in Nat
BY NumbersAssumption DEF TypeOK, LeaseTypeOK

\* What IssueLease inserts.
Inserted(r) ==
  [device |-> ask[r].device, from |-> NextRange(highest[r], ask[r].size).from,
   to |-> NextRange(highest[r], ask[r].size).to, live |-> TRUE]

\* The new lease, and the old ones but for `live`.
LEMMA Issued ==
  ASSUME TypeOK, NEW r \in Requests, IssueLease(r)
  PROVE  /\ Inserted(r) \in Lease /\ Inserted(r).device = ask[r].device /\ Inserted(r).live
         /\ Inserted(r).from = highest[r] + 1 /\ Inserted(r).to = highest[r] + ask[r].size
         /\ Inserted(r) \in leases'
         /\ \A l \in leases' : l = Inserted(r) \/
              \E m \in leases : /\ l.device = m.device /\ l.from = m.from /\ l.to = m.to
                                /\ l = IF m.device = ask[r].device THEN [m EXCEPT !.live = FALSE] ELSE m
         /\ \A m \in leases : \E l \in leases' :
              l.device = m.device /\ l.from = m.from /\ l.to = m.to
<1>0. ask[r].device \in Devices /\ ask[r].size \in Nat /\ highest[r] \in Nat /\ leases \subseteq Lease
  BY RunningAsks DEF IssueLease, TypeOK, LeaseTypeOK
<1>1. leases' = Retired(ask[r].device) \cup {Inserted(r)}
  BY DEF IssueLease, Inserted
<1>2. /\ Inserted(r) \in Lease /\ Inserted(r).device = ask[r].device /\ Inserted(r).live
      /\ Inserted(r).from = highest[r] + 1 /\ Inserted(r).to = highest[r] + ask[r].size
  BY <1>0 DEF Inserted, NextRange, Lease
<1>3. \A m \in leases : [m EXCEPT !.live = FALSE].device = m.device
                        /\ [m EXCEPT !.live = FALSE].from = m.from
                        /\ [m EXCEPT !.live = FALSE].to = m.to
  BY <1>0 DEF Lease
<1>4. ASSUME NEW l \in Retired(ask[r].device)
      PROVE  \E m \in leases : /\ l.device = m.device /\ l.from = m.from /\ l.to = m.to
                               /\ l = IF m.device = ask[r].device THEN [m EXCEPT !.live = FALSE] ELSE m
  <2>1. PICK m \in leases : l = IF m.device = ask[r].device THEN [m EXCEPT !.live = FALSE] ELSE m
    BY <1>4 DEF Retired
  <2>2. l.device = m.device /\ l.from = m.from /\ l.to = m.to
    BY <1>3, <2>1
  <2> QED BY <2>1, <2>2
<1>5. ASSUME NEW m \in leases
      PROVE  \E l \in leases' : l.device = m.device /\ l.from = m.from /\ l.to = m.to
  BY <1>1, <1>3, <1>5 DEF Retired
<1> QED BY <1>1, <1>2, <1>4, <1>5

-----------------------------------------------------------------------------
(* Type correctness.                                                       *)

LEMMA NewBillType ==
  ASSUME TypeOK, NEW n \in Nat, NEW by \in Devices \cup {Web}
  PROVE  /\ NewBill(n, by) \in Bill /\ Cardinality(printed) \in Nat
         /\ NewBill(n, by).number = n /\ NewBill(n, by).by = by
         /\ NewBill(n, by).id = Cardinality(printed)
BY FS_CardinalityType DEF TypeOK, SalesTypeOK, NewBill, Bill

LEMMA LeaseStepType ==
  ASSUME TInv, NEW r \in Requests, LeaseStep(r)
  PROVE  TInv'
<1>0. TypeOK /\ LeaseTypeOK /\ DeviceTypeOK /\ SalesTypeOK /\ Bounded
  BY DEF TInv, TypeOK
<1>1. SalesTypeOK'
  BY <1>0 DEF LeaseStep, AskLease, LockSeries, ReadHighest, IssueLease, FailLease, InstallLease,
              DropLease, deviceVars, salesVars, SalesTypeOK
<1>2. Bounded' <=> \E n \in Nat : \A l \in leases' : l.to <= n
  BY <1>0 DEF LeaseStep, AskLease, LockSeries, ReadHighest, IssueLease, FailLease, InstallLease,
              DropLease, Bounded
<1>3. \A n \in Sizes, d \in Devices : [device |-> d, size |-> n] # NoAsk
  BY NumbersAssumption DEF NoAsk
<1>4. NoLease \in [from : Nat, to : Nat]
  BY DEF NoLease
<1>5. ASSUME NEW d \in Devices, NEW n \in Sizes, AskLease(r, d, n) PROVE TInv'
  BY <1>0, <1>1, <1>2, <1>3, <1>5 DEF AskLease, TInv, TypeOK, LeaseTypeOK, DeviceTypeOK, Bounded
<1>6. CASE LockSeries(r)
  BY <1>0, <1>1, <1>2, <1>6, NumbersAssumption
     DEF LockSeries, TInv, TypeOK, LeaseTypeOK, DeviceTypeOK, deviceVars, Bounded
<1>7. CASE ReadHighest(r)
  <2>1. Highest({l.to : l \in leases}) \in Nat
    BY HighestLease
  <2> QED BY <1>0, <1>1, <1>2, <1>7, <2>1
          DEF ReadHighest, TInv, TypeOK, LeaseTypeOK, DeviceTypeOK, deviceVars, Bounded
<1>8. CASE IssueLease(r)
  <2>1. PICK n \in Nat : \A l \in leases : l.to <= n
    BY <1>0 DEF Bounded
  <2>2. highest[r] \in Nat /\ ask[r].size \in Nat
    BY <1>0, <1>8, RunningAsks DEF IssueLease
  <2>3. \A l \in leases' : l.to <= n + highest[r] + ask[r].size
    BY <1>0, <1>8, <2>1, <2>2, Issued DEF LeaseTypeOK, Lease
  <2>4. Bounded'
    BY <1>2, <2>2, <2>3
  <2>5. leases' \subseteq Lease
    <3> SUFFICES ASSUME NEW l \in leases', l # Inserted(r) PROVE l \in Lease
      BY <1>0, <1>8, Issued
    <3>1. PICK m \in leases : l = IF m.device = ask[r].device THEN [m EXCEPT !.live = FALSE] ELSE m
      BY <1>0, <1>8, Issued
    <3> QED BY <1>0, <3>1 DEF LeaseTypeOK, Lease
  <2>6. IsFiniteSet(leases')
    <3>1. IsFiniteSet(Retired(ask[r].device))
      <4> DEFINE retire == [l \in leases |->
                             IF l.device = ask[r].device THEN [l EXCEPT !.live = FALSE] ELSE l]
      <4>1. retire \in Surjection(leases, Retired(ask[r].device))
        BY DEF Retired, Surjection
      <4> QED BY <1>0, <4>1, FS_Surjection DEF LeaseTypeOK
    <3> QED BY <1>8, <3>1, FS_AddElement DEF IssueLease
  <2>7. NextRange(highest[r], ask[r].size) \in [from : Nat, to : Nat]
    BY <2>2 DEF NextRange
  <2> QED BY <1>0, <1>1, <1>8, <2>4, <2>5, <2>6, <2>7, NumbersAssumption
          DEF IssueLease, TInv, TypeOK, LeaseTypeOK, DeviceTypeOK, deviceVars
<1>9. CASE FailLease(r)
  BY <1>0, <1>1, <1>2, <1>4, <1>9, NumbersAssumption
     DEF FailLease, Close, TInv, TypeOK, LeaseTypeOK, DeviceTypeOK, Bounded
<1>10. CASE InstallLease(r)
  BY <1>0, <1>1, <1>2, <1>4, <1>10, RunningAsks
     DEF InstallLease, Close, TInv, TypeOK, LeaseTypeOK, DeviceTypeOK, Bounded
<1>11. CASE DropLease(r)
  BY <1>0, <1>1, <1>2, <1>4, <1>11
     DEF DropLease, Close, TInv, TypeOK, LeaseTypeOK, DeviceTypeOK, deviceVars, Bounded
<1> QED BY <1>5, <1>6, <1>7, <1>8, <1>9, <1>10, <1>11 DEF LeaseStep

\* What drawing a number leaves of the block.
LEMMA Drawn ==
  ASSUME TypeOK, NEW d \in Devices
  PROVE  [block EXCEPT ![d].next = @ + 1]
           = [block EXCEPT ![d] = [next |-> block[d].next + 1, to |-> block[d].to]]
<1>1. block \in [Devices -> [next : Nat, to : Nat]]
  BY DEF TypeOK, DeviceTypeOK
<1>2. [block[d] EXCEPT !.next = @ + 1] = [next |-> block[d].next + 1, to |-> block[d].to]
  BY <1>1
<1> QED BY <1>1, <1>2

LEMMA DeviceStepType ==
  ASSUME TInv, NEW d \in Devices, DeviceStep(d)
  PROVE  TInv'
<1>0. TypeOK /\ LeaseTypeOK /\ DeviceTypeOK /\ SalesTypeOK /\ Bounded
  BY DEF TInv, TypeOK
<1>1. LeaseTypeOK' /\ leases' = leases
  BY <1>0 DEF DeviceStep, GiveUp, Reinstall, Resume, RecordSale, leaseVars, LeaseTypeOK
<1>2. NoBlock \in [next : Nat, to : Nat]
  BY DEF NoBlock
<1>3. CASE GiveUp(d)
  BY <1>0, <1>1, <1>3 DEF GiveUp, TInv, TypeOK, DeviceTypeOK, SalesTypeOK, salesVars, Bounded
<1>4. CASE Reinstall(d)
  BY <1>0, <1>1, <1>2, <1>4 DEF Reinstall, TInv, TypeOK, DeviceTypeOK, SalesTypeOK, salesVars, Bounded
<1>5. CASE Resume(d)
  <2>1. PICK l \in leases : block' = [block EXCEPT ![d] = [next |-> l.from, to |-> l.to]]
    BY <1>5 DEF Resume
  <2>2. [next |-> l.from, to |-> l.to] \in [next : Nat, to : Nat]
    BY <1>0 DEF LeaseTypeOK, Lease
  <2>3. DeviceTypeOK'
    BY <1>0, <1>5, <2>1, <2>2 DEF Resume, DeviceTypeOK
  <2> QED BY <1>0, <1>1, <1>5, <2>3 DEF Resume, TInv, TypeOK, SalesTypeOK, salesVars, Bounded
<1>6. CASE RecordSale(d)
  <2> DEFINE b == NewBill(block[d].next, d)
  <2>1. block[d].next \in Nat /\ block[d].to \in Nat
    BY <1>0 DEF DeviceTypeOK
  <2>2. b \in Bill /\ b.number = block[d].next
    BY <1>0, <2>1, NewBillType
  <2>3. printed' = printed \cup {b} /\ queue' = queue \cup {b} /\ UNCHANGED <<waits, resumed, salesVars>>
        /\ block' = [block EXCEPT ![d] = [next |-> block[d].next + 1, to |-> block[d].to]]
    BY <1>0, <1>6, Drawn DEF RecordSale
  <2> HIDE DEF b
  <2>4. IsFiniteSet(printed')
    BY <1>0, <2>3, FS_AddElement DEF SalesTypeOK
  <2>5. SalesTypeOK'
    BY <1>0, <2>2, <2>3, <2>4 DEF SalesTypeOK, salesVars
  <2>6. DeviceTypeOK'
    BY <1>0, <2>1, <2>3 DEF DeviceTypeOK
  <2>7. PICK n \in Nat : \A c \in printed : c.number <= n
    BY <1>0 DEF Bounded
  <2>8. \A c \in printed' : c.number <= n + block[d].next
    BY <1>0, <2>1, <2>2, <2>3, <2>7 DEF SalesTypeOK, Bill
  <2>9. Bounded'
    BY <1>0, <1>1, <2>1, <2>8 DEF Bounded
  <2> QED BY <1>1, <2>5, <2>6, <2>9 DEF TInv, TypeOK
<1> QED BY <1>3, <1>4, <1>5, <1>6 DEF DeviceStep

LEMMA SalesStepType ==
  ASSUME TInv, (\E b \in queue : BillStep(b)) \/ (\E t \in Tellers : TellerStep(t))
  PROVE  TInv'
<1>0. TypeOK /\ LeaseTypeOK /\ DeviceTypeOK /\ SalesTypeOK /\ Bounded
  BY DEF TInv, TypeOK
<1>1. LeaseTypeOK' /\ DeviceTypeOK' /\ leases' = leases
  BY <1>0 DEF BillStep, Accept, Acknowledge, TellerStep, LockNumbers, NextSaleNumber, CommitSale,
              FailSale, leaseVars, deviceVars, LeaseTypeOK, DeviceTypeOK
<1>2. ASSUME NEW b \in queue, BillStep(b) PROVE TInv'
  BY <1>0, <1>1, <1>2
     DEF BillStep, Accept, Acknowledge, deviceVars, salesVars, TInv, TypeOK, SalesTypeOK, Bounded
<1>3. ASSUME NEW t \in Tellers, TellerStep(t) PROVE TInv'
  <2>1. CASE LockNumbers(t)
    BY <1>0, <1>1, <2>1, NumbersAssumption
       DEF LockNumbers, deviceVars, TInv, TypeOK, SalesTypeOK, Bounded
  <2>2. CASE NextSaleNumber(t)
    <3>1. Highest({s.number : s \in sales}) + 1 \in Nat
      BY HighestNumber
    <3> QED BY <1>0, <1>1, <2>2, <3>1 DEF NextSaleNumber, deviceVars, TInv, TypeOK, SalesTypeOK, Bounded
  <2>3. CASE CommitSale(t)
    <3> DEFINE b == NewBill(drawn[t], Web)
    <3>1. drawn[t] \in Nat
      BY <1>0 DEF SalesTypeOK
    <3>2. b \in Bill /\ b.number = drawn[t]
      BY <1>0, <3>1, NewBillType
    <3>3. printed' = printed \cup {b} /\ sales' = sales \cup {b} /\ queue' = queue /\ CloseSale(t)
      BY <2>3 DEF CommitSale, deviceVars
    <3> HIDE DEF b
    <3>4. IsFiniteSet(printed')
      BY <1>0, <3>3, FS_AddElement DEF SalesTypeOK
    <3>5. SalesTypeOK'
      BY <1>0, <3>2, <3>3, <3>4, NumbersAssumption DEF SalesTypeOK, CloseSale
    <3>6. PICK n \in Nat : \A c \in printed : c.number <= n
      BY <1>0 DEF Bounded
    <3>7. \A c \in printed' : c.number <= n + drawn[t]
      BY <1>0, <3>1, <3>2, <3>3, <3>6 DEF SalesTypeOK, Bill
    <3>8. Bounded'
      BY <1>0, <1>1, <3>1, <3>7 DEF Bounded
    <3> QED BY <1>1, <3>5, <3>8 DEF TInv, TypeOK
  <2>4. CASE FailSale(t)
    BY <1>0, <1>1, <2>4, NumbersAssumption
       DEF FailSale, CloseSale, deviceVars, TInv, TypeOK, SalesTypeOK, Bounded
  <2> QED BY <1>3, <2>1, <2>2, <2>3, <2>4 DEF TellerStep
<1> QED BY <1>2, <1>3

LEMMA TInvStep ==
  ASSUME TInv, [Next]_vars
  PROVE  TInv'
<1>1. CASE UNCHANGED vars
  BY <1>1 DEF vars, leaseVars, deviceVars, salesVars, TInv, TypeOK, LeaseTypeOK, DeviceTypeOK,
              SalesTypeOK, Bounded
<1> QED BY <1>1, LeaseStepType, DeviceStepType, SalesStepType DEF Next

LEMMA TInvInvariant == Spec => []TInv
<1>1. Init => TInv
  <2> SUFFICES ASSUME Init PROVE TInv
    OBVIOUS
  <2>1. IsFiniteSet({})
    BY FS_EmptySet
  <2>2. Bounded
    BY DEF Init, Bounded
  <2>3. LeaseTypeOK
    BY <2>1, NumbersAssumption DEF Init, LeaseTypeOK, NoLease
  <2>4. DeviceTypeOK /\ SalesTypeOK
    BY <2>1, NumbersAssumption DEF Init, DeviceTypeOK, SalesTypeOK, NoBlock
  <2> QED BY <2>2, <2>3, <2>4 DEF TInv, TypeOK
<1>2. TInv /\ [Next]_vars => TInv'
  BY TInvStep
<1> QED BY <1>1, <1>2, PTL DEF Spec

\* The state keeps its shape: a request or a web sale past its lock holds it, and
\* nothing is queued or in the books that was not printed.
THEOREM TypeCorrect == Spec => []TypeOK
<1>1. TInv => TypeOK
  BY DEF TInv
<1> QED BY <1>1, TInvInvariant, PTL

-----------------------------------------------------------------------------
(* Leases.                                                                 *)

\* A lease is known by where it starts, and is not empty.
StartIsKey ==
  /\ \A l \in leases : l.from <= l.to
  /\ \A l, m \in leases : l.from = m.from => l = m

\* What a request read under the lock is still the highest number.
HighestIsCurrent ==
  \A r \in Requests : stage[r] = "read" => \A l \in leases : l.to <= highest[r]

LInv == TInv /\ StartIsKey /\ HighestIsCurrent /\ LeasesDisjoint /\ OneLiveLease

LEMMA LInvStep ==
  ASSUME LInv, [Next]_vars
  PROVE  LInv'
<1>0. TInv /\ TypeOK /\ LeaseTypeOK /\ StartIsKey /\ HighestIsCurrent /\ LeasesDisjoint /\ OneLiveLease
  BY DEF LInv, TInv, TypeOK
<1>1. TInv'
  BY <1>0, TInvStep
<1>2. ASSUME UNCHANGED leases,
             \A r \in Requests : stage'[r] = "read" => stage[r] = "read" /\ highest'[r] = highest[r]
      PROVE  LInv'
  BY <1>0, <1>1, <1>2 DEF LInv, StartIsKey, HighestIsCurrent, LeasesDisjoint, OneLiveLease
<1>3. ASSUME NEW r \in Requests, LeaseStep(r) PROVE LInv'
  <2>1. CASE (\E d \in Devices : \E n \in Sizes : AskLease(r, d, n)) \/ LockSeries(r)
    BY <1>0, <1>2, <2>1 DEF AskLease, LockSeries, LeaseTypeOK
  <2>2. CASE FailLease(r) \/ InstallLease(r) \/ DropLease(r)
    BY <1>0, <1>2, <2>2 DEF FailLease, InstallLease, DropLease, Close, LeaseTypeOK
  <2>3. CASE ReadHighest(r)
    <3>1. \A l \in leases : l.to <= Highest({l2.to : l2 \in leases})
      BY <1>0, HighestLease
    <3>2. HighestIsCurrent'
      BY <1>0, <2>3, <3>1 DEF ReadHighest, HighestIsCurrent, LeaseTypeOK
    <3> QED BY <1>0, <1>1, <2>3, <3>2 DEF ReadHighest, LInv, StartIsKey, LeasesDisjoint, OneLiveLease
  <2>4. CASE IssueLease(r)
    <3>1. /\ \A l \in leases : l.to < Inserted(r).from
          /\ Inserted(r).from <= Inserted(r).to
          /\ leases \subseteq Lease /\ Inserted(r) \in Lease
      <4>1. stage[r] = "read" /\ ask[r].size \in Nat \ {0} /\ highest[r] \in Nat
        BY <1>0, <2>4, RunningAsks DEF IssueLease
      <4>2. \A l \in leases : l.to <= highest[r] /\ l.to \in Nat
        BY <1>0, <4>1 DEF HighestIsCurrent, LeaseTypeOK, Lease
      <4>3. Inserted(r).from = highest[r] + 1 /\ Inserted(r).to = highest[r] + ask[r].size
            /\ Inserted(r) \in Lease
        BY <1>0, <2>4, Issued
      <4>4. \A l \in leases : l.to < Inserted(r).from
        BY <4>1, <4>2, <4>3
      <4>5. Inserted(r).from <= Inserted(r).to
        BY <4>1, <4>3
      <4> QED BY <1>0, <4>3, <4>4, <4>5 DEF LeaseTypeOK
    <3>2. StartIsKey'
      <4>1. \A l \in leases : l.from <= l.to /\ l.from # Inserted(r).from
        BY <1>0, <3>1 DEF StartIsKey, Lease
      <4>2. \A l \in leases' : l.from <= l.to
        BY <1>0, <2>4, <3>1, <4>1, Issued
      <4>3. ASSUME NEW l \in leases', NEW m \in leases', l.from = m.from PROVE l = m
        <5>1. ASSUME NEW x \in leases', x # Inserted(r)
              PROVE  \E y \in leases :
                       /\ x.from = y.from
                       /\ x = IF y.device = ask[r].device THEN [y EXCEPT !.live = FALSE] ELSE y
          BY <1>0, <2>4, <5>1, Issued
        <5>2. CASE l = Inserted(r) \/ m = Inserted(r)
          BY <4>1, <4>3, <5>1, <5>2
        <5>3. CASE l # Inserted(r) /\ m # Inserted(r)
          <6>1. PICK y \in leases :
                  /\ l.from = y.from
                  /\ l = IF y.device = ask[r].device THEN [y EXCEPT !.live = FALSE] ELSE y
            BY <5>1, <5>3
          <6>2. PICK z \in leases :
                  /\ m.from = z.from
                  /\ m = IF z.device = ask[r].device THEN [z EXCEPT !.live = FALSE] ELSE z
            BY <5>1, <5>3
          <6>3. y = z
            BY <1>0, <4>3, <6>1, <6>2 DEF StartIsKey
          <6> QED BY <6>1, <6>2, <6>3
        <5> QED BY <5>2, <5>3
      <4> QED BY <4>2, <4>3 DEF StartIsKey
    <3>3. LeasesDisjoint'
      <4> SUFFICES ASSUME NEW l \in leases', NEW m \in leases', l.from <= m.to, m.from <= l.to
                   PROVE  l.from = m.from
        BY DEF LeasesDisjoint
      <4>1. ASSUME NEW x \in leases PROVE x.to < Inserted(r).from /\ x.from \in Nat /\ x.to \in Nat
        BY <3>1 DEF Lease
      <4>2. Inserted(r).from \in Nat
        BY <3>1 DEF Lease
      <4> QED BY <1>0, <2>4, <4>1, <4>2, Issued DEF LeasesDisjoint
    <3>4. OneLiveLease'
      <4> SUFFICES ASSUME NEW l \in leases', NEW m \in leases', l.live, m.live, l.device = m.device
                   PROVE  l = m
        BY DEF OneLiveLease
      <4>1. ASSUME NEW x \in leases', x # Inserted(r), x.live
            PROVE  x \in leases /\ x.device # ask[r].device
        <5>1. PICK y \in leases :
                x.device = y.device
                /\ x = IF y.device = ask[r].device THEN [y EXCEPT !.live = FALSE] ELSE y
          BY <1>0, <2>4, <4>1, Issued
        <5>2. y \in Lease
          BY <3>1
        <5>3. ~ [y EXCEPT !.live = FALSE].live
          BY <5>2 DEF Lease
        <5> QED BY <4>1, <5>1, <5>3
      <4>2. Inserted(r).device = ask[r].device
        BY <1>0, <2>4, Issued
      <4> QED BY <1>0, <4>1, <4>2 DEF OneLiveLease
    <3>5. HighestIsCurrent'
      <4> SUFFICES ASSUME NEW q \in Requests, stage'[q] = "read" PROVE FALSE
        BY DEF HighestIsCurrent
      <4>1. stage[r] = "read" /\ stage' = [stage EXCEPT ![r] = "issued"]
        BY <2>4 DEF IssueLease
      <4>2. q # r /\ stage[q] = "read"
        BY <1>0, <4>1 DEF LeaseTypeOK
      <4> QED BY <1>0, <4>1, <4>2 DEF LeaseTypeOK
    <3> QED BY <1>1, <3>2, <3>3, <3>4, <3>5 DEF LInv
  <2> QED BY <1>3, <2>1, <2>2, <2>3, <2>4 DEF LeaseStep
<1>4. ASSUME NEW d \in Devices, DeviceStep(d) PROVE LInv'
  BY <1>2, <1>4 DEF DeviceStep, GiveUp, Reinstall, Resume, RecordSale, leaseVars
<1>5. ASSUME NEW b \in queue, BillStep(b) PROVE LInv'
  BY <1>2, <1>5 DEF BillStep, Accept, Acknowledge, leaseVars
<1>6. ASSUME NEW t \in Tellers, TellerStep(t) PROVE LInv'
  BY <1>2, <1>6 DEF TellerStep, LockNumbers, NextSaleNumber, CommitSale, FailSale, leaseVars
<1>7. CASE UNCHANGED vars
  BY <1>2, <1>7 DEF vars, leaseVars
<1> QED BY <1>3, <1>4, <1>5, <1>6, <1>7 DEF Next

LEMMA LInvInvariant == Spec => []LInv
<1>1. Init /\ TInv => LInv
  BY DEF Init, LInv, StartIsKey, HighestIsCurrent, LeasesDisjoint, OneLiveLease
<1>2. LInv /\ [Next]_vars => LInv'
  BY LInvStep
<1> QED BY <1>1, <1>2, TInvInvariant, PTL DEF Spec

\* Whoever asks, and however requests overlap, fail or are abandoned, no two
\* blocks share a number, and a device has one live block.
THEOREM LeasesNeverShare == Spec => [](LeasesDisjoint /\ OneLiveLease)
<1>1. LInv => LeasesDisjoint /\ OneLiveLease
  BY DEF LInv
<1> QED BY <1>1, LInvInvariant, PTL

-----------------------------------------------------------------------------
(* Bills.                                                                  *)

HasMore(d) == block[d].next <= block[d].to

\* What is left of a device's block is the end of a lease of its own.
BlockIsLeased(d) ==
  HasMore(d) => \E l \in leases : l.device = d /\ l.from <= block[d].next /\ block[d].to = l.to

\* A number printed by a device is of a lease of its own.
NumbersAreLeased ==
  \A b \in OfDevices(printed) :
    \E l \in leases : l.device = b.by /\ l.from <= b.number /\ b.number <= l.to

\* A device that never resumed a lease draws above all it has printed.
DrawsAbove(d) ==
  d \notin resumed /\ HasMore(d) => \A b \in printed : b.by = d => b.number < block[d].next

\* An answer a device waits for is a lease of its own, above all it has printed
\* and all it may print until the answer arrives.
GrantIsAbove(r) ==
  LET d == ask[r].device
  IN  stage[r] = "issued" /\ waits[d] = r =>
        /\ \E l \in leases : l.device = d /\ l.from = granted[r].from /\ l.to = granted[r].to
        /\ \A b \in printed : b.by = d => b.number < granted[r].from
        /\ HasMore(d) => block[d].to < granted[r].from

\* Ids number the bills in time.
IdsRise == \A b \in printed : b.id < Cardinality(printed)

BillsOK == NumbersAreLeased /\ IdsRise /\ DevicesPrintOnce /\ NumbersRise
DInv ==
  /\ LInv /\ BillsOK
  /\ \A d \in Devices : BlockIsLeased(d) /\ DrawsAbove(d)
  /\ \A r \in Requests : GrantIsAbove(r)

\* A lease is never taken back, nor its numbers changed.
LeasesGrow ==
  \A m \in leases : \E l \in leases' : l.device = m.device /\ l.from = m.from /\ l.to = m.to

LEMMA LeasesGrowStep ==
  ASSUME TypeOK, [Next]_vars
  PROVE  LeasesGrow
<1>1. CASE UNCHANGED leases
  BY <1>1 DEF LeasesGrow
<1>2. ASSUME NEW r \in Requests, IssueLease(r) PROVE LeasesGrow
  BY <1>2, Issued DEF LeasesGrow
<1>3. ASSUME NEW r \in Requests, LeaseStep(r) PROVE LeasesGrow
  BY <1>1, <1>2, <1>3 DEF LeaseStep, AskLease, LockSeries, ReadHighest, FailLease, InstallLease,
                           DropLease, Close
<1>4. ASSUME (\E d \in Devices : DeviceStep(d)) \/ (\E b \in queue : BillStep(b))
             \/ (\E t \in Tellers : TellerStep(t)) \/ UNCHANGED vars
      PROVE  LeasesGrow
  BY <1>1, <1>4 DEF DeviceStep, GiveUp, Reinstall, Resume, RecordSale, BillStep, Accept, Acknowledge,
                    TellerStep, LockNumbers, NextSaleNumber, CommitSale, FailSale, leaseVars, vars
<1> QED BY <1>3, <1>4 DEF Next

\* The naturals in the state.
LEMMA Numeric ==
  ASSUME TypeOK
  PROVE  /\ \A l \in leases : l.from \in Nat /\ l.to \in Nat /\ l.device \in Devices
         /\ \A b \in printed : b.id \in Nat /\ b.number \in Nat /\ b.by \in Devices \cup {Web}
         /\ \A d \in Devices : block[d].next \in Nat /\ block[d].to \in Nat
         /\ \A r \in Requests : granted[r].from \in Nat /\ granted[r].to \in Nat
BY DEF TypeOK, LeaseTypeOK, DeviceTypeOK, SalesTypeOK, Lease, Bill

\* Steps that print nothing keep what holds of the bills.
LEMMA BillsStay ==
  ASSUME DInv, LeasesGrow, printed' = printed, resumed \subseteq resumed'
  PROVE  BillsOK'
<1>1. BillsOK /\ TypeOK
  BY DEF DInv, LInv, TInv
<1>2. NumbersAreLeased'
  <2> SUFFICES ASSUME NEW b \in OfDevices(printed)
               PROVE  \E l \in leases' : l.device = b.by /\ l.from <= b.number /\ b.number <= l.to
    BY DEF NumbersAreLeased, OfDevices
  <2>1. PICK l \in leases : l.device = b.by /\ l.from <= b.number /\ b.number <= l.to
    BY <1>1 DEF BillsOK, NumbersAreLeased
  <2> QED BY <2>1 DEF LeasesGrow
<1>3. IdsRise' /\ DevicesPrintOnce' /\ NumbersRise'
  BY <1>1 DEF BillsOK, IdsRise, DevicesPrintOnce, NumbersRise, OfDevices
<1> QED BY <1>2, <1>3 DEF BillsOK

\* A lease that is not touched otherwise still covers a block.
LEMMA BlockStays ==
  ASSUME NEW d \in Devices, BlockIsLeased(d), LeasesGrow, block'[d] = block[d]
  PROVE  BlockIsLeased(d)'
<1> SUFFICES ASSUME HasMore(d)
             PROVE  \E l \in leases' : l.device = d /\ l.from <= block[d].next /\ block[d].to = l.to
  BY DEF BlockIsLeased, HasMore
<1>1. PICK l \in leases : l.device = d /\ l.from <= block[d].next /\ block[d].to = l.to
  BY DEF BlockIsLeased
<1> QED BY <1>1 DEF LeasesGrow

\* An answer under way stays above its device's bills while they and its block do.
LEMMA GrantStays ==
  ASSUME NEW r \in Requests, GrantIsAbove(r), LeasesGrow, stage[r] = "issued",
         waits'[ask[r].device] = r => waits[ask[r].device] = r,
         ask'[r] = ask[r], granted'[r] = granted[r],
         waits'[ask[r].device] = r =>
           block'[ask[r].device] = block[ask[r].device]
           /\ \A b \in printed' : b.by = ask[r].device => b \in printed
  PROVE  GrantIsAbove(r)'
<1> DEFINE d == ask[r].device
<1> SUFFICES ASSUME stage'[r] = "issued", waits'[d] = r
             PROVE  /\ \E l \in leases' : l.device = d /\ l.from = granted[r].from /\ l.to = granted[r].to
                    /\ \A b \in printed' : b.by = d => b.number < granted[r].from
                    /\ HasMore(d)' => block[d].to < granted[r].from
  BY DEF GrantIsAbove
<1>1. PICK l \in leases : l.device = d /\ l.from = granted[r].from /\ l.to = granted[r].to
  BY DEF GrantIsAbove
<1>2. \E m \in leases' : m.device = d /\ m.from = granted[r].from /\ m.to = granted[r].to
  BY <1>1 DEF LeasesGrow
<1>3. \A b \in printed' : b.by = d => b.number < granted[r].from
  BY DEF GrantIsAbove
<1>4. HasMore(d)' => block[d].to < granted[r].from
  BY DEF GrantIsAbove, HasMore
<1> QED BY <1>2, <1>3, <1>4

LEMMA LeaseStepBills ==
  ASSUME DInv, LInv', LeasesGrow, NEW r \in Requests, LeaseStep(r)
  PROVE  DInv'
<1>0. TypeOK /\ LeaseTypeOK /\ DeviceTypeOK /\ LInv
  BY DEF DInv, LInv, TInv, TypeOK
<1>1. printed' = printed /\ resumed' = resumed /\ BillsOK'
  <2>1. printed' = printed /\ resumed' = resumed
    BY DEF LeaseStep, AskLease, LockSeries, ReadHighest, IssueLease, FailLease, InstallLease,
           DropLease, deviceVars
  <2> QED BY <2>1, BillsStay
<1>2. ASSUME block' = block, \A q \in Requests : GrantIsAbove(q)'
      PROVE  DInv'
  <2>1. ASSUME NEW d \in Devices PROVE BlockIsLeased(d)' /\ DrawsAbove(d)'
    BY <1>1, <1>2, BlockStays DEF DInv, DrawsAbove, HasMore
  <2> QED BY <1>1, <1>2, <2>1 DEF DInv
<1>3. ASSUME NEW d \in Devices, NEW n \in Sizes, AskLease(r, d, n) PROVE DInv'
  <2>1. ASSUME NEW q \in Requests, stage'[q] = "issued" PROVE GrantIsAbove(q)'
    <3>1. q # r /\ stage[q] = "issued" /\ ask'[q] = ask[q] /\ granted' = granted
      BY <1>0, <1>3, <2>1 DEF AskLease, LeaseTypeOK
    <3>2. waits'[ask[q].device] = q => waits[ask[q].device] = q
      BY <1>0, <1>3, <3>1, RunningAsks DEF AskLease, DeviceTypeOK
    <3> QED BY <1>1, <1>3, <3>1, <3>2, GrantStays DEF DInv, AskLease
  <2>2. ASSUME NEW q \in Requests PROVE GrantIsAbove(q)'
    BY <2>1 DEF GrantIsAbove
  <2> QED BY <1>2, <1>3, <2>2 DEF AskLease
<1>4. CASE LockSeries(r) \/ ReadHighest(r) \/ FailLease(r) \/ DropLease(r)
  <2>1. ASSUME NEW q \in Requests, stage'[q] = "issued" PROVE GrantIsAbove(q)'
    <3>1. q # r /\ stage[q] = "issued" /\ ask'[q] = ask[q] /\ granted'[q] = granted[q]
      BY <1>0, <1>4, <2>1 DEF LockSeries, ReadHighest, FailLease, DropLease, Close, LeaseTypeOK
    <3>2. waits'[ask[q].device] = q => waits[ask[q].device] = q
      BY <1>0, <1>4, <3>1, RunningAsks, NumbersAssumption
         DEF LockSeries, ReadHighest, FailLease, DropLease, deviceVars, DeviceTypeOK
    <3>3. block' = block
      BY <1>4 DEF LockSeries, ReadHighest, FailLease, DropLease, deviceVars
    <3> QED BY <1>1, <3>1, <3>2, <3>3, GrantStays DEF DInv
  <2>2. ASSUME NEW q \in Requests PROVE GrantIsAbove(q)'
    BY <2>1 DEF GrantIsAbove
  <2> QED BY <1>2, <1>4, <2>2 DEF LockSeries, ReadHighest, FailLease, DropLease, deviceVars
<1>5. CASE IssueLease(r)
  <2> DEFINE d == ask[r].device
  <2>1. d \in Devices /\ highest[r] \in Nat /\ stage[r] = "read" /\ ask[r].size \in Nat
    BY <1>0, <1>5, RunningAsks DEF IssueLease
  <2>2. /\ stage' = [stage EXCEPT ![r] = "issued"] /\ UNCHANGED <<ask, waits, block>>
        /\ granted' = [granted EXCEPT ![r] = NextRange(highest[r], ask[r].size)]
    BY <1>5 DEF IssueLease, deviceVars
  <2>3. granted'[r].from = highest[r] + 1 /\ granted'[r].to = highest[r] + ask[r].size
    BY <1>0, <2>2 DEF LeaseTypeOK, NextRange
  <2>4. \E l \in leases' : l.device = d /\ l.from = granted'[r].from /\ l.to = granted'[r].to
    BY <1>0, <1>5, <2>3, Issued
  <2>5. \A l \in leases : l.to <= highest[r]
    BY <1>0, <2>1 DEF LInv, HighestIsCurrent
  <2>6. ASSUME NEW b \in printed, b.by = d PROVE b.number < granted'[r].from
    <3>1. PICK l \in leases : b.number <= l.to
      BY <2>1, <2>6, NumbersAssumption DEF DInv, BillsOK, NumbersAreLeased, OfDevices
    <3> QED BY <1>0, <2>1, <2>3, <2>5, <3>1, Numeric
  <2>7. ASSUME HasMore(d)' PROVE block[d].to < granted'[r].from
    <3>1. PICK l \in leases : block[d].to = l.to
      BY <2>1, <2>2, <2>7 DEF DInv, BlockIsLeased, HasMore
    <3> QED BY <1>0, <2>1, <2>3, <2>5, <3>1, Numeric
  <2>8. GrantIsAbove(r)'
    BY <1>1, <2>2, <2>4, <2>6, <2>7 DEF GrantIsAbove
  <2>9. ASSUME NEW q \in Requests, q # r PROVE GrantIsAbove(q)'
    <3>1. CASE stage[q] = "issued"
      BY <1>0, <1>1, <2>2, <2>9, <3>1, GrantStays DEF DInv, LeaseTypeOK
    <3>2. CASE stage[q] # "issued"
      BY <1>0, <2>2, <2>9, <3>2 DEF GrantIsAbove, LeaseTypeOK
    <3> QED BY <3>1, <3>2
  <2> QED BY <1>2, <2>2, <2>8, <2>9
<1>6. CASE InstallLease(r)
  <2>1. PICK d \in Devices : d = ask[r].device /\ stage[r] = "issued" /\ waits[d] = r
    BY <1>0, <1>6, RunningAsks DEF InstallLease
  <2>2. /\ block' = [block EXCEPT ![d] = [next |-> granted[r].from, to |-> granted[r].to]]
        /\ waits' = [waits EXCEPT ![d] = NoRequest] /\ Close(r)
    BY <1>6, <2>1 DEF InstallLease
  <2>3. block'[d].next = granted[r].from /\ block'[d].to = granted[r].to
    BY <1>0, <2>1, <2>2 DEF DeviceTypeOK
  <2>4. GrantIsAbove(r)
    BY DEF DInv
  <2>5. BlockIsLeased(d)' /\ DrawsAbove(d)'
    <3>1. PICK l \in leases : l.device = d /\ l.from = granted[r].from /\ l.to = granted[r].to
      BY <2>1, <2>4 DEF GrantIsAbove
    <3>2. BlockIsLeased(d)'
      BY <1>0, <2>2, <2>3, <3>1, Numeric DEF BlockIsLeased, Close
    <3>3. DrawsAbove(d)'
      BY <1>1, <2>1, <2>3, <2>4 DEF DrawsAbove, GrantIsAbove
    <3> QED BY <3>2, <3>3
  <2>6. ASSUME NEW e \in Devices, e # d PROVE BlockIsLeased(e)' /\ DrawsAbove(e)'
    <3>1. block'[e] = block[e]
      BY <1>0, <2>2, <2>6 DEF DeviceTypeOK
    <3> QED BY <1>1, <3>1, BlockStays DEF DInv, DrawsAbove, HasMore
  <2>7. ASSUME NEW q \in Requests, stage'[q] = "issued" PROVE GrantIsAbove(q)'
    <3>1. q # r /\ stage[q] = "issued" /\ ask'[q] = ask[q] /\ granted'[q] = granted[q]
      BY <1>0, <2>2, <2>7 DEF Close, LeaseTypeOK
    <3>2. ask[q].device \in Devices
      BY <1>0, <3>1, RunningAsks
    <3>3. waits'[ask[q].device] = q => waits[ask[q].device] = q /\ ask[q].device # d
      BY <1>0, <2>1, <2>2, <3>2, NumbersAssumption DEF DeviceTypeOK
    <3>4. ask[q].device # d => block'[ask[q].device] = block[ask[q].device]
      BY <1>0, <2>2, <3>2 DEF DeviceTypeOK
    <3> QED BY <1>1, <3>1, <3>3, <3>4, GrantStays DEF DInv
  <2>8. ASSUME NEW q \in Requests PROVE GrantIsAbove(q)'
    BY <2>7 DEF GrantIsAbove
  <2> QED BY <1>1, <2>5, <2>6, <2>8 DEF DInv
<1> QED BY <1>3, <1>4, <1>5, <1>6 DEF LeaseStep

\* A device's own steps that leave its answer under way: no request of another
\* device looks at its block or its bills.
LEMMA GrantsOfOthersStay ==
  ASSUME DInv, NEW d \in Devices, UNCHANGED <<leases, stage, ask, granted>>,
         \A e \in Devices : e # d => waits'[e] = waits[e] /\ block'[e] = block[e],
         \A b \in printed' : b \in printed \/ b.by = d,
         NEW r \in Requests, stage[r] = "issued" => ask[r].device # d \/ waits'[d] # r
  PROVE  GrantIsAbove(r)'
<1>1. CASE stage[r] # "issued"
  BY <1>1 DEF GrantIsAbove
<1>2. CASE stage[r] = "issued"
  <2>1. ask[r].device \in Devices
    BY <1>2, RunningAsks DEF DInv, LInv, TInv
  <2>2. CASE ask[r].device = d
    BY <1>2, <2>2 DEF GrantIsAbove
  <2>3. CASE ask[r].device # d
    <3>1. LeasesGrow
      BY DEF LeasesGrow
    <3> QED BY <1>2, <2>1, <2>3, <3>1, GrantStays DEF DInv
  <2> QED BY <2>2, <2>3
<1> QED BY <1>1, <1>2

LEMMA DeviceStepBills ==
  ASSUME DInv, LInv', LeasesGrow, NEW d \in Devices, DeviceStep(d)
  PROVE  DInv'
<1>0. TypeOK /\ DeviceTypeOK /\ SalesTypeOK /\ LInv
  BY DEF DInv, LInv, TInv, TypeOK
<1>1. UNCHANGED <<leases, stage, ask, granted>>
  BY DEF DeviceStep, GiveUp, Reinstall, Resume, RecordSale, leaseVars
<1>2. CASE GiveUp(d)
  <2>1. waits' = [waits EXCEPT ![d] = NoRequest] /\ UNCHANGED <<block, resumed, printed>>
    BY <1>2 DEF GiveUp
  <2>2. ASSUME NEW r \in Requests PROVE GrantIsAbove(r)'
    <3>1. waits'[d] # r /\ \A e \in Devices : e # d => waits'[e] = waits[e]
      BY <1>0, <2>1, NumbersAssumption DEF DeviceTypeOK
    <3> QED BY <1>1, <2>1, <3>1, GrantsOfOthersStay
  <2>3. ASSUME NEW e \in Devices PROVE BlockIsLeased(e)' /\ DrawsAbove(e)'
    BY <2>1, BlockStays DEF DInv, DrawsAbove, HasMore
  <2>4. BillsOK'
    BY <2>1, BillsStay
  <2> QED BY <2>2, <2>3, <2>4 DEF DInv
<1>3. CASE Reinstall(d)
  <2>1. /\ block' = [block EXCEPT ![d] = NoBlock] /\ waits' = [waits EXCEPT ![d] = NoRequest]
        /\ UNCHANGED <<resumed, printed>>
    BY <1>3 DEF Reinstall
  <2>2. \A e \in Devices : e # d => waits'[e] = waits[e] /\ block'[e] = block[e]
    BY <1>0, <2>1 DEF DeviceTypeOK
  <2>3. ASSUME NEW r \in Requests PROVE GrantIsAbove(r)'
    <3>1. waits'[d] # r
      BY <1>0, <2>1, NumbersAssumption DEF DeviceTypeOK
    <3> QED BY <1>1, <2>1, <2>2, <3>1, GrantsOfOthersStay
  <2>4. ASSUME NEW e \in Devices PROVE BlockIsLeased(e)' /\ DrawsAbove(e)'
    <3>1. CASE e = d
      BY <1>0, <2>1, <3>1 DEF DeviceTypeOK, BlockIsLeased, DrawsAbove, HasMore, NoBlock
    <3>2. CASE e # d
      BY <2>1, <2>2, <3>2, BlockStays DEF DInv, DrawsAbove, HasMore
    <3> QED BY <3>1, <3>2
  <2>5. BillsOK'
    BY <2>1, BillsStay
  <2> QED BY <2>3, <2>4, <2>5 DEF DInv
<1>4. CASE Resume(d)
  <2>1. PICK l \in leases : l.device = d /\ block' = [block EXCEPT ![d] = [next |-> l.from, to |-> l.to]]
    BY <1>4 DEF Resume
  <2>2. waits[d] = NoRequest /\ resumed' = resumed \cup {d} /\ UNCHANGED <<waits, printed>>
    BY <1>4 DEF Resume
  <2>3. block'[d] = [next |-> l.from, to |-> l.to] /\ \A e \in Devices : e # d => block'[e] = block[e]
    BY <1>0, <2>1 DEF DeviceTypeOK
  <2>4. ASSUME NEW r \in Requests PROVE GrantIsAbove(r)'
    BY <1>1, <2>2, <2>3, GrantsOfOthersStay, NumbersAssumption
  <2>5. ASSUME NEW e \in Devices PROVE BlockIsLeased(e)' /\ DrawsAbove(e)'
    <3>1. CASE e = d
      <4>1. l.from <= l.from
        BY <1>0, Numeric
      <4> QED BY <1>1, <2>1, <2>2, <2>3, <3>1, <4>1 DEF BlockIsLeased, DrawsAbove
    <3>2. CASE e # d
      BY <2>2, <2>3, <3>2, BlockStays DEF DInv, DrawsAbove, HasMore
    <3> QED BY <3>1, <3>2
  <2>6. BillsOK'
    BY <2>2, BillsStay
  <2> QED BY <2>4, <2>5, <2>6 DEF DInv
<1>5. CASE RecordSale(d)
  <2>0. /\ block[d].next \in Nat /\ block[d].to \in Nat /\ HasMore(d)
        /\ Cardinality(printed) \in Nat
    BY <1>0, <1>5, Numeric, FS_CardinalityType DEF RecordSale, HasMore, SalesTypeOK
  <2>1. PICK b \in Bill : /\ b.id = Cardinality(printed) /\ b.number = block[d].next /\ b.by = d
                          /\ printed' = printed \cup {b}
    BY <1>0, <1>5, <2>0, NewBillType DEF RecordSale
  <2>2. /\ block' = [block EXCEPT ![d] = [next |-> block[d].next + 1, to |-> block[d].to]]
        /\ UNCHANGED <<waits, resumed>>
    BY <1>0, <1>5, Drawn DEF RecordSale
  <2>3. /\ block'[d].next = block[d].next + 1 /\ block'[d].to = block[d].to
        /\ \A e \in Devices : e # d => block'[e] = block[e]
    BY <1>0, <2>2 DEF DeviceTypeOK
  <2>4. \A c \in printed : c.id < b.id /\ c.id \in Nat /\ c.number \in Nat
    BY <1>0, <2>1, Numeric DEF DInv, BillsOK, IdsRise
  <2>5. IdsRise'
    <3>1. b \notin printed
      BY <2>4
    <3>2. Cardinality(printed') = Cardinality(printed) + 1
      BY <1>0, <2>1, <3>1, FS_AddElement DEF SalesTypeOK
    <3> QED BY <2>0, <2>1, <2>4, <3>2 DEF IdsRise
  <2>6. PICK l \in leases : l.device = d /\ l.from <= block[d].next /\ block[d].to = l.to
    BY <2>0 DEF DInv, BlockIsLeased
  <2>7. NumbersAreLeased'
    BY <1>1, <2>0, <2>1, <2>6 DEF NumbersAreLeased, OfDevices, HasMore, DInv, BillsOK
  <2>8. ASSUME d \notin resumed, NEW c \in printed, c.by = d PROVE c.number < b.number
    BY <2>0, <2>1, <2>8 DEF DInv, DrawsAbove
  <2>9. NumbersRise'
    <3> SUFFICES ASSUME NEW x \in OfDevices(printed'), NEW y \in OfDevices(printed'),
                        x.by = y.by, x.by \notin resumed, x.id < y.id
                 PROVE  x.number < y.number
      BY <2>2 DEF NumbersRise
    <3>1. x \in printed \cup {b} /\ y \in printed \cup {b} /\ x.by # Web /\ y.by # Web
      BY <2>1 DEF OfDevices
    <3>2. x # b
      BY <2>0, <2>1, <2>4, <3>1
    <3>3. CASE y = b
      BY <2>1, <2>8, <3>1, <3>2, <3>3
    <3>4. CASE y # b
      BY <3>1, <3>2, <3>4 DEF NumbersRise, OfDevices, DInv, BillsOK
    <3> QED BY <3>3, <3>4
  <2>10. ASSUME NEW c \in OfDevices(printed), c.number = b.number
         PROVE  c.by = d /\ d \in resumed
    <3>1. PICK m \in leases : m.device = c.by /\ m.from <= c.number /\ c.number <= m.to
      BY DEF DInv, BillsOK, NumbersAreLeased
    <3>2. l.from <= m.to /\ m.from <= l.to
      BY <1>0, <2>0, <2>1, <2>6, <2>10, <3>1, Numeric DEF HasMore, OfDevices
    <3>3. c.by = d
      BY <1>0, <2>6, <3>1, <3>2 DEF LInv, LeasesDisjoint, StartIsKey
    <3> QED BY <2>4, <2>8, <2>10, <3>3 DEF OfDevices
  <2>11. DevicesPrintOnce'
    BY <2>1, <2>2, <2>10 DEF DevicesPrintOnce, OfDevices, DInv, BillsOK
  <2>12. ASSUME NEW e \in Devices PROVE BlockIsLeased(e)' /\ DrawsAbove(e)'
    <3>1. CASE e = d
      <4>1. l.from <= block'[d].next
        BY <1>0, <2>0, <2>3, <2>6, Numeric
      <4>2. BlockIsLeased(e)'
        BY <1>1, <2>3, <2>6, <3>1, <4>1 DEF BlockIsLeased
      <4>3. DrawsAbove(e)'
        BY <2>0, <2>1, <2>2, <2>3, <2>4, <2>8, <3>1 DEF DrawsAbove
      <4> QED BY <4>2, <4>3
    <3>2. CASE e # d
      BY <2>1, <2>2, <2>3, <3>2, BlockStays DEF DInv, DrawsAbove, HasMore
    <3> QED BY <3>1, <3>2
  <2>13. ASSUME NEW r \in Requests PROVE GrantIsAbove(r)'
    <3>1. CASE stage[r] = "issued" /\ ask[r].device = d /\ waits[d] = r
      <4>1. /\ \E m \in leases : m.device = d /\ m.from = granted[r].from /\ m.to = granted[r].to
            /\ \A c \in printed : c.by = d => c.number < granted[r].from
            /\ block[d].to < granted[r].from
        BY <2>0, <3>1 DEF DInv, GrantIsAbove
      <4>2. b.number < granted[r].from
        BY <1>0, <2>0, <2>1, <4>1, Numeric DEF HasMore
      <4> QED BY <1>1, <2>1, <2>3, <3>1, <4>1, <4>2 DEF GrantIsAbove
    <3>2. CASE stage[r] = "issued" => ask[r].device # d \/ waits[d] # r
      BY <1>1, <2>1, <2>2, <2>3, <3>2, GrantsOfOthersStay
    <3> QED BY <3>1, <3>2
  <2> QED BY <2>5, <2>7, <2>9, <2>11, <2>12, <2>13 DEF DInv, BillsOK
<1> QED BY <1>2, <1>3, <1>4, <1>5 DEF DeviceStep

LEMMA SalesStepBills ==
  ASSUME DInv, LInv', (\E b \in queue : BillStep(b)) \/ (\E t \in Tellers : TellerStep(t))
  PROVE  DInv'
<1>0. TypeOK /\ LeaseTypeOK /\ SalesTypeOK /\ LInv
  BY DEF DInv, LInv, TInv, TypeOK
<1>1. UNCHANGED <<leases, stage, ask, granted, waits, block, resumed>>
  BY DEF BillStep, Accept, Acknowledge, TellerStep, LockNumbers, NextSaleNumber, CommitSale,
         FailSale, leaseVars, deviceVars
<1>2. ASSUME OfDevices(printed') = OfDevices(printed), IdsRise' PROVE DInv'
  <2>1. \A d \in Devices : \A b \in printed' : b.by = d => b \in printed
    BY <1>2, NumbersAssumption DEF OfDevices
  <2>2. BillsOK'
    BY <1>1, <1>2 DEF DInv, BillsOK, NumbersAreLeased, DevicesPrintOnce, NumbersRise
  <2>3. ASSUME NEW d \in Devices PROVE BlockIsLeased(d)' /\ DrawsAbove(d)'
    BY <1>1, <2>1 DEF DInv, BlockIsLeased, DrawsAbove, HasMore
  <2>4. ASSUME NEW r \in Requests PROVE GrantIsAbove(r)'
    <3>1. CASE stage[r] = "issued"
      <4>1. ask[r].device \in Devices
        BY <1>0, <3>1, RunningAsks
      <4>2. LeasesGrow
        BY <1>1 DEF LeasesGrow
      <4> QED BY <1>1, <2>1, <3>1, <4>1, <4>2, GrantStays DEF DInv
    <3>2. CASE stage[r] # "issued"
      BY <1>1, <3>2 DEF GrantIsAbove
    <3> QED BY <3>1, <3>2
  <2> QED BY <2>2, <2>3, <2>4 DEF DInv
<1>3. ASSUME printed' = printed PROVE DInv'
  BY <1>2, <1>3 DEF DInv, BillsOK, IdsRise
<1>4. ASSUME NEW t \in Tellers, CommitSale(t) PROVE DInv'
  <2>0. drawn[t] \in Nat /\ Cardinality(printed) \in Nat
    BY <1>0, FS_CardinalityType DEF SalesTypeOK
  <2>1. PICK b \in Bill : b.id = Cardinality(printed) /\ b.by = Web /\ printed' = printed \cup {b}
    BY <1>0, <1>4, <2>0, NewBillType DEF CommitSale
  <2>2. OfDevices(printed') = OfDevices(printed)
    BY <2>1 DEF OfDevices
  <2>3. \A c \in printed : c.id < Cardinality(printed) /\ c.id \in Nat
    BY <1>0, Numeric DEF DInv, BillsOK, IdsRise
  <2>4. Cardinality(printed') = Cardinality(printed) + 1
    <3>1. b \notin printed
      BY <2>0, <2>1, <2>3
    <3> QED BY <1>0, <2>1, <3>1, FS_AddElement DEF SalesTypeOK
  <2>5. IdsRise'
    BY <2>0, <2>1, <2>3, <2>4 DEF IdsRise
  <2> QED BY <1>2, <2>2, <2>5
<1> QED BY <1>3, <1>4 DEF BillStep, Accept, Acknowledge, TellerStep, LockNumbers, NextSaleNumber, FailSale

LEMMA DInvInvariant == Spec => []DInv
<1>1. Init /\ LInv => DInv
  <2> SUFFICES ASSUME Init, LInv PROVE DInv
    OBVIOUS
  <2>1. BillsOK
    BY DEF Init, BillsOK, NumbersAreLeased, IdsRise, DevicesPrintOnce, NumbersRise, OfDevices
  <2>2. \A d \in Devices : BlockIsLeased(d) /\ DrawsAbove(d)
    BY DEF Init, BlockIsLeased, DrawsAbove, HasMore, NoBlock
  <2>3. \A r \in Requests : GrantIsAbove(r)
    BY DEF Init, GrantIsAbove
  <2> QED BY <2>1, <2>2, <2>3 DEF DInv
<1>2. DInv /\ LInv' /\ [Next]_vars => DInv'
  <2> SUFFICES ASSUME DInv, LInv', [Next]_vars PROVE DInv'
    OBVIOUS
  <2>1. LeasesGrow
    BY LeasesGrowStep DEF DInv, LInv, TInv
  <2>2. CASE UNCHANGED vars
    BY <2>2 DEF vars, leaseVars, deviceVars, DInv, BillsOK, NumbersAreLeased, IdsRise, DevicesPrintOnce,
                NumbersRise, OfDevices, BlockIsLeased, DrawsAbove, HasMore, GrantIsAbove
  <2> QED BY <2>1, <2>2, LeaseStepBills, DeviceStepBills, SalesStepBills DEF Next
<1> QED BY <1>1, <1>2, LInvInvariant, PTL DEF Spec

\* No two bills printed by devices bear one number, and a device's numbers rise,
\* but for a device that took a lease up again: any devices, any requests, any
\* losses, with web sales beside them.
THEOREM PaperIsUnique == Spec => [](DevicesPrintOnce /\ NumbersRise)
<1>1. DInv => DevicesPrintOnce /\ NumbersRise
  BY DEF DInv, BillsOK
<1> QED BY <1>1, DInvInvariant, PTL

-----------------------------------------------------------------------------
(* Web sales.                                                              *)

WInv == TInv /\ (\A b \in queue : b.by # Web) /\ WebNumbersFresh

LEMMA WInvStep ==
  ASSUME WInv, TInv', [Next]_vars
  PROVE  WInv'
<1>0. TypeOK /\ SalesTypeOK /\ (\A b \in queue : b.by # Web) /\ WebNumbersFresh
  BY DEF WInv, TInv, TypeOK
<1>1. ASSUME UNCHANGED salesVars, queue' \subseteq queue PROVE WInv'
  BY <1>0, <1>1 DEF WInv, WebNumbersFresh, salesVars
<1>2. ASSUME NEW r \in Requests, LeaseStep(r) PROVE WInv'
  BY <1>1, <1>2 DEF LeaseStep, AskLease, LockSeries, ReadHighest, IssueLease, FailLease, InstallLease,
                    DropLease, deviceVars
<1>3. ASSUME NEW d \in Devices, DeviceStep(d) PROVE WInv'
  <2>1. CASE GiveUp(d) \/ Reinstall(d) \/ Resume(d)
    BY <1>1, <2>1 DEF GiveUp, Reinstall, Resume
  <2>2. CASE RecordSale(d)
    <3>1. NewBill(block[d].next, d).by # Web
      BY NumbersAssumption DEF NewBill
    <3> QED BY <1>0, <2>2, <3>1 DEF RecordSale, WInv, WebNumbersFresh, salesVars
  <2> QED BY <1>3, <2>1, <2>2 DEF DeviceStep
<1>4. ASSUME NEW b \in queue, BillStep(b) PROVE WInv'
  <2>1. CASE Accept(b)
    <3>1. sales' = sales \cup {b} /\ b.by # Web /\ UNCHANGED <<queue, counter, drawn>>
      BY <1>0, <2>1 DEF Accept, deviceVars
    <3>2. WebNumbersFresh'
      BY <1>0, <3>1 DEF WebNumbersFresh
    <3> QED BY <1>0, <3>1, <3>2 DEF WInv
  <2>2. CASE Acknowledge(b)
    BY <1>1, <2>2 DEF Acknowledge
  <2> QED BY <1>4, <2>1, <2>2 DEF BillStep
<1>5. ASSUME NEW t \in Tellers, TellerStep(t) PROVE WInv'
  <2>1. queue' = queue
    BY <1>5 DEF TellerStep, LockNumbers, NextSaleNumber, CommitSale, FailSale, deviceVars
  <2>2. CASE LockNumbers(t) \/ FailSale(t)
    BY <1>0, <2>1, <2>2 DEF LockNumbers, FailSale, CloseSale, SalesTypeOK, WInv, WebNumbersFresh
  <2>3. CASE NextSaleNumber(t)
    <3>1. \A s \in sales : s.number \in Nat /\ s.number <= Highest({b.number : b \in sales})
      BY <1>0, HighestNumber DEF WInv, SalesTypeOK, Bill
    <3>2. Highest({b.number : b \in sales}) \in Nat
      BY HighestNumber DEF WInv
    <3>3. \A s \in sales : s.number # Highest({b.number : b \in sales}) + 1
      BY <3>1, <3>2
    <3> QED BY <1>0, <2>1, <2>3, <3>3 DEF NextSaleNumber, SalesTypeOK, WInv, WebNumbersFresh
  <2>4. CASE CommitSale(t)
    <3>1. \A u \in Tellers : counter'[u] # "numbered"
      BY <1>0, <2>4 DEF CommitSale, CloseSale, SalesTypeOK
    <3> QED BY <1>0, <2>1, <3>1 DEF WInv, WebNumbersFresh
  <2> QED BY <1>5, <2>2, <2>3, <2>4 DEF TellerStep
<1>6. CASE UNCHANGED vars
  BY <1>1, <1>6 DEF vars, deviceVars
<1> QED BY <1>2, <1>3, <1>4, <1>5, <1>6 DEF Next

\* Under the advisory lock, web sales never meet each other on a number, however
\* many run at once and whatever devices send in between.
THEOREM WebSalesNeverMeet == Spec => []WebNumbersFresh
<1>1. Init /\ TInv => WInv
  BY DEF Init, WInv, WebNumbersFresh
<1>2. WInv /\ TInv' /\ [Next]_vars => WInv'
  BY WInvStep
<1>3. WInv => WebNumbersFresh
  BY DEF WInv
<1> QED BY <1>1, <1>2, <1>3, TInvInvariant, PTL DEF Spec
=============================================================================
