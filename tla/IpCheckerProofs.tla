---------------------------- MODULE IpCheckerProofs ----------------------------
(***************************************************************************)
(* class IpChecker for any addresses and any lists of them, repetitions    *)
(* included: the invariant that every method keeps, whoever calls them and *)
(* whether or not update_async_results is among the calls.  The main loop  *)
(* has two objects of the class; module MainLoopProofs takes the lemmas    *)
(* for both.                                                               *)
(***************************************************************************)
EXTENDS IpChecker, FiniteSetTheorems, SequenceTheorems, TLAPS

Checks == [addr : Ips, result : {"running", "ok", "failed"}]

OneCheckPerAddress ==
  \A i, j \in DOMAIN async_checks :
    async_checks[i].addr = async_checks[j].addr => i = j

(***************************************************************************)
(* Before index n of ips, check_ips has pinged these; the status, the      *)
(* failures and the answers agree on them, and the rest has no status yet. *)
(***************************************************************************)
Before(n) == {ips[i] : i \in {j \in DOMAIN ips : j < n}}

PingedBefore(n) ==
  /\ failed_ips = {a \in Before(n) : ~ip_status[a]}
  /\ \A a \in DOMAIN ip_status :
       /\ ip_status[a] <=> a \in answered
       /\ a \notin Before(n) => ~ip_status[a]

CheckerInv ==
  /\ CheckerTypeOK
  /\ IsFiniteSet(failed_ips)
  /\ OneCheckPerAddress
  /\ DOMAIN ip_status = Elements(ips)
  /\ pc \in {"sync", "launch"} => async_checks = << >>
  /\ pc = "sync" => PingedBefore(next)
  /\ pc \in {"launch", "poll"} => PingedBefore(Len(ips) + 1)
  /\ pc = "poll" => Checking = failed_ips
  /\ pc = "load" => \A a \in DOMAIN ip_status : ip_status[a] <=> a \in answered

LEMMA FunctionIsSeq ==
  ASSUME NEW S, NEW n \in Nat, NEW f \in [1..n -> S]
  PROVE  f \in Seq(S)
BY SeqDef

LEMMA ListOfAddresses ==
  ASSUME NEW list \in Lists
  PROVE  /\ list \in Seq(Ips)
         /\ Len(list) \in Nat
         /\ DOMAIN list = 1..Len(list)
         /\ Elements(list) \subseteq Ips
<1>1. list \in Seq(Ips)
  BY ListsAssumption
<1> QED
  BY <1>1, LenProperties DEF Elements

LEMMA CheckerInitInv == CheckerInit => CheckerInv
<1> SUFFICES ASSUME CheckerInit PROVE CheckerInv
  OBVIOUS
<1>1. CheckerTypeOK
  <2>1. << >> \in Lists /\ Len(<< >>) = 0 /\ << >> \in Seq(Checks)
    BY ListsAssumption, EmptySeq
  <2>2. EmptyMap \in PartialMaps(Ips, BOOLEAN)
    <3>1. EmptyMap \in [{} -> BOOLEAN]
      BY DEF EmptyMap
    <3> QED
      BY <3>1 DEF PartialMaps
  <2> QED
    BY <2>1, <2>2 DEF CheckerInit, CheckerTypeOK, Checks
<1>2. IsFiniteSet(failed_ips)
  BY FS_EmptySet DEF CheckerInit
<1>3. DOMAIN ips = {} /\ DOMAIN async_checks = {} /\ DOMAIN ip_status = {}
  BY DEF CheckerInit, EmptyMap
<1> QED
  BY <1>1, <1>2, <1>3 DEF CheckerInit, CheckerInv, OneCheckPerAddress, Elements

(***************************************************************************)
(* The public methods, step by step.                                       *)
(***************************************************************************)
LEMMA LoadBeginsInv ==
  ASSUME CheckerInv, LoadBegins
  PROVE  CheckerInv'
BY DEF CheckerInv, CheckerTypeOK, LoadBegins, OneCheckPerAddress, Elements

LEMMA DestroyInv ==
  ASSUME CheckerInv, Destroy
  PROVE  CheckerInv'
<1>1. async_checks \in Seq(Checks) /\ async_checks # << >>
  BY DEF CheckerInv, CheckerTypeOK, Destroy, Checks
<1>2. /\ async_checks' \in Seq(Checks)
      /\ Len(async_checks') = Len(async_checks) - 1
      /\ \A i \in 1..Len(async_checks') : async_checks'[i] = async_checks[i + 1]
  BY <1>1, HeadTailProperties DEF Destroy
<1>3. /\ DOMAIN async_checks = 1..Len(async_checks)
      /\ DOMAIN async_checks' = 1..Len(async_checks')
      /\ Len(async_checks) \in Nat
  BY <1>1, <1>2, LenProperties
<1>4. OneCheckPerAddress'
  <2> SUFFICES ASSUME NEW i \in 1..Len(async_checks'), NEW j \in 1..Len(async_checks'),
                      async_checks'[i].addr = async_checks'[j].addr
               PROVE  i = j
    BY <1>3 DEF OneCheckPerAddress
  <2>1. i + 1 \in DOMAIN async_checks /\ j + 1 \in DOMAIN async_checks
    BY <1>2, <1>3
  <2>2. i + 1 = j + 1
    BY <1>2, <2>1 DEF CheckerInv, OneCheckPerAddress
  <2> QED
    BY <2>2
<1>5. CheckerTypeOK'
  BY <1>2 DEF CheckerInv, CheckerTypeOK, Destroy, Checks
<1> QED
  BY <1>4, <1>5 DEF CheckerInv, Destroy, Elements

LEMMA LoadInv ==
  ASSUME CheckerInv, Load
  PROVE  CheckerInv'
<1>1. PICK list \in Lists :
        ips' = list /\ ip_status' = [a \in Elements(list) |-> FALSE]
  BY DEF Load
<1>2. Elements(list) \subseteq Ips /\ Len(list) \in Nat /\ DOMAIN list = 1..Len(list)
  BY ListOfAddresses
<1>3. ip_status' \in PartialMaps(Ips, BOOLEAN)
  BY <1>1, <1>2 DEF PartialMaps
<1>4. CheckerTypeOK'
  BY <1>1, <1>2, <1>3 DEF CheckerInv, CheckerTypeOK, Load
<1>5. PingedBefore(1)'
  BY <1>1, <1>2 DEF PingedBefore, Before, Load
<1>6. OneCheckPerAddress'
  BY DEF CheckerInv, OneCheckPerAddress, Load
<1> QED
  BY <1>1, <1>4, <1>5, <1>6, FS_EmptySet DEF CheckerInv, Load, Elements

LEMMA SyncCheckInv ==
  ASSUME CheckerInv, SyncCheck
  PROVE  CheckerInv'
<1> DEFINE addr == ips[next]
           connected == host[addr] = "fast"
<1>1. /\ Len(ips) \in Nat /\ DOMAIN ips = 1..Len(ips) /\ next \in 1..Len(ips)
      /\ addr \in Elements(ips) /\ Elements(ips) \subseteq Ips
  BY ListOfAddresses DEF CheckerInv, CheckerTypeOK, SyncCheck, Elements
<1>2. DOMAIN ip_status = Elements(ips) /\ ip_status \in [Elements(ips) -> BOOLEAN]
  BY DEF CheckerInv, CheckerTypeOK, PartialMaps
<1>3. /\ ip_status' = [ip_status EXCEPT ![addr] = connected]
      /\ failed_ips' = IF connected THEN failed_ips \ {addr} ELSE failed_ips \cup {addr}
      /\ answered' = IF connected THEN answered \cup {addr} ELSE answered \ {addr}
      /\ next' = next + 1
      /\ ips' = ips
  BY DEF SyncCheck
<1>4. /\ ip_status' \in [Elements(ips) -> BOOLEAN]
      /\ ip_status'[addr] = connected
      /\ \A a \in Elements(ips) \ {addr} : ip_status'[a] = ip_status[a]
  BY <1>1, <1>2, <1>3
<1>5. CheckerTypeOK'
  <2>1. ip_status' \in PartialMaps(Ips, BOOLEAN)
    BY <1>1, <1>4 DEF PartialMaps
  <2>2. failed_ips' \subseteq Ips /\ answered' \subseteq Ips
    BY <1>1, <1>3 DEF CheckerInv, CheckerTypeOK
  <2> QED
    BY <1>1, <1>3, <2>1, <2>2 DEF CheckerInv, CheckerTypeOK, SyncCheck
<1>6. IsFiniteSet(failed_ips')
  BY <1>3, FS_AddElement, FS_RemoveElement DEF CheckerInv
<1>7. Before(next + 1) = Before(next) \cup {addr}
  BY <1>1 DEF Before
<1>8. PingedBefore(next)
  BY DEF CheckerInv, SyncCheck
<1>9. Before(next) \subseteq Elements(ips)
  BY DEF Before, Elements
<1>10. ASSUME NEW a \in Elements(ips)
       PROVE  /\ a \in failed_ips' <=> a \in Before(next + 1) /\ ~ip_status'[a]
              /\ ip_status'[a] <=> a \in answered'
              /\ a \notin Before(next + 1) => ~ip_status'[a]
  <2>1. CASE a = addr
    BY <1>3, <1>4, <1>7, <2>1
  <2>2. CASE a # addr
    <3>1. /\ a \in failed_ips <=> a \in Before(next) /\ ~ip_status[a]
          /\ ip_status[a] <=> a \in answered
          /\ a \notin Before(next) => ~ip_status[a]
      BY <1>2, <1>8 DEF PingedBefore
    <3> QED
      BY <1>3, <1>4, <1>7, <2>2, <3>1
  <2> QED
    BY <2>1, <2>2
<1>11. PingedBefore(next)'
  <2>1. failed_ips' \subseteq Elements(ips) /\ Before(next + 1) \subseteq Elements(ips)
    BY <1>1, <1>3, <1>7, <1>8, <1>9 DEF PingedBefore
  <2>2. failed_ips' = {a \in Before(next + 1) : ~ip_status'[a]}
    BY <1>10, <2>1
  <2> QED
    BY <1>3, <1>4, <1>10, <2>2 DEF PingedBefore, Before
<1> QED
  BY <1>2, <1>3, <1>4, <1>5, <1>6, <1>11
     DEF CheckerInv, SyncCheck, OneCheckPerAddress, Elements

LEMMA SyncDoneInv ==
  ASSUME CheckerInv, SyncDone
  PROVE  CheckerInv'
<1>1. Len(ips) \in Nat /\ next = Len(ips) + 1
  BY ListOfAddresses DEF CheckerInv, CheckerTypeOK, SyncDone
<1>2. PingedBefore(Len(ips) + 1)
  BY <1>1 DEF CheckerInv, SyncDone
<1> QED
  BY <1>2 DEF CheckerInv, CheckerTypeOK, SyncDone, OneCheckPerAddress, PingedBefore,
              Before, Elements

(***************************************************************************)
(* The threads of a launch have addresses that differ from each other and  *)
(* from those of the threads that are there: order is onto new, so it      *)
(* takes no address twice.                                                 *)
(***************************************************************************)
LEMMA LaunchInv ==
  ASSUME CheckerInv, Launch
  PROVE  CheckerInv'
<1> DEFINE new == failed_ips \ Checking
           n == Cardinality(new)
<1>1. async_checks = << >> /\ new = failed_ips
  BY DEF CheckerInv, Launch, Checking
<1>2. IsFiniteSet(new) /\ new \subseteq Ips /\ n \in Nat
  BY <1>1, FS_CardinalityType DEF CheckerInv, CheckerTypeOK
<1>3. PICK order \in [1..n -> new] :
        /\ Elements(order) = new
        /\ async_checks' = async_checks \o [i \in DOMAIN order |-> NewCheck(order[i])]
  BY DEF Launch
<1> DEFINE added == [i \in 1..n |-> NewCheck(order[i])]
<1>4. \A i \in 1..n : NewCheck(order[i]) \in Checks
  BY <1>2, <1>3 DEF NewCheck, Checks
<1>5. added \in Seq(Checks)
  <2>1. added \in [1..n -> Checks]
    BY <1>4
  <2> QED
    BY <1>2, <2>1, FunctionIsSeq
<1>6. async_checks' = added
  BY <1>1, <1>3, <1>5, ConcatEmptySeq
<1>7. order \in Surjection(1..n, new)
  BY <1>3 DEF Surjection, Elements
<1>8. order \in Injection(1..n, new)
  BY <1>2, <1>7, FS_Interval, FS_SurjSameCardinalityImpliesInj
<1>9. OneCheckPerAddress'
  <2>1. \A i, j \in 1..n : order[i] = order[j] => i = j
    BY <1>8 DEF Injection, IsInjective
  <2>2. \A i \in 1..n : added[i].addr = order[i]
    BY DEF NewCheck
  <2>3. ASSUME NEW i \in 1..n, NEW j \in 1..n, added[i].addr = added[j].addr
        PROVE  i = j
    BY <2>1, <2>2, <2>3
  <2>4. DOMAIN added = 1..n
    OBVIOUS
  <2> HIDE DEF added
  <2> QED
    BY <1>6, <2>3, <2>4 DEF OneCheckPerAddress
<1>10. Checking' = failed_ips'
  <2>1. Checking' = {order[i] : i \in 1..n}
    BY <1>6 DEF Checking, NewCheck
  <2>2. failed_ips' = failed_ips
    BY DEF Launch
  <2> QED
    BY <1>1, <1>3, <2>1, <2>2 DEF Elements
<1>11. CheckerTypeOK'
  BY <1>5, <1>6 DEF CheckerInv, CheckerTypeOK, Launch, Checks
<1> QED
  BY <1>9, <1>10, <1>11
     DEF CheckerInv, Launch, PingedBefore, Before, Elements

(***************************************************************************)
(* What update_async_results leaves is a part of what was there.           *)
(***************************************************************************)
LEMMA PollLeaves ==
  ASSUME CheckerInv, Poll
  PROVE  async_checks' \in Seq(Checks) /\ OneCheckPerAddress'
<1>1. PICK left \in [1..Cardinality(Running) -> Running] :
        /\ \A i, j \in DOMAIN left : i < j => left[i] < left[j]
        /\ async_checks' = [i \in DOMAIN left |-> async_checks[left[i]]]
  BY DEF Poll
<1>2. async_checks \in Seq(Checks)
  BY DEF CheckerInv, CheckerTypeOK, Checks
<1>3. /\ DOMAIN async_checks = 1..Len(async_checks) /\ Len(async_checks) \in Nat
      /\ \A i \in DOMAIN async_checks : async_checks[i] \in Checks
  BY <1>2, LenProperties, ElementOfSeq
<1>4. Running \subseteq 1..Len(async_checks)
  BY <1>3 DEF Running
<1>5. Cardinality(Running) \in Nat
  <2>1. IsFiniteSet(1..Len(async_checks))
    BY <1>3, FS_Interval
  <2> QED
    BY <1>4, <2>1, FS_Subset, FS_CardinalityType
<1>6. async_checks' \in Seq(Checks)
  <2>1. async_checks' \in [1..Cardinality(Running) -> Checks]
    BY <1>1, <1>3, <1>4
  <2> QED
    BY <1>5, <2>1, FunctionIsSeq
<1>7. OneCheckPerAddress'
  <2> SUFFICES ASSUME NEW i \in 1..Cardinality(Running),
                      NEW j \in 1..Cardinality(Running),
                      async_checks[left[i]].addr = async_checks[left[j]].addr
               PROVE  i = j
    BY <1>1 DEF OneCheckPerAddress
  <2>1. left[i] \in DOMAIN async_checks /\ left[j] \in DOMAIN async_checks
    BY <1>3, <1>4
  <2>2. left[i] = left[j] /\ left[i] \in Int
    BY <1>3, <2>1 DEF CheckerInv, OneCheckPerAddress
  <2>3. ~(i < j) /\ ~(j < i)
    BY <1>1, <2>2
  <2> QED
    BY <1>5, <2>3
<1> QED
  BY <1>6, <1>7

LEMMA PollInv ==
  ASSUME CheckerInv, Poll
  PROVE  CheckerInv'
<1>1. /\ PingedBefore(Len(ips) + 1) /\ Checking = failed_ips
      /\ DOMAIN ip_status = Elements(ips) /\ ip_status \in [Elements(ips) -> BOOLEAN]
  BY DEF CheckerInv, CheckerTypeOK, PartialMaps, Poll
<1>2. Elements(ips) \subseteq Ips
  BY ListOfAddresses DEF CheckerInv, CheckerTypeOK
<1>3. ReadyAddr("ok") \subseteq Ips
  <2>1. async_checks \in Seq(Checks)
    BY DEF CheckerInv, CheckerTypeOK, Checks
  <2>2. \A i \in DOMAIN async_checks : async_checks[i] \in Checks
    BY <2>1, LenProperties, ElementOfSeq
  <2>3. \A i \in DOMAIN async_checks : async_checks[i].addr \in Ips
    BY <2>2 DEF Checks
  <2> QED
    BY <2>3 DEF ReadyAddr, Ready
<1>4. ip_status' = [a \in Elements(ips) |->
                     IF a \in ReadyAddr("ok") THEN TRUE
                     ELSE IF a \in ReadyAddr("failed") THEN FALSE
                     ELSE ip_status[a]]
  BY <1>1 DEF Poll
<1>5. ip_status' \in [Elements(ips) -> BOOLEAN]
  BY <1>1, <1>4
<1>6. CheckerTypeOK'
  <2>1. ip_status' \in PartialMaps(Ips, BOOLEAN)
    BY <1>2, <1>5 DEF PartialMaps
  <2>2. answered' \subseteq Ips
    BY <1>3 DEF CheckerInv, CheckerTypeOK, Poll
  <2> QED
    BY <2>1, <2>2, PollLeaves DEF CheckerInv, CheckerTypeOK, Poll, Checks
<1>7. ASSUME NEW a \in Elements(ips)
      PROVE  ip_status'[a] <=> a \in answered'
  <2>1. answered' = answered \cup ReadyAddr("ok")
    BY DEF Poll
  <2>2. ip_status[a] <=> a \in answered
    BY <1>1 DEF PingedBefore
  <2>3. CASE a \in ReadyAddr("ok")
    BY <1>4, <2>1, <2>3
  <2>4. CASE a \notin ReadyAddr("ok") /\ a \in ReadyAddr("failed")
    <3>1. a \in failed_ips
      BY <1>1, <2>4 DEF ReadyAddr, Ready, Checking
    <3>2. ~ip_status[a]
      BY <1>1, <3>1 DEF PingedBefore
    <3> QED
      BY <1>4, <2>1, <2>2, <2>4, <3>2
  <2>5. CASE a \notin ReadyAddr("ok") /\ a \notin ReadyAddr("failed")
    BY <1>4, <2>1, <2>2, <2>5
  <2> QED
    BY <2>3, <2>4, <2>5
<1>8. /\ pc' = "load" /\ ips' = ips /\ failed_ips' = failed_ips
      /\ DOMAIN ip_status' = Elements(ips)'
  BY <1>4 DEF Poll, Elements
<1>9. \A a \in DOMAIN ip_status' : ip_status'[a] <=> a \in answered'
  BY <1>5, <1>7
<1> QED
  BY <1>6, <1>8, <1>9, PollLeaves DEF CheckerInv

(***************************************************************************)
(* A caller that skips update_async_results, as main does.                 *)
(***************************************************************************)
LEMMA UnpolledInv ==
  ASSUME CheckerInv, pc = "poll", pc' = "load",
         UNCHANGED <<host, ips, next, ip_status, failed_ips, async_checks, answered>>
  PROVE  CheckerInv'
BY DEF CheckerInv, CheckerTypeOK, OneCheckPerAddress, PingedBefore, Elements

(***************************************************************************)
(* Beside the methods: the threads, and the hosts.                         *)
(***************************************************************************)
LEMMA PingEndsInv ==
  ASSUME CheckerInv, SomePingEnds
  PROVE  CheckerInv'
<1>1. PICK k \in DOMAIN async_checks : PingEnds(k)
  BY DEF SomePingEnds
<1>2. async_checks \in Seq(Checks)
  BY DEF CheckerInv, CheckerTypeOK, Checks
<1>3. /\ DOMAIN async_checks = 1..Len(async_checks)
      /\ \A i \in DOMAIN async_checks : async_checks[i] \in Checks
  BY <1>2, LenProperties, ElementOfSeq
<1> DEFINE result == IF host[async_checks[k].addr] = "down" THEN "failed" ELSE "ok"
           ended == [async_checks[k] EXCEPT !.result = result]
<1>4. ended \in Checks /\ ended.addr = async_checks[k].addr
  BY <1>3 DEF Checks
<1>5. async_checks' = [async_checks EXCEPT ![k] = ended]
  BY <1>1 DEF PingEnds
<1>6. /\ async_checks' \in Seq(Checks)
      /\ DOMAIN async_checks' = DOMAIN async_checks
  BY <1>2, <1>3, <1>4, <1>5, ExceptSeq
<1>7. \A i \in DOMAIN async_checks : async_checks'[i].addr = async_checks[i].addr
  BY <1>3, <1>4, <1>5
<1>8. OneCheckPerAddress' /\ Checking' = Checking
  BY <1>6, <1>7 DEF CheckerInv, OneCheckPerAddress, Checking
<1>9. async_checks # << >>
  BY <1>1
<1>10. CheckerTypeOK'
  BY <1>1, <1>6 DEF CheckerInv, CheckerTypeOK, PingEnds, Checks
<1> QED
  BY <1>1, <1>8, <1>9, <1>10
     DEF CheckerInv, PingEnds, PingedBefore, Before, Elements

(***************************************************************************)
(* Nothing of the checker depends on how the hosts answer by now.          *)
(***************************************************************************)
LEMMA OtherHosts ==
  ASSUME CheckerInv, host' \in [Ips -> Modes],
         UNCHANGED <<pc, ips, next, ip_status, failed_ips, async_checks, answered>>
  PROVE  CheckerInv'
BY DEF CheckerInv, CheckerTypeOK, OneCheckPerAddress, PingedBefore, Before,
       Elements, Checking

LEMMA HostChangesType ==
  ASSUME host \in [Ips -> Modes], HostChanges
  PROVE  host' \in [Ips -> Modes]
BY DEF HostChanges

(***************************************************************************)
(* What the callers rely on.                                               *)
(***************************************************************************)
LEMMA CheckerInvShows ==
  ASSUME CheckerInv
  PROVE  StatusIsOfThisCycle /\ OneThreadPerFailure
<1>1. ASSUME pc = "poll" PROVE Checking = {a \in DOMAIN ip_status : ~ip_status[a]}
  <2>1. Len(ips) \in Nat /\ DOMAIN ips = 1..Len(ips)
    BY ListOfAddresses DEF CheckerInv, CheckerTypeOK
  <2>2. Before(Len(ips) + 1) = Elements(ips)
    BY <2>1 DEF Before, Elements
  <2> QED
    BY <1>1, <2>2 DEF CheckerInv, PingedBefore
<1> QED
  BY <1>1 DEF CheckerInv, StatusIsOfThisCycle, OneThreadPerFailure, OneCheckPerAddress
===============================================================================
