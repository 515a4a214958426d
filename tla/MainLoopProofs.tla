---------------------------- MODULE MainLoopProofs -----------------------------
(***************************************************************************)
(* The main loop for any addresses, lists, intervals and edits of them:    *)
(* type correctness, that either IpChecker has the statuses of its own     *)
(* cycle and bounds its threads, and that no Guardant result is lost; and  *)
(* then the Guardant check beside the loop, of which by LoopKeepsResults   *)
(* there is one at a time, so that one pc can follow it: its types, and    *)
(* that it implements Publication.                                         *)
(***************************************************************************)
EXTENDS MainLoop, GuardantChannel, IpCheckerProofs, OpcUaClientProofs

(***************************************************************************)
(* The lemmas about the class, for main's own object.                      *)
(***************************************************************************)
OwnProofs == INSTANCE IpCheckerProofs WITH
               pc <- own_pc, ips <- own_ips, next <- own_next,
               ip_status <- own_ip_status, failed_ips <- own_failed_ips,
               async_checks <- own_async_checks, answered <- own_answered

LEMMA OwnMethods ==
  /\ Own!CheckerInit => OwnProofs!CheckerInit
  /\ Own!LoadBegins => OwnProofs!LoadBegins
  /\ Own!Destroy => OwnProofs!Destroy
  /\ Own!Load => OwnProofs!Load
  /\ Own!SyncCheck => OwnProofs!SyncCheck
  /\ Own!SyncDone => OwnProofs!SyncDone
  /\ Own!Launch => OwnProofs!Launch
  /\ Own!SomePingEnds => OwnProofs!SomePingEnds
<1>1. Own!CheckerInit => OwnProofs!CheckerInit
  BY DEF Own!CheckerInit, OwnProofs!CheckerInit, Own!Modes, OwnProofs!Modes,
         Own!EmptyMap, OwnProofs!EmptyMap
<1>2. Own!LoadBegins => OwnProofs!LoadBegins
  BY DEF Own!LoadBegins, OwnProofs!LoadBegins
<1>3. Own!Destroy => OwnProofs!Destroy
  BY DEF Own!Destroy, OwnProofs!Destroy
<1>4. Own!Load => OwnProofs!Load
  BY DEF Own!Load, OwnProofs!Load, Own!Elements, OwnProofs!Elements
<1>5. Own!SyncCheck => OwnProofs!SyncCheck
  BY DEF Own!SyncCheck, OwnProofs!SyncCheck
<1>6. Own!SyncDone => OwnProofs!SyncDone
  BY DEF Own!SyncDone, OwnProofs!SyncDone
<1>7. Own!Launch => OwnProofs!Launch
  BY DEF Own!Launch, OwnProofs!Launch, Own!Elements, OwnProofs!Elements,
         Own!Checking, OwnProofs!Checking, Own!NewCheck, OwnProofs!NewCheck,
         Own!Cardinality, OwnProofs!Cardinality
<1>8. Own!SomePingEnds => OwnProofs!SomePingEnds
  <2>1. ASSUME NEW i, Own!PingEnds(i) PROVE OwnProofs!PingEnds(i)
    BY <2>1 DEF Own!PingEnds, OwnProofs!PingEnds
  <2> QED
    BY <2>1 DEF Own!SomePingEnds, OwnProofs!SomePingEnds
<1> QED
  BY <1>1, <1>2, <1>3, <1>4, <1>5, <1>6, <1>7, <1>8

OwnInv == OwnProofs!CheckerInv

LEMMA OwnShows ==
  OwnInv => Own!CheckerTypeOK /\ Own!StatusIsOfThisCycle /\ Own!OneThreadPerFailure
<1> SUFFICES ASSUME OwnInv
             PROVE  /\ Own!CheckerTypeOK
                    /\ Own!StatusIsOfThisCycle
                    /\ Own!OneThreadPerFailure
  OBVIOUS
<1>1. OwnProofs!StatusIsOfThisCycle /\ OwnProofs!OneThreadPerFailure
  BY ListsAssumption, OwnProofs!CheckerInvShows DEF OwnInv
<1>2. OwnProofs!CheckerTypeOK
  BY DEF OwnInv, OwnProofs!CheckerInv
<1>3. Own!CheckerTypeOK
  BY <1>2 DEF OwnProofs!CheckerTypeOK, Own!CheckerTypeOK, Own!Modes, OwnProofs!Modes,
              Own!PartialMaps, OwnProofs!PartialMaps
<1>4. Own!StatusIsOfThisCycle
  BY <1>1 DEF OwnProofs!StatusIsOfThisCycle, Own!StatusIsOfThisCycle,
              Own!Elements, OwnProofs!Elements
<1>5. Own!OneThreadPerFailure
  BY <1>1 DEF OwnProofs!OneThreadPerFailure, Own!OneThreadPerFailure,
              Own!Checking, OwnProofs!Checking
<1> QED
  BY <1>3, <1>4, <1>5

-------------------------------------------------------------------------------
(***************************************************************************)
(* The ages.                                                               *)
(***************************************************************************)
LEMMA MaxOfGreatest ==
  ASSUME NEW S, \E x \in S : \A y \in S : y <= x
  PROVE  MaxOf(S) \in S /\ \A y \in S : y <= MaxOf(S)
BY DEF MaxOf

LEMMA Ages ==
  /\ MaxAge \in Nat
  /\ MaxOf(Intervals) \in 0..MaxAge
  /\ xml_interval \in 0..MaxAge
  /\ guardant_interval \in 0..MaxAge
<1> DEFINE all == Intervals \cup {xml_interval, guardant_interval}
<1>1. PICK m \in Intervals : \A i \in Intervals : i <= m
  BY IntervalsAssumption
<1>2. all \subseteq Nat
  BY IntervalsAssumption
<1>3. \E x \in all : \A y \in all : y <= x
  <2>1. CASE m <= xml_interval /\ guardant_interval <= xml_interval
    BY <1>1, <1>2, <2>1
  <2>2. CASE m <= guardant_interval /\ xml_interval <= guardant_interval
    BY <1>1, <1>2, <2>2
  <2>3. CASE xml_interval <= m /\ guardant_interval <= m
    BY <1>1, <1>2, <2>3
  <2> QED
    BY <1>2, <2>1, <2>2, <2>3
<1>4. MaxAge \in all /\ \A y \in all : y <= MaxAge
  BY <1>3, MaxOfGreatest DEF MaxAge
<1>5. MaxOf(Intervals) \in Intervals
  BY <1>1, MaxOfGreatest
<1> QED
  BY <1>2, <1>4, <1>5

(***************************************************************************)
(* The inductive invariant.  A checker is at work only while the loop is   *)
(* in its part; and guardant_check_running tells whether there is a future.*)
(***************************************************************************)
LoopTypes ==
  /\ at \in {"xml", "fast", "checking", "opc", "channels", "ips", "guardant",
             "result", "stopped"}
  /\ fast_interval \in Intervals
  /\ {last_xml, last_fast, last_opc_send, last_guardant_start} \subseteq 0..MaxAge
  /\ guardant_check_running \in BOOLEAN
  /\ guardant_future \in {"none", "running", "ready"}

CheckersRest ==
  /\ at # "ips" => pc = "load"
  /\ at # "checking" => own_pc = "load"

OneFuture == guardant_check_running <=> guardant_future # "none"

LoopInv == CheckerInv /\ OwnInv /\ LoopTypes /\ CheckersRest /\ OneFuture

LEMMA LoopInitInv == LoopInit => LoopInv
<1> SUFFICES ASSUME LoopInit PROVE LoopInv
  OBVIOUS
<1>1. CheckerInv
  BY CheckerInitInv DEF LoopInit
<1>2. OwnInv
  BY ListsAssumption, OwnMethods, OwnProofs!CheckerInitInv DEF LoopInit, OwnInv
<1>3. LoopTypes
  <2>1. 0 \in 0..MaxAge
    BY Ages
  <2> QED
    BY <2>1, IntervalsAssumption DEF LoopInit, LoopTypes
<1>4. CheckersRest
  BY DEF LoopInit, CheckersRest, CheckerInit, Own!CheckerInit
<1> QED
  BY <1>1, <1>2, <1>3, <1>4 DEF LoopInv, OneFuture, LoopInit

(***************************************************************************)
(* The two checkers share the hosts and nothing else.                      *)
(***************************************************************************)
LEMMA GlobalRests ==
  ASSUME CheckerInv, UNCHANGED global_checker, host' \in [Ips -> Modes]
  PROVE  CheckerInv'
BY OtherHosts DEF global_checker

LEMMA OwnRests ==
  ASSUME OwnInv, UNCHANGED own_checker, host' \in [Ips -> Modes]
  PROVE  OwnInv'
BY ListsAssumption, OwnProofs!OtherHosts
   DEF own_checker, OwnInv, Modes, OwnProofs!Modes

LEMMA BothRest ==
  ASSUME LoopInv, UNCHANGED checkers
  PROVE  CheckerInv' /\ OwnInv'
<1>1. host' \in [Ips -> Modes]
  BY DEF LoopInv, CheckerInv, CheckerTypeOK, checkers
<1> QED
  BY <1>1, GlobalRests, OwnRests DEF LoopInv, checkers

(***************************************************************************)
(* The steps of the loop that leave both checkers alone.                   *)
(***************************************************************************)
LEMMA ResetType ==
  ASSUME NEW age \in 0..MaxAge, NEW limit
  PROVE  Reset(age, limit) \in 0..MaxAge
BY Ages DEF Reset

LEMMA OlderType ==
  ASSUME NEW age \in 0..MaxAge, NEW limit \in 0..MaxAge
  PROVE  Older(age, limit) \in 0..MaxAge
BY Ages DEF Older

Timing == Xml \/ NotANumber \/ Opc \/ Guardant \/ NoResult \/ Result

LEMMA TimingInv ==
  ASSUME LoopInv, Timing
  PROVE  LoopInv'
<1>1. UNCHANGED checkers
  BY DEF Timing, Xml, NotANumber, Opc, Guardant, NoResult, Result
<1>2. CheckerInv' /\ OwnInv'
  BY <1>1, BothRest
<1>3. pc' = pc /\ own_pc' = own_pc
  BY <1>1 DEF checkers, global_checker, own_checker
<1>4. LoopTypes' /\ CheckersRest' /\ OneFuture'
  <2> USE DEF LoopInv, LoopTypes, CheckersRest, OneFuture, timers, guardant
  <2>1. CASE Xml
    BY <1>3, <2>1, ResetType DEF Xml
  <2>2. CASE NotANumber
    BY <1>3, <2>2 DEF NotANumber
  <2>3. CASE Opc
    BY <1>3, <2>3, ResetType DEF Opc
  <2>4. CASE Guardant
    BY <1>3, <2>4, ResetType DEF Guardant, Starts
  <2>5. CASE NoResult
    BY <1>3, <2>5 DEF NoResult
  <2>6. CASE Result
    BY <1>3, <2>6 DEF Result
  <2> QED
    BY <2>1, <2>2, <2>3, <2>4, <2>5, <2>6 DEF Timing
<1> QED
  BY <1>2, <1>4 DEF LoopInv

LEMMA TickInv ==
  ASSUME LoopInv, Tick
  PROVE  LoopInv'
<1>1. CheckerInv' /\ OwnInv'
  BY BothRest DEF Tick
<1>2. LoopTypes'
  BY Ages, OlderType DEF LoopInv, LoopTypes, Tick, guardant
<1> QED
  BY <1>1, <1>2 DEF LoopInv, Tick, CheckersRest, OneFuture, guardant, checkers,
                    global_checker, own_checker

LEMMA CheckEndsInv ==
  ASSUME LoopInv, CheckEnds
  PROVE  LoopInv'
<1>1. CheckerInv' /\ OwnInv'
  BY BothRest DEF CheckEnds
<1> QED
  BY <1>1 DEF LoopInv, CheckEnds, LoopTypes, CheckersRest, OneFuture, checkers,
              global_checker, own_checker, loop, timers

(***************************************************************************)
(* The steps in main's own checker.                                        *)
(***************************************************************************)
LEMMA FastInv ==
  ASSUME LoopInv, Fast
  PROVE  LoopInv'
<1>1. CASE TimePassed(last_fast, fast_interval)
  <2>1. Own!LoadBegins /\ at' = "checking"
    BY <1>1 DEF Fast
  <2>2. OwnInv'
    BY <2>1, ListsAssumption, OwnMethods, OwnProofs!LoadBeginsInv DEF LoopInv, OwnInv
  <2>3. host' = host
    BY <2>1 DEF Own!LoadBegins
  <2>4. CheckerInv'
    BY <2>3, GlobalRests DEF LoopInv, CheckerInv, CheckerTypeOK, Fast
  <2>5. LoopTypes' /\ CheckersRest' /\ OneFuture'
    BY <2>1, ResetType
       DEF Fast, LoopInv, LoopTypes, CheckersRest, OneFuture, guardant, global_checker
  <2> QED
    BY <2>2, <2>4, <2>5 DEF LoopInv
<1>2. CASE ~TimePassed(last_fast, fast_interval)
  <2>1. UNCHANGED checkers /\ at' = "opc"
    BY <1>2 DEF Fast, checkers
  <2>2. CheckerInv' /\ OwnInv'
    BY <2>1, BothRest
  <2>3. LoopTypes' /\ CheckersRest' /\ OneFuture'
    BY <2>1, ResetType
       DEF Fast, LoopInv, LoopTypes, CheckersRest, OneFuture, guardant, checkers,
           global_checker, own_checker
  <2> QED
    BY <2>2, <2>3 DEF LoopInv
<1> QED
  BY <1>1, <1>2

LEMMA OwnCheckInv ==
  ASSUME LoopInv, OwnCheck
  PROVE  LoopInv'
<1> USE ListsAssumption, OwnMethods DEF OwnInv
<1>1. OwnInv' /\ host' = host
  <2>1. CASE Own!Destroy
    BY <2>1, OwnProofs!DestroyInv DEF LoopInv, Own!Destroy
  <2>2. CASE Own!Load
    BY <2>2, OwnProofs!LoadInv DEF LoopInv, Own!Load
  <2>3. CASE Own!SyncCheck
    BY <2>3, OwnProofs!SyncCheckInv DEF LoopInv, Own!SyncCheck
  <2>4. CASE Own!SyncDone
    BY <2>4, OwnProofs!SyncDoneInv DEF LoopInv, Own!SyncDone
  <2>5. CASE Own!Launch
    BY <2>5, OwnProofs!LaunchInv DEF LoopInv, Own!Launch
  <2> QED
    BY <2>1, <2>2, <2>3, <2>4, <2>5 DEF OwnCheck
<1>2. CheckerInv'
  BY <1>1, GlobalRests DEF LoopInv, CheckerInv, CheckerTypeOK, OwnCheck
<1> QED
  BY <1>1, <1>2
     DEF LoopInv, OwnCheck, LoopTypes, CheckersRest, OneFuture, loop, timers,
         guardant, global_checker

LEMMA CheckedInv ==
  ASSUME LoopInv, Checked
  PROVE  LoopInv'
<1>1. OwnInv'
  BY ListsAssumption, OwnProofs!UnpolledInv DEF LoopInv, OwnInv, Checked
<1>2. CheckerInv'
  BY GlobalRests DEF LoopInv, CheckerInv, CheckerTypeOK, Checked
<1> QED
  BY <1>1, <1>2
     DEF LoopInv, Checked, LoopTypes, CheckersRest, OneFuture, timers, guardant,
         global_checker

(***************************************************************************)
(* The steps in the checker of collect_ip_states.                          *)
(***************************************************************************)
LEMMA ChannelsInv ==
  ASSUME LoopInv, Channels
  PROVE  LoopInv'
<1>1. CheckerInv' /\ host' = host
  BY LoadBeginsInv DEF LoopInv, Channels, LoadBegins
<1>2. OwnInv'
  BY <1>1, OwnRests DEF LoopInv, CheckerInv, CheckerTypeOK, Channels
<1> QED
  BY <1>1, <1>2
     DEF LoopInv, Channels, LoopTypes, CheckersRest, OneFuture, timers, guardant,
         own_checker

LEMMA CollectIpsInv ==
  ASSUME LoopInv, CollectIps
  PROVE  LoopInv'
<1>1. CheckerInv' /\ host' = host
  <2>1. CASE Destroy
    BY <2>1, DestroyInv DEF LoopInv, Destroy
  <2>2. CASE Load
    BY <2>2, LoadInv DEF LoopInv, Load
  <2>3. CASE SyncCheck
    BY <2>3, SyncCheckInv DEF LoopInv, SyncCheck
  <2>4. CASE SyncDone
    BY <2>4, SyncDoneInv DEF LoopInv, SyncDone
  <2>5. CASE Launch
    BY <2>5, LaunchInv DEF LoopInv, Launch
  <2>6. CASE Poll
    BY <2>6, PollInv DEF LoopInv, Poll
  <2> QED
    BY <2>1, <2>2, <2>3, <2>4, <2>5, <2>6 DEF CollectIps
<1>2. OwnInv'
  BY <1>1, OwnRests DEF LoopInv, CheckerInv, CheckerTypeOK, CollectIps
<1> QED
  BY <1>1, <1>2
     DEF LoopInv, CollectIps, LoopTypes, CheckersRest, OneFuture, timers,
         guardant, own_checker

(***************************************************************************)
(* The threads of either checker, and the hosts.                           *)
(***************************************************************************)
LEMMA GlobalPingInv ==
  ASSUME LoopInv, GlobalPingEnds
  PROVE  LoopInv'
<1>1. CheckerInv'
  BY PingEndsInv DEF LoopInv, GlobalPingEnds
<1>2. host' = host /\ pc' = pc
  BY DEF GlobalPingEnds, SomePingEnds, PingEnds
<1>3. OwnInv'
  BY <1>2, OwnRests DEF LoopInv, CheckerInv, CheckerTypeOK, GlobalPingEnds
<1> QED
  BY <1>1, <1>2, <1>3
     DEF LoopInv, GlobalPingEnds, LoopTypes, CheckersRest, OneFuture, loop,
         timers, guardant, own_checker

LEMMA OwnPingInv ==
  ASSUME LoopInv, OwnPingEnds
  PROVE  LoopInv'
<1>1. OwnInv'
  BY ListsAssumption, OwnMethods, OwnProofs!PingEndsInv
     DEF LoopInv, OwnInv, OwnPingEnds
<1>2. host' = host /\ own_pc' = own_pc
  BY DEF OwnPingEnds, Own!SomePingEnds, Own!PingEnds
<1>3. CheckerInv'
  BY <1>2, GlobalRests DEF LoopInv, CheckerInv, CheckerTypeOK, OwnPingEnds
<1> QED
  BY <1>1, <1>2, <1>3
     DEF LoopInv, OwnPingEnds, LoopTypes, CheckersRest, OneFuture, loop, timers,
         guardant, global_checker

LEMMA HostStepInv ==
  ASSUME LoopInv, HostStep
  PROVE  LoopInv'
<1>1. host' \in [Ips -> Modes]
  BY HostChangesType DEF LoopInv, CheckerInv, CheckerTypeOK, HostStep
<1>2. CheckerInv' /\ OwnInv'
  BY <1>1, GlobalRests, OwnRests
     DEF LoopInv, HostStep, HostChanges, global_checker
<1> QED
  BY <1>2 DEF LoopInv, HostStep, HostChanges, LoopTypes, CheckersRest, OneFuture,
              loop, timers, guardant, own_checker

-------------------------------------------------------------------------------
LEMMA LoopNextInv == LoopInv /\ [LoopNext]_loopVars => LoopInv'
<1> SUFFICES ASSUME LoopInv, [LoopNext]_loopVars PROVE LoopInv'
  OBVIOUS
<1>1. CASE Main
  BY <1>1, TimingInv, FastInv, OwnCheckInv, CheckedInv, ChannelsInv, CollectIpsInv
     DEF Main, Timing
<1>2. CASE UNCHANGED loopVars
  <2>1. CheckerInv' /\ OwnInv'
    BY <1>2, BothRest DEF loopVars
  <2> QED
    BY <1>2, <2>1 DEF loopVars, LoopInv, LoopTypes, CheckersRest, OneFuture, loop,
                      timers, guardant, checkers, global_checker, own_checker
<1> QED
  BY <1>1, <1>2, CheckEndsInv, GlobalPingInv, OwnPingInv, HostStepInv, TickInv
     DEF LoopNext

(***************************************************************************)
(* Type correctness of the loop, its timers and both checkers.             *)
(***************************************************************************)
THEOREM LoopTypeCorrect == LoopSpec => []LoopTypeOK
<1>1. LoopInv => LoopTypeOK
  BY OwnShows DEF LoopInv, LoopTypes, CheckersRest, CheckerInv, LoopTypeOK
<1> QED
  BY <1>1, LoopInitInv, LoopNextInv, PTL DEF LoopSpec

(***************************************************************************)
(* Either checker, when check_ips and update_async_results are done, has   *)
(* the statuses of this very cycle, whatever pings of an earlier one still *)
(* go on, for any lists of addresses.                                      *)
(***************************************************************************)
THEOREM LoopStatuses == LoopSpec => []StatusesOfThisCycle
<1>1. LoopInv => StatusesOfThisCycle
  BY OwnShows, CheckerInvShows DEF LoopInv, StatusesOfThisCycle
<1> QED
  BY <1>1, LoopInitInv, LoopNextInv, PTL DEF LoopSpec

(***************************************************************************)
(* Either checker has at most one ping thread per address, and after       *)
(* check_ips exactly one for every address whose blocking ping failed.     *)
(***************************************************************************)
THEOREM LoopThreads == LoopSpec => []ThreadsBounded
<1>1. LoopInv => ThreadsBounded
  BY OwnShows, CheckerInvShows DEF LoopInv, ThreadsBounded
<1> QED
  BY <1>1, LoopInitInv, LoopNextInv, PTL DEF LoopSpec

(***************************************************************************)
(* A Guardant check never replaces one whose result has not been taken:    *)
(* a check starts only when there is no future, and only taking the result *)
(* ends it.                                                                *)
(***************************************************************************)
THEOREM LoopKeepsResults == LoopSpec => NoResultLost
<1>1. ASSUME LoopInv, [LoopNext]_loopVars
      PROVE  [guardant_future # "none" /\ guardant_future' # guardant_future
                => guardant_future' = "ready" \/ at = "result"]_loopVars
  <2>1. CASE Guardant
    BY <1>1, <2>1 DEF LoopInv, OneFuture, Guardant, Starts, guardant
  <2>2. CASE Main /\ ~Guardant
    BY <2>2 DEF Main, Xml, NotANumber, Fast, OwnCheck, Checked, Opc, Channels,
                CollectIps, NoResult, Result, guardant
  <2>3. CASE CheckEnds
    BY <2>3 DEF CheckEnds
  <2>4. CASE GlobalPingEnds \/ OwnPingEnds \/ HostStep \/ Tick
    BY <2>4 DEF GlobalPingEnds, OwnPingEnds, HostStep, Tick, guardant
  <2> QED
    BY <1>1, <2>1, <2>2, <2>3, <2>4 DEF LoopNext
<1> QED
  BY <1>1, LoopInitInv, LoopNextInv, PTL DEF LoopSpec, NoResultLost

-------------------------------------------------------------------------------
(***************************************************************************)
(* The Guardant check.  A batch holds one config for each of some products *)
(* of changed, and exists only while it is written.                        *)
(***************************************************************************)
BatchOfProducts ==
  \A c \in batch : \E p \in DOMAIN products : c = ProductConfig(p, products[p])

GuardShown == {0, 1, NoValue}

GuardInv ==
  /\ GuardantTypeOK
  /\ BatchOfProducts
  /\ guard_pc # "write" => batch = {}
  /\ skipped \subseteq Products
  /\ nodes \in [NodeIds -> GuardShown]

LEMMA GuardInitInv == GuardantInit => GuardInv
<1> SUFFICES ASSUME GuardantInit PROVE GuardInv
  OBVIOUS
<1>1. products \in PartialMaps(Products, BOOLEAN)
      /\ last_products \in PartialMaps(Products, {TRUE})
  BY EmptyMapType DEF GuardantInit
<1> QED
  BY <1>1, GuardantAssumption
     DEF GuardantInit, GuardInv, GuardantTypeOK, OpcTypeOK, OpcInit, GuardShown,
         BatchOfProducts

LEMMA ProductWire ==
  ASSUME NEW p \in Products, NEW found \in BOOLEAN
  PROVE  /\ Wire(ProductConfig(p, found)) = IF found THEN 1 ELSE 0
         /\ ProductConfig(p, found).node_id = ProductNode[p]
         /\ ProductNode[p] \in NodeIds
<1>1. ProductType[p] \in {"BOOL", "INT"} /\ ProductNode[p] \in NodeIds
  BY GuardantAssumption
<1> QED
  BY <1>1 DEF ProductConfig, WriteConfig, Wire, MembersOf, IntegerMembers, Int16, Low16

(***************************************************************************)
(* What the configs of a batch are, one by one.                            *)
(***************************************************************************)
LEMMA BatchConfigs ==
  ASSUME GuardantTypeOK, BatchOfProducts
  PROVE  /\ OneConfigPerNode(batch)
         /\ \A c \in batch :
              \E p \in DOMAIN products :
                /\ p \in Products
                /\ c.node_id = ProductNode[p]
                /\ Wire(c) = IF products[p] THEN 1 ELSE 0
         /\ NodesOf(batch) \subseteq NodeIds
<1>1. ASSUME NEW c \in batch
      PROVE  \E p \in DOMAIN products :
               /\ p \in Products
               /\ c = ProductConfig(p, products[p])
               /\ c.node_id = ProductNode[p]
               /\ ProductNode[p] \in NodeIds
               /\ Wire(c) = IF products[p] THEN 1 ELSE 0
  <2>1. PICK p \in DOMAIN products : c = ProductConfig(p, products[p])
    BY DEF BatchOfProducts
  <2>2. p \in Products /\ products[p] \in BOOLEAN
    BY PartialMapsElim DEF GuardantTypeOK
  <2> QED
    BY <2>1, <2>2, ProductWire
<1>2. OneConfigPerNode(batch)
  BY <1>1, GuardantAssumption DEF OneConfigPerNode
<1> QED
  BY <1>1, <1>2 DEF NodesOf

(***************************************************************************)
(* The cache keeps the products that are found, and only those.            *)
(***************************************************************************)
LEMMA RememberedFound ==
  ASSUME GuardantTypeOK
  PROVE  /\ Remembered \in PartialMaps(Products, {TRUE})
         /\ \A p \in Products :
              p \in DOMAIN Remembered <=>
                IF p \in DOMAIN products THEN products[p]
                ELSE p \in DOMAIN last_products
<1>1. /\ DOMAIN products \subseteq Products
      /\ \A p \in DOMAIN products : products[p] \in BOOLEAN
      /\ DOMAIN last_products \subseteq Products
      /\ \A p \in DOMAIN last_products : last_products[p] = TRUE
  <2>1. products \in PartialMaps(Products, BOOLEAN)
        /\ last_products \in PartialMaps(Products, {TRUE})
    BY DEF GuardantTypeOK
  <2>2. DOMAIN products \subseteq Products
        /\ \A p \in DOMAIN products : products[p] \in BOOLEAN
    BY <2>1, PartialMapsElim
  <2>3. DOMAIN last_products \subseteq Products
        /\ \A p \in DOMAIN last_products : last_products[p] \in {TRUE}
    BY <2>1, PartialMapsElim
  <2> QED
    BY <2>2, <2>3
<1> DEFINE D == (DOMAIN last_products \ DOMAIN products) \cup Found
<1>2. D \subseteq Products /\ D \subseteq DOMAIN last_products \cup DOMAIN products
  BY <1>1 DEF Found
<1>3. DOMAIN Remembered = D
  BY <1>2 DEF Remembered, On, Merge
<1>4. ASSUME NEW p \in D PROVE Remembered[p] = TRUE
  BY <1>1, <1>2 DEF Remembered, On, Merge, Found
<1>5. Remembered \in [D -> {TRUE}]
  <2>1. Remembered = [p \in DOMAIN Remembered |-> Remembered[p]]
    BY DEF Remembered, On
  <2> QED
    BY <1>3, <1>4, <2>1
<1>6. Remembered \in PartialMaps(Products, {TRUE})
  BY <1>2, <1>5, PartialMapsIntro
<1> QED
  BY <1>1, <1>3, <1>6 DEF Found

LEMMA ChangedType ==
  ASSUME GuardantTypeOK
  PROVE  ChangedProducts \in PartialMaps(Products, BOOLEAN)
<1>1. /\ DOMAIN products \subseteq Products
      /\ \A p \in DOMAIN products : products[p] \in BOOLEAN
      /\ DOMAIN last_products \subseteq Products
  BY PartialMapsElim DEF GuardantTypeOK
<1>2. MovedProducts \cup Removed \subseteq Products /\ MovedProducts \subseteq DOMAIN products
  BY <1>1 DEF MovedProducts, Removed
<1>3. ChangedProducts \in [MovedProducts \cup Removed -> BOOLEAN]
  BY <1>1, <1>2 DEF ChangedProducts
<1> QED
  BY <1>2, <1>3, PartialMapsIntro

(***************************************************************************)
(* The steps before the batch is written, and those of the world.          *)
(***************************************************************************)
LEMMA GuardCheckInv ==
  ASSUME GuardInv, StartCheck \/ CheckKey \/ LoadFile \/ CheckLicenses \/ Detect
  PROVE  GuardInv'
<1> USE DEF GuardInv
<1>1. batch = {} /\ batch' = {} /\ UNCHANGED <<opcVars, world, last_sent_guardant, skipped>>
  BY DEF StartCheck, CheckKey, LoadFile, CheckLicenses, Detect
<1>2. products' \in PartialMaps(Products, BOOLEAN)
  <2>1. CASE LoadFile
    <3>1. products' \in [config -> BOOLEAN] /\ config \subseteq Products
      BY <2>1 DEF LoadFile, GuardantTypeOK
    <3> QED
      BY <3>1, PartialMapsIntro
  <2>2. CASE CheckLicenses
    <3>1. products' \in [DOMAIN products -> BOOLEAN]
      BY <2>2 DEF CheckLicenses, GuardantTypeOK
    <3>2. DOMAIN products \subseteq Products
      BY PartialMapsElim DEF GuardantTypeOK
    <3> QED
      BY <3>1, <3>2, PartialMapsIntro
  <2>3. CASE Detect
    BY <2>3, ChangedType DEF Detect
  <2>4. CASE StartCheck \/ CheckKey
    BY <2>4 DEF StartCheck, CheckKey, GuardantTypeOK
  <2> QED
    BY <2>1, <2>2, <2>3, <2>4
<1>3. key_inserted' \in BOOLEAN
  BY GuardantAssumption
     DEF StartCheck, CheckKey, LoadFile, CheckLicenses, Detect, GuardantTypeOK
<1>4. guard_pc' \in {"lsusb", "load", "license", "ready", "send"}
  BY DEF StartCheck, CheckKey, LoadFile, CheckLicenses, Detect
<1> QED
  BY <1>1, <1>2, <1>3, <1>4
     DEF GuardantTypeOK, OpcTypeOK, BatchOfProducts, opcVars, world, last_sent_guardant

LEMMA GuardEndsType ==
  ASSUME EndOfCheck
  PROVE  /\ products' \in PartialMaps(Products, BOOLEAN)
         /\ key_inserted' \in BOOLEAN
         /\ guard_pc' = "idle"
BY EmptyMapType DEF EndOfCheck

LEMMA GuardNotHandedInv ==
  ASSUME GuardInv, Nothing \/ NotConnected
  PROVE  GuardInv'
<1>1. /\ EndOfCheck /\ batch = {} /\ batch' = {}
      /\ UNCHANGED <<serverUp, nodes, missed, world, last_sent_guardant, skipped>>
      /\ session' \in BOOLEAN
  BY DEF Nothing, NotConnected, CheckConnection, GuardInv, GuardantTypeOK, OpcTypeOK,
         opcVars
<1> QED
  BY <1>1, GuardEndsType
     DEF GuardInv, GuardantTypeOK, OpcTypeOK, BatchOfProducts, world, last_sent_guardant

LEMMA GuardConnectedInv ==
  ASSUME GuardInv, Connected
  PROVE  GuardInv'
<1>1. BatchOfProducts'
  BY DEF Connected, BatchOfProducts, writeConfigs, ProductConfig
<1>2. session' \in BOOLEAN
  BY DEF Connected, CheckConnection, GuardInv, GuardantTypeOK, OpcTypeOK
<1> QED
  BY <1>1, <1>2 DEF Connected, GuardInv, GuardantTypeOK, OpcTypeOK, world,
                    last_sent_guardant

LEMMA GuardSendInv ==
  ASSUME GuardInv, Send
  PROVE  GuardInv'
<1> USE DEF GuardInv
<1>1. OpcTypeOK'
  BY BatchConfigs, WriteType DEF Send, GuardantTypeOK, NodesOf
<1>2. nodes' \in [NodeIds -> GuardShown]
  BY BatchConfigs, WriteValues DEF Send, GuardShown
<1>3. last_products' \in PartialMaps(Products, {TRUE})
  BY RememberedFound DEF Send
<1>4. skipped' \subseteq Products
  BY PartialMapsElim DEF Send, GuardantTypeOK
<1> QED
  BY <1>1, <1>2, <1>3, <1>4, GuardEndsType
     DEF Send, GuardantTypeOK, BatchOfProducts, world

LEMMA GuardWorldInv ==
  ASSUME GuardInv, Environment
  PROVE  GuardInv'
<1> USE DEF GuardInv
<1>1. CASE WorldStep
  <2>1. key' \in BOOLEAN /\ licensed' \subseteq Products /\ (~key' => licensed' = {})
        /\ config' \subseteq Products
    BY <1>1, GuardantAssumption
       DEF WorldStep, DongleStep, EditStep, GuardantTypeOK
  <2> QED
    BY <1>1, <2>1 DEF WorldStep, GuardantTypeOK, OpcTypeOK, BatchOfProducts, opcVars,
                      last_sent_guardant
<1>2. CASE ServerStep /\ UNCHANGED guardVars
  <2>1. OpcTypeOK' /\ nodes' \in [NodeIds -> GuardShown]
    BY <1>2, ServerStepType, ServerStepValues DEF GuardantTypeOK, GuardShown
  <2> QED
    BY <1>2, <2>1 DEF GuardantTypeOK, BatchOfProducts, guardVars, world,
                      last_sent_guardant
<1> QED
  BY <1>1, <1>2 DEF Environment

LEMMA GuardNextInv == GuardInv /\ [GuardantNext]_vars => GuardInv'
<1> SUFFICES ASSUME GuardInv, [GuardantNext]_vars PROVE GuardInv'
  OBVIOUS
<1>1. CASE UNCHANGED vars
  BY <1>1 DEF vars, opcVars, guardVars, world, last_sent_guardant, GuardInv,
              GuardantTypeOK, OpcTypeOK, BatchOfProducts
<1> QED
  BY <1>1, GuardCheckInv, GuardNotHandedInv, GuardConnectedInv, GuardSendInv,
     GuardWorldInv DEF GuardantNext, Monitor

(***************************************************************************)
(* Type correctness of the Guardant check, whatever products, files and    *)
(* dongles there are; and what it remembers is only ever "found".          *)
(***************************************************************************)
THEOREM GuardantTypeCorrect == GuardantSpec => []GuardantTypeOK
<1>1. GuardInv => GuardantTypeOK
  BY DEF GuardInv
<1> QED
  BY <1>1, GuardInitInv, GuardNextInv, PTL DEF GuardantSpec
-------------------------------------------------------------------------------
(***************************************************************************)
(* The Guardant channel as a Publication, node by node.                    *)
(***************************************************************************)
GuardMissed == missed \cup {ProductNode[p] : p \in skipped}

GuardKept(n) ==
  /\ SentTo(n)' = SentTo(n) \/ SentTo(n)' = NoValue
  /\ nodes'[n] = nodes[n]
  /\ n \in GuardMissed' <=> n \in GuardMissed

GuardLost(n) == nodes'[n] = nodes[n] /\ n \in GuardMissed'

GuardDelivered(n) ==
  /\ nodes'[n] # NoValue
  /\ SentTo(n)' = nodes'[n] \/ SentTo(n)' = NoValue
  /\ n \notin GuardMissed'

(***************************************************************************)
(* The cache tells of a node what it has of its product, and so does the   *)
(* history of what was missed or skipped.                                  *)
(***************************************************************************)
GuardNodes ==
  /\ \A p \in Products :
       /\ SentTo(ProductNode[p]) = IF p \in DOMAIN last_products THEN 1 ELSE NoValue
       /\ ProductNode[p] \in GuardMissed <=> ProductNode[p] \in missed \/ p \in skipped
  /\ \A n :
       (\A p \in Products : ProductNode[p] # n) =>
         SentTo(n) = NoValue /\ (n \in GuardMissed <=> n \in missed)

LEMMA GuardNodesHold == GuardInv => GuardNodes
<1> SUFFICES ASSUME GuardInv PROVE GuardNodes
  OBVIOUS
<1>1. DOMAIN last_products \subseteq Products /\ skipped \subseteq Products
  BY PartialMapsElim DEF GuardInv, GuardantTypeOK
<1>2. ASSUME NEW p \in Products
      PROVE  /\ SentTo(ProductNode[p]) =
                  IF p \in DOMAIN last_products THEN 1 ELSE NoValue
             /\ ProductNode[p] \in GuardMissed <=>
                  ProductNode[p] \in missed \/ p \in skipped
  BY <1>1, GuardantAssumption DEF SentTo, GuardMissed
<1>3. ASSUME NEW n, \A p \in Products : ProductNode[p] # n
      PROVE  SentTo(n) = NoValue /\ (n \in GuardMissed <=> n \in missed)
  BY <1>1, <1>3 DEF SentTo, GuardMissed
<1> QED
  BY <1>2, <1>3 DEF GuardNodes

LEMMA GuardSendPublishes ==
  ASSUME GuardInv, GuardInv', Send, NEW n \in NodeIds
  PROVE  GuardKept(n) \/ GuardLost(n) \/ GuardDelivered(n)
<1> USE DEF GuardInv
<1>1. DOMAIN nodes = NodeIds /\ Write(batch)
  BY DEF Send, GuardantTypeOK, OpcTypeOK
<1>2. GuardNodes /\ GuardNodes'
  BY GuardNodesHold, PTL
<1>3. CASE n \in NodesOf(batch)
  <2>1. PICK c \in batch : c.node_id = n
    BY <1>3 DEF NodesOf
  <2>2. PICK p \in DOMAIN products : /\ p \in Products
                                     /\ n = ProductNode[p]
                                     /\ Wire(c) = IF products[p] THEN 1 ELSE 0
    BY <2>1, BatchConfigs
  <2>3. p \in Handed
    BY <1>3, <2>2 DEF Handed
  <2>4. p \notin skipped'
    BY <2>3 DEF Send
  <2>5. n \in GuardMissed' <=> n \in missed'
    BY <1>2, <2>2, <2>4 DEF GuardNodes
  <2>6. SentTo(n)' = IF products[p] THEN 1 ELSE NoValue
    <3>1. p \in DOMAIN last_products' <=> products[p]
      BY <2>2, RememberedFound DEF Send
    <3> QED
      BY <1>2, <2>2, <3>1 DEF GuardNodes
  <2>7. \/ n \notin missed' /\ nodes'[n] = Wire(c)
        \/ n \in missed' /\ nodes'[n] = nodes[n]
    BY <1>1, <2>1, BatchConfigs, WriteOutcome
  <2> QED
    BY <2>2, <2>5, <2>6, <2>7, GuardantAssumption DEF GuardLost, GuardDelivered
<1>4. CASE n \notin NodesOf(batch)
  <2>1. nodes'[n] = nodes[n] /\ (n \in missed' <=> n \in missed)
    BY <1>1, <1>4, WriteKeeps
  <2>2. CASE \A p \in Products : ProductNode[p] # n
    BY <1>2, <2>1, <2>2 DEF GuardNodes, GuardKept
  <2>3. ASSUME NEW p \in Products, ProductNode[p] = n
        PROVE  GuardKept(n) \/ GuardLost(n)
    <3>1. n \in GuardMissed' <=> n \in missed' \/ p \in skipped'
      BY <1>2, <2>3 DEF GuardNodes
    <3>2. n \in GuardMissed <=> n \in missed \/ p \in skipped
      BY <1>2, <2>3 DEF GuardNodes
    <3>3. CASE p \in DOMAIN products
      <4>1. p \in skipped'
        BY <1>4, <2>3, <3>3 DEF Send, Handed
      <4> QED
        BY <2>1, <3>1, <4>1 DEF GuardLost
    <3>4. CASE p \notin DOMAIN products
      <4>1. p \in skipped' <=> p \in skipped
        BY <3>4 DEF Send, Handed
      <4>2. p \in DOMAIN last_products' <=> p \in DOMAIN last_products
        BY <3>4, RememberedFound DEF Send
      <4>3. SentTo(n)' = SentTo(n)
        BY <1>2, <2>3, <4>2 DEF GuardNodes
      <4> QED
        BY <2>1, <3>1, <3>2, <4>1, <4>3 DEF GuardKept
    <3> QED
      BY <3>3, <3>4
  <2> QED
    BY <2>2, <2>3
<1> QED
  BY <1>3, <1>4

LEMMA GuardRefType == GuardInv => Pub!PubTypeOK
<1> SUFFICES ASSUME GuardInv PROVE Pub!PubTypeOK
  OBVIOUS
<1>1. \A n \in NodeIds : SentTo(n) \in GuardShown
  BY DEF SentTo, GuardShown
<1>2. GuardMissed \subseteq NodeIds
  BY GuardantAssumption DEF GuardInv, GuardantTypeOK, OpcTypeOK, GuardMissed
<1> QED
  BY <1>1, <1>2 DEF Pub!PubTypeOK, GuardShown, GuardInv, GuardMissed

LEMMA GuardRefInit == GuardantInit => Pub!PubInit
<1> SUFFICES ASSUME GuardantInit PROVE Pub!PubInit
  OBVIOUS
<1>1. \A n : SentTo(n) = NoValue
  BY DEF SentTo, GuardantInit, EmptyMap
<1> QED
  BY <1>1 DEF Pub!PubInit, GuardantInit, OpcInit

LEMMA GuardRefNext ==
  GuardInv /\ GuardInv' /\ [GuardantNext]_vars => [Pub!PubNext]_(Pub!pubVars)
<1> SUFFICES ASSUME GuardInv, GuardInv', [GuardantNext]_vars
             PROVE  [Pub!PubNext]_(Pub!pubVars)
  OBVIOUS
<1>1. Pub!PubTypeOK'
  BY GuardRefType, PTL
<1>2. CASE Send
  <2>1. ASSUME NEW n \in NodeIds
        PROVE  Pub!Kept(n) \/ Pub!Lost(n) \/ Pub!Delivered(n)
    <3>1. CASE GuardKept(n)
      BY <3>1 DEF GuardKept, GuardMissed, Pub!Kept
    <3>2. CASE GuardLost(n)
      BY <3>2 DEF GuardLost, GuardMissed, Pub!Lost
    <3>3. CASE GuardDelivered(n)
      BY <3>3 DEF GuardDelivered, GuardMissed, Pub!Delivered
    <3> QED
      BY <1>2, <3>1, <3>2, <3>3, GuardSendPublishes
  <2> QED
    BY <1>1, <2>1 DEF Pub!PubNext, Pub!Publish
<1>3. CASE UNCHANGED <<nodes, missed, last_products, skipped>>
  BY <1>3 DEF Pub!pubVars, SentTo
<1>4. CASE ServerStep /\ UNCHANGED guardVars
  <2>1. last_products' = last_products /\ skipped' = skipped
    BY <1>4 DEF guardVars, last_sent_guardant
  <2>2. CASE ServerRestarted
    <3>1. \A n \in NodeIds : SentTo(n)' = SentTo(n)
      BY <2>1 DEF SentTo
    <3> QED
      BY <1>1, <2>1, <2>2, <3>1 DEF ServerRestarted, Pub!PubNext, Pub!Forget
  <2>3. CASE ServerDown \/ ServerBack \/ OthersCall
    BY <1>3, <2>1, <2>3 DEF ServerDown, ServerBack, OthersCall
  <2> QED
    BY <1>4, <2>2, <2>3 DEF ServerStep
<1>5. CASE (Monitor /\ ~Send) \/ WorldStep \/ UNCHANGED vars
  BY <1>3, <1>5
     DEF Monitor, StartCheck, CheckKey, LoadFile, CheckLicenses, Detect, Nothing,
         NotConnected, Connected, WorldStep, vars, opcVars, guardVars,
         last_sent_guardant
<1> QED
  BY <1>2, <1>4, <1>5 DEF GuardantNext, Environment

(***************************************************************************)
(* The Guardant channel implements Publication, if a product it remembers  *)
(* without having handed it over counts as missed: it never makes the      *)
(* server show something else than what it goes on to remember.            *)
(***************************************************************************)
THEOREM GuardantImplementsPublication == GuardantSpec => GuardantPublishes
BY GuardInitInv, GuardNextInv, GuardRefInit, GuardRefNext, PTL
   DEF GuardantSpec, GuardantPublishes, Pub!PubSpec
===============================================================================
