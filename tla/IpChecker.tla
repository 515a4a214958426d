------------------------------- MODULE IpChecker -------------------------------
(***************************************************************************)
(* class IpChecker (src/main.cpp): the addresses of config.xml, a blocking *)
(* ping of 10 ms for each, and for those that fail it a ping of one second *)
(* in a thread of its own.  The channel calls load_ips_from_xml, check_ips *)
(* and update_async_results in a row, every cycle.                         *)
(*                                                                         *)
(* The futures come from std::async, so destroying the last reference to   *)
(* one waits for its thread: the clear() of load_ips_from_xml is where the *)
(* main loop meets the pings of the cycle before.                          *)
(***************************************************************************)
EXTENDS Integers, Sequences, FiniteSets, Maps

CONSTANTS
  Ips,    \* the addresses
  Lists   \* the lists of addresses config.xml may hold, repetitions included

ASSUME ListsAssumption ==
  /\ Lists \subseteq Seq(Ips)
  /\ << >> \in Lists    \* what a file that cannot be read amounts to

VARIABLES
  pc,            \* where the main thread is
  host,          \* how each host answers: within 10 ms, within 1 s, or never
  ips,
  next,          \* the index of the address check_ips is at
  ip_status,
  failed_ips,
  async_checks,  \* sequence of [addr, result], result "running" until it ends
  answered       \* history: the hosts that answered a ping in this cycle and
                 \* whose answer the main thread took

Modes == {"fast", "slow", "down"}

Elements(s) == {s[i] : i \in DOMAIN s}

-------------------------------------------------------------------------------
CheckerTypeOK ==
  /\ pc \in {"load", "clear", "sync", "launch", "poll"}
  /\ host \in [Ips -> Modes]
  /\ ips \in Lists
  /\ next \in 1..(Len(ips) + 1)
  /\ ip_status \in PartialMaps(Ips, BOOLEAN)
  /\ failed_ips \subseteq Ips
  /\ async_checks \in
       Seq([addr : Ips, result : {"running", "ok", "failed"}])
  /\ answered \subseteq Ips

CheckerInit ==
  /\ pc = "load"
  /\ host \in [Ips -> Modes]
  /\ ips = << >>
  /\ next = 1
  /\ ip_status = EmptyMap
  /\ failed_ips = {}
  /\ async_checks = << >>
  /\ answered = {}

(***************************************************************************)
(* load_ips_from_xml: first async_checks.clear(), which waits for the      *)
(* threads one after the other and drops their results.                    *)
(***************************************************************************)
LoadBegins ==
  /\ pc = "load"
  /\ pc' = "clear"
  /\ UNCHANGED <<host, ips, next, ip_status, failed_ips, async_checks, answered>>

Destroy ==
  /\ pc = "clear"
  /\ async_checks # << >>
  /\ Head(async_checks).result # "running"
  /\ async_checks' = Tail(async_checks)
  /\ UNCHANGED <<pc, host, ips, next, ip_status, failed_ips, answered>>

LoadKeepingStatus ==      \* mutant: ip_status.clear() forgotten
  /\ pc = "clear"
  /\ async_checks = << >>
  /\ \E list \in Lists :
       /\ ips' = list
       /\ ip_status' = Merge([a \in Elements(list) |-> FALSE], ip_status)
  /\ next' = 1
  /\ failed_ips' = {}
  /\ answered' = {}
  /\ pc' = "sync"
  /\ UNCHANGED <<host, async_checks>>

LoadKeepingIndex ==       \* mutant: check_ips goes on where it was
  /\ pc = "clear"
  /\ async_checks = << >>
  /\ \E list \in Lists :
       /\ ips' = list
       /\ ip_status' = [a \in Elements(list) |-> FALSE]
  /\ failed_ips' = {}
  /\ answered' = {}
  /\ pc' = "sync"
  /\ UNCHANGED <<host, next, async_checks>>

Load ==
  /\ pc = "clear"
  /\ async_checks = << >>
  /\ \E list \in Lists :
       /\ ips' = list
       /\ ip_status' = [a \in Elements(list) |-> FALSE]
  /\ next' = 1
  /\ failed_ips' = {}
  /\ answered' = {}
  /\ pc' = "sync"
  /\ UNCHANGED <<host, async_checks>>

(***************************************************************************)
(* The first loop of check_ips, one address per step.                      *)
(***************************************************************************)
SyncCheckNotForgiving ==  \* mutant: a success does not take back a failure
  /\ pc = "sync"
  /\ next <= Len(ips)
  /\ LET addr == ips[next]
         connected == host[addr] = "fast"
     IN  /\ ip_status' = [ip_status EXCEPT ![addr] = connected]
         /\ failed_ips' = IF connected THEN failed_ips
                          ELSE failed_ips \cup {addr}
         /\ answered' = IF connected THEN answered \cup {addr}
                        ELSE answered \ {addr}
  /\ next' = next + 1
  /\ UNCHANGED <<pc, host, ips, async_checks>>

SyncCheck ==
  /\ pc = "sync"
  /\ next <= Len(ips)
  /\ LET addr == ips[next]
         connected == host[addr] = "fast"
     IN  /\ ip_status' = [ip_status EXCEPT ![addr] = connected]
         /\ failed_ips' = IF connected THEN failed_ips \ {addr}
                          ELSE failed_ips \cup {addr}
         /\ answered' = IF connected THEN answered \cup {addr}
                        ELSE answered \ {addr}
  /\ next' = next + 1
  /\ UNCHANGED <<pc, host, ips, async_checks>>

SyncDone ==
  /\ pc = "sync"
  /\ next > Len(ips)
  /\ pc' = "launch"
  /\ UNCHANGED <<host, ips, next, ip_status, failed_ips, async_checks, answered>>

(***************************************************************************)
(* The second loop of check_ips: a thread for every failed address that    *)
(* has none.  The order of failed_ips does not matter.                     *)
(***************************************************************************)
Checking == {async_checks[i].addr : i \in DOMAIN async_checks}

NewCheck(addr) == [addr |-> addr, result |-> "running"]

Launch ==
  /\ pc = "launch"
  /\ LET new == failed_ips \ Checking
     IN  \E order \in [1..Cardinality(new) -> new] :
           /\ Elements(order) = new
           /\ async_checks' =
                async_checks \o [i \in DOMAIN order |-> NewCheck(order[i])]
  /\ pc' = "poll"
  /\ UNCHANGED <<host, ips, next, ip_status, failed_ips, answered>>

(***************************************************************************)
(* update_async_results: takes the results that are there; the checks that *)
(* go on stay in their order.                                              *)
(***************************************************************************)
Running == {i \in DOMAIN async_checks : async_checks[i].result = "running"}

Ready == {i \in DOMAIN async_checks : async_checks[i].result # "running"}

ReadyAddr(result) ==
  {async_checks[i].addr : i \in {j \in Ready : async_checks[j].result = result}}

Poll ==
  /\ pc = "poll"
  /\ ip_status' = [a \in DOMAIN ip_status |->
                     IF a \in ReadyAddr("ok") THEN TRUE
                     ELSE IF a \in ReadyAddr("failed") THEN FALSE
                     ELSE ip_status[a]]
  /\ answered' = answered \cup ReadyAddr("ok")
  /\ \E left \in [1..Cardinality(Running) -> Running] :
       /\ \A i, j \in DOMAIN left : i < j => left[i] < left[j]
       /\ async_checks' = [i \in DOMAIN left |-> async_checks[left[i]]]
  /\ pc' = "load"
  /\ UNCHANGED <<host, ips, next, failed_ips>>

(***************************************************************************)
(* The thread behind a future: ping -c 1 -W 1 ends by itself.              *)
(***************************************************************************)
PingEndsIfAnswered(i) ==  \* mutant: ping without -W
  /\ i \in DOMAIN async_checks
  /\ async_checks[i].result = "running"
  /\ host[async_checks[i].addr] # "down"
  /\ async_checks' = [async_checks EXCEPT ![i].result = "ok"]
  /\ UNCHANGED <<pc, host, ips, next, ip_status, failed_ips, answered>>

PingEnds(i) ==
  /\ i \in DOMAIN async_checks
  /\ async_checks[i].result = "running"
  /\ async_checks' = [async_checks EXCEPT ![i].result =
                        IF host[async_checks[i].addr] = "down" THEN "failed"
                        ELSE "ok"]
  /\ UNCHANGED <<pc, host, ips, next, ip_status, failed_ips, answered>>

SomePingEnds == \E i \in DOMAIN async_checks : PingEnds(i)

HostChanges ==
  /\ \E a \in Ips : \E m \in Modes \ {host[a]} : host' = [host EXCEPT ![a] = m]
  /\ UNCHANGED <<pc, ips, next, ip_status, failed_ips, async_checks, answered>>

-------------------------------------------------------------------------------
(***************************************************************************)
(* What the channel reads after update_async_results is what the hosts     *)
(* answered in this very cycle: nothing is left over from an earlier       *)
(* config.xml or an earlier ping.                                          *)
(***************************************************************************)
StatusIsOfThisCycle ==
  pc = "load" =>
    /\ DOMAIN ip_status = Elements(ips)
    /\ \A a \in DOMAIN ip_status : ip_status[a] <=> a \in answered

(***************************************************************************)
(* After check_ips the addresses with a ping thread are those whose last   *)
(* blocking ping failed, one thread each, however often config.xml lists   *)
(* them: check_ips bounds the threads it starts.                           *)
(***************************************************************************)
OneThreadPerFailure ==
  /\ pc = "poll" => Checking = {a \in DOMAIN ip_status : ~ip_status[a]}
  /\ \A i, j \in DOMAIN async_checks :
       async_checks[i].addr = async_checks[j].addr => i = j
===============================================================================
