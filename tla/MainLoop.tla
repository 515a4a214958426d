-------------------------------- MODULE MainLoop -------------------------------
(***************************************************************************)
(* main (src/main_old.cpp): the loop that calls everything, its timers,    *)
(* the two IpCheckers that live in it, and the Guardant check beside it.   *)
(*                                                                         *)
(* One IpChecker is the global one of collect_ip_states (the variables of  *)
(* module IpChecker); the other one is main's own, whose results nobody    *)
(* reads and whose update_async_results is never called.  Either holds the *)
(* loop while it waits for its pings.                                      *)
(*                                                                         *)
(* A timer is the time since its last_... was set, in ticks; ages beyond   *)
(* the interval they are compared with are not told apart.                 *)
(***************************************************************************)
EXTENDS IpChecker

CONSTANTS
  Intervals,        \* what send_interval may hold
  xml_interval,
  guardant_interval

ASSUME IntervalsAssumption ==
  /\ Intervals \subseteq Nat /\ 1 \in Intervals
  /\ \E m \in Intervals : \A i \in Intervals : i <= m   \* they are ints
  /\ xml_interval \in Nat \ {0}
  /\ guardant_interval \in Nat \ {0}

VARIABLES
  at,               \* what the loop does next, or is in
  fast_interval,
  last_xml, last_fast, last_opc_send, last_guardant_start,   \* the ages
  guardant_check_running,
  guardant_future,  \* "none", "running" or "ready"
  own_pc, own_ips, own_next, own_ip_status, own_failed_ips, own_async_checks,
  own_answered      \* main's own IpChecker

timers == <<last_xml, last_fast, last_opc_send, last_guardant_start>>
guardant == <<guardant_check_running, guardant_future>>
global_checker == <<pc, ips, next, ip_status, failed_ips, async_checks,
                    answered>>
own_checker == <<own_pc, own_ips, own_next, own_ip_status, own_failed_ips,
                 own_async_checks, own_answered>>
checkers == <<host, global_checker, own_checker>>
loop == <<at, fast_interval, timers>>
loopVars == <<loop, guardant, checkers>>

Own == INSTANCE IpChecker WITH
         pc <- own_pc, ips <- own_ips, next <- own_next,
         ip_status <- own_ip_status, failed_ips <- own_failed_ips,
         async_checks <- own_async_checks, answered <- own_answered

MaxOf(S) == CHOOSE x \in S : \A y \in S : y <= x

MaxAge == MaxOf(Intervals \cup {xml_interval, guardant_interval})
-------------------------------------------------------------------------------
LoopTypeOK ==
  /\ CheckerTypeOK
  /\ Own!CheckerTypeOK
  /\ at \in {"xml", "fast", "checking", "opc", "channels", "ips", "guardant",
             "result", "stopped"}
  /\ fast_interval \in Intervals
  /\ {last_xml, last_fast, last_opc_send, last_guardant_start} \subseteq 0..MaxAge
  /\ guardant_check_running \in BOOLEAN
  /\ guardant_future \in {"none", "running", "ready"}
  /\ at \in {"xml", "fast", "opc", "channels"} => pc = "load"
  /\ at # "checking" => own_pc = "load"

(***************************************************************************)
(* main loads the list of its own checker once before the loop; the cycle  *)
(* that follows loads it again, so this shows in no later state.           *)
(***************************************************************************)
LoopInit ==
  /\ CheckerInit
  /\ Own!CheckerInit
  /\ at = "xml"
  /\ fast_interval = 1
  /\ last_xml = 0 /\ last_fast = 0
  /\ last_opc_send = 0 /\ last_guardant_start = 0
  /\ guardant_check_running = FALSE
  /\ guardant_future = "none"

(***************************************************************************)
(* TimePassed(last, interval): what it answers, and last after it.         *)
(***************************************************************************)
TimePassed(last, interval) == last >= interval

AlwaysReset(last, interval) == 0   \* mutant: last = now outside of the if

Reset(last, interval) == IF TimePassed(last, interval) THEN 0 ELSE last

(***************************************************************************)
(* Every xml_interval: send_interval of the file as it was just read; kept *)
(* when it is not there.  std::stoi of anything but a number throws, and   *)
(* nobody catches it.                                                      *)
(***************************************************************************)
Xml ==
  /\ at = "xml"
  /\ last_xml' = Reset(last_xml, xml_interval)
  /\ IF TimePassed(last_xml, xml_interval) THEN fast_interval' \in Intervals
     ELSE UNCHANGED fast_interval
  /\ at' = "fast"
  /\ UNCHANGED <<last_fast, last_opc_send, last_guardant_start, guardant,
                 checkers>>

NotANumber ==
  /\ at = "xml"
  /\ TimePassed(last_xml, xml_interval)
  /\ at' = "stopped"
  /\ UNCHANGED <<fast_interval, timers, guardant, checkers>>

(***************************************************************************)
(* Every fast_interval: main's own checker loads and checks.               *)
(***************************************************************************)
Fast ==
  /\ at = "fast"
  /\ last_fast' = Reset(last_fast, fast_interval)
  /\ IF TimePassed(last_fast, fast_interval)
       THEN Own!LoadBegins /\ at' = "checking"
       ELSE UNCHANGED <<host, own_checker>> /\ at' = "opc"
  /\ UNCHANGED <<fast_interval, last_xml, last_opc_send, last_guardant_start,
                 guardant, global_checker>>

OwnCheck ==
  /\ at = "checking"
  /\ Own!Destroy \/ Own!Load \/ Own!SyncCheck \/ Own!SyncDone \/ Own!Launch
  /\ UNCHANGED <<loop, guardant, global_checker>>

Checked ==           \* no update_async_results
  /\ at = "checking"
  /\ own_pc = "poll"
  /\ own_pc' = "load"
  /\ at' = "opc"
  /\ UNCHANGED <<fast_interval, timers, guardant, host, global_checker, own_ips,
                 own_next, own_ip_status, own_failed_ips, own_async_checks,
                 own_answered>>

(***************************************************************************)
(* Every fast_interval: the channels, one after the other.  The first one, *)
(* CPU, sleeps for a second, but only in the cycles in which it has its    *)
(* configuration: Channels takes time or none, and nothing here relies on  *)
(* its taking some.  The last one, IP, runs the global checker.            *)
(***************************************************************************)
Opc ==
  /\ at = "opc"
  /\ last_opc_send' = Reset(last_opc_send, fast_interval)
  /\ at' = IF TimePassed(last_opc_send, fast_interval) THEN "channels"
           ELSE "guardant"
  /\ UNCHANGED <<fast_interval, last_xml, last_fast, last_guardant_start,
                 guardant, checkers>>

Channels ==
  /\ at = "channels"
  /\ LoadBegins
  /\ at' = "ips"
  /\ UNCHANGED <<fast_interval, timers, guardant, own_checker>>

CollectIps ==
  /\ at = "ips"
  /\ Destroy \/ Load \/ SyncCheck \/ SyncDone \/ Launch \/ Poll
  /\ at' = IF pc' = "load" THEN "guardant" ELSE "ips"
  /\ UNCHANGED <<fast_interval, timers, guardant, own_checker>>

(***************************************************************************)
(* Every guardant_interval: a check in a thread of its own, if none runs.  *)
(* The timer starts anew in either case.                                   *)
(***************************************************************************)
StartsAnyway(running) == TRUE      \* mutant: guardant_check_running ignored

Starts(running) == ~running

Guardant ==
  /\ at = "guardant"
  /\ last_guardant_start' = Reset(last_guardant_start, guardant_interval)
  /\ IF TimePassed(last_guardant_start, guardant_interval)
          /\ Starts(guardant_check_running)
       THEN guardant_check_running' = TRUE /\ guardant_future' = "running"
       ELSE UNCHANGED guardant
  /\ at' = "result"
  /\ UNCHANGED <<fast_interval, last_xml, last_fast, last_opc_send, checkers>>

(***************************************************************************)
(* The result, if it is there; whatever is thrown on the way is caught.    *)
(***************************************************************************)
NoResult ==
  /\ at = "result"
  /\ ~(guardant_check_running /\ guardant_future = "ready")
  /\ at' = "xml"
  /\ UNCHANGED <<fast_interval, timers, guardant, checkers>>

Result ==
  /\ at = "result"
  /\ guardant_check_running /\ guardant_future = "ready"
  /\ guardant_check_running' = FALSE
  /\ guardant_future' = "none"
  /\ at' = "xml"
  /\ UNCHANGED <<fast_interval, timers, checkers>>

Main ==
  \/ Xml \/ NotANumber \/ Fast \/ OwnCheck \/ Checked \/ Opc \/ Channels
  \/ CollectIps \/ Guardant \/ NoResult \/ Result

-------------------------------------------------------------------------------
CheckEnds ==
  /\ guardant_future = "running"
  /\ guardant_future' = "ready"
  /\ UNCHANGED <<loop, guardant_check_running, checkers>>

GlobalPingEnds ==
  /\ SomePingEnds
  /\ UNCHANGED <<loop, guardant, own_checker>>

OwnPingEnds ==
  /\ Own!SomePingEnds
  /\ UNCHANGED <<loop, guardant, global_checker>>

HostStep ==
  /\ HostChanges
  /\ UNCHANGED <<loop, guardant, own_checker>>

Older(age, limit) == IF age < limit THEN age + 1 ELSE age

Tick ==
  /\ last_xml' = Older(last_xml, xml_interval)
  /\ last_fast' = Older(last_fast, MaxOf(Intervals))
  /\ last_opc_send' = Older(last_opc_send, MaxOf(Intervals))
  /\ last_guardant_start' = Older(last_guardant_start, guardant_interval)
  /\ UNCHANGED <<at, fast_interval, guardant, checkers>>

LoopNext ==
  \/ Main \/ CheckEnds \/ GlobalPingEnds \/ OwnPingEnds \/ HostStep \/ Tick

LoopSpec == LoopInit /\ [][LoopNext]_loopVars

(***************************************************************************)
(* The loop goes on, pings (-W 1) and checks end, and the clock advances.  *)
(* That an unreadable number stops the loop is not made fair.              *)
(***************************************************************************)
LoopFairSpec ==
  /\ LoopSpec
  /\ WF_loopVars(Main)
  /\ WF_loopVars(CheckEnds)
  /\ WF_loopVars(GlobalPingEnds)
  /\ WF_loopVars(OwnPingEnds)
  /\ WF_loopVars(Tick)
-------------------------------------------------------------------------------
(***************************************************************************)
(* Either checker, when it is done, has the statuses of this very cycle,   *)
(* although the own one never polls and its pings go on meanwhile.         *)
(***************************************************************************)
StatusesOfThisCycle == StatusIsOfThisCycle /\ Own!StatusIsOfThisCycle

(***************************************************************************)
(* Two checkers ping the same addresses, and each has at most one thread   *)
(* per address, and only for one whose blocking ping failed.               *)
(***************************************************************************)
ThreadsBounded == OneThreadPerFailure /\ Own!OneThreadPerFailure

(***************************************************************************)
(* A check never replaces another one whose result has not been taken:     *)
(* assigning its future would block the loop until the old check ends, and *)
(* throw its result away.                                                  *)
(***************************************************************************)
NoResultLost ==
  [][guardant_future # "none" /\ guardant_future' # guardant_future
       => guardant_future' = "ready" \/ at = "result"]_loopVars

(***************************************************************************)
(* The channels get their turn again and again, whatever the timers and    *)
(* the edits of send_interval, unless such an edit has stopped the loop.   *)
(* So the wait of clear() for the pings ends, in either checker.           *)
(***************************************************************************)
TurnsGoOn == []<>(at \in {"channels", "stopped"})

(***************************************************************************)
(* A check is started again and again, although its timer is spent while   *)
(* the previous check runs, unless the loop has stopped.                   *)
(***************************************************************************)
ChecksGoOn == []<>(guardant_future = "running" \/ at = "stopped")
===============================================================================
