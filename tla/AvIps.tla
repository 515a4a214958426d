--------------------------------- MODULE AvIps ---------------------------------
(***************************************************************************)
(* The IP part of class AvDiagnostics.  Groups and addresses come from one *)
(* document; every address is pinged within loadIps.  A group goes by its  *)
(* node, and the states of addresses and groups share one map.             *)
(***************************************************************************)
EXTENDS AvDocument

CONSTANTS
  AvAddresses,   \* the addresses config.xml mentions
  AvIpGroups,    \* its groups, by node
  AvIpMembers,   \* AvIpMembers[g]: the addresses of group g
  AvOrGroups     \* the groups whose logic is given and not AND

(***************************************************************************)
(* A section gives the groups it has an element for.                       *)
(***************************************************************************)
ASSUME AvIpsAssumption ==
  /\ AvIpGroups \subseteq NodeIds /\ AvIpGroups \cap AvAddresses = {}
  /\ \A g \in AvIpGroups : AvIpMembers[g] \subseteq AvAddresses /\ AvIpMembers[g] # {}
  /\ AvOrGroups \subseteq AvIpGroups
  /\ Editions("ips") \subseteq SUBSET AvIpGroups

VARIABLES
  up,               \* history: the addresses the last pings found connected
  current_ips_,     \* connected, by address and by group
  changes,          \* what detectIpChanges gave to sendIpMetrics
  last_sent_ips_

avIpVars == <<up, current_ips_, changes, last_sent_ips_>>

AvIpGroupUp(g) ==
  IF g \in AvOrGroups THEN AvIpMembers[g] \cap up' # {}
  ELSE AvIpMembers[g] \subseteq up'

AvIpConfig(g, any) ==
  [WriteConfig(g, "BOOL", "b", IF changes[g] THEN 1 ELSE 0) EXCEPT !.allowed = any]

ChangedGroups == DOMAIN changes \cap AvIpGroups

-------------------------------------------------------------------------------
AvIpsTypeOK ==
  /\ up \subseteq AvAddresses
  /\ current_ips_ \in PartialMaps(AvAddresses \cup AvIpGroups, BOOLEAN)
  /\ changes \in PartialMaps(AvAddresses \cup AvIpGroups, BOOLEAN)
  /\ last_sent_ips_ \in PartialMaps(AvAddresses \cup AvIpGroups, BOOLEAN)

AvIpsInit ==
  /\ up = {}
  /\ current_ips_ = EmptyMap
  /\ changes = EmptyMap
  /\ last_sent_ips_ = EmptyMap

(***************************************************************************)
(* collectIpStates and, in it, loadIps: an address is up if it answers the *)
(* first ping within 10 ms, or if the second one has come back by the time *)
(* all of them were started.  The caller stores the result.                *)
(***************************************************************************)
LoadedGroups == IF doc_ = NoSection THEN {} ELSE doc_

LoadedIps == UNION {AvIpMembers[g] : g \in LoadedGroups}

collectIpStates ==
  /\ Goes("idle", "collected")
  /\ doc_ # NoRoot
  /\ up' \in SUBSET LoadedIps
  /\ current_ips_' = [n \in LoadedIps \cup LoadedGroups |->
                        IF n \in LoadedIps THEN n \in up' ELSE AvIpGroupUp(n)]
  /\ UNCHANGED <<opcVars, batch, changes, last_sent_ips_>>

collectIpStatesCrash ==
  /\ av_pc = "idle"
  /\ doc_ = NoRoot
  /\ Crash
  /\ UNCHANGED avIpVars

(***************************************************************************)
(* detectIpChanges: what is gone from the document is gone from the cache. *)
(***************************************************************************)
detectIpChangesInserting ==   \* mutant: insert for assignment
  /\ Goes("collected", "detected")
  /\ changes' = On(current_ips_,
                   {n \in DOMAIN current_ips_ :
                      n \in DOMAIN last_sent_ips_ =>
                        last_sent_ips_[n] # current_ips_[n]})
  /\ last_sent_ips_' = Merge(current_ips_, last_sent_ips_)
  /\ UNCHANGED <<opcVars, batch, up, current_ips_>>

detectIpChanges ==
  /\ Goes("collected", "detected")
  /\ changes' = On(current_ips_,
                   {n \in DOMAIN current_ips_ :
                      n \in DOMAIN last_sent_ips_ =>
                        last_sent_ips_[n] # current_ips_[n]})
  /\ last_sent_ips_' = current_ips_
  /\ UNCHANGED <<opcVars, batch, up, current_ips_>>

(***************************************************************************)
(* sendIpMetrics: the groups among the changes.  Nobody sets allowed.      *)
(***************************************************************************)
AvIpsKept ==
  /\ Goes("detected", "idle")
  /\ ChangedGroups = {}
  /\ changes' = EmptyMap
  /\ UNCHANGED <<opcVars, batch, up, current_ips_, last_sent_ips_>>

sendIpMetrics ==
  /\ Goes("detected", "connect")
  /\ ChangedGroups # {}
  /\ \E any \in [ChangedGroups -> Indeterminate] :
       batch' = {AvIpConfig(g, any[g]) : g \in ChangedGroups}
  /\ changes' = EmptyMap
  /\ UNCHANGED <<opcVars, up, current_ips_, last_sent_ips_>>

AvIpsStep ==
  \/ collectIpStates \/ collectIpStatesCrash \/ detectIpChanges \/ AvIpsKept
  \/ sendIpMetrics
  \/ AvSend /\ UNCHANGED avIpVars

-------------------------------------------------------------------------------
(***************************************************************************)
(* Between two cycles the node of every group in the document shows what   *)
(* its logic makes of the addresses the last pings found connected, unless *)
(* the server missed the value handed over last.  Concerns detectIpChanges *)
(* that fills its cache before anything is sent.                           *)
(***************************************************************************)
AvIpShown ==
  av_pc = "idle" =>
    \A g \in DOMAIN current_ips_ \cap AvIpGroups :
      g \notin missed =>
        nodes[g] = IF g \in AvOrGroups
                     THEN IF AvIpMembers[g] \cap up # {} THEN 1 ELSE 0
                     ELSE IF AvIpMembers[g] \subseteq up THEN 1 ELSE 0
===============================================================================
