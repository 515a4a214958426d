------------------------------ MODULE RaidChannel ------------------------------
(***************************************************************************)
(* The RAID channel of the monitor (src/main.cpp, section RAID).  A cycle  *)
(* forms a state for every configured array from /proc/mdstat (or one      *)
(* state under the name "system" when there is no mdstat), compares it     *)
(* with the cache, and hands a status and a health node per changed array  *)
(* to the OPC UA client.  An array that is in the cache and not among the  *)
(* states is reported as removed.                                          *)
(*                                                                         *)
(* What mdstat's lines amount to is module Mdstat; here each array has one *)
(* of the states below.  The percent of a rebuild is part of its status    *)
(* string, so a status stands for a string, percent included.              *)
(***************************************************************************)
EXTENDS OpcUaClient, Maps

CONSTANTS
  Raids,       \* the arrays config.xml names
  StatusNode,  \* StatusNode[r], HealthNode[r]: the nodes of array r
  HealthNode,
  HealthType,  \* type_state
  System,      \* the name "system"
  Statuses     \* the statuses collect_raid_states forms

ASSUME RaidAssumption ==
  /\ \A r \in Raids : StatusNode[r] \in NodeIds /\ HealthNode[r] \in NodeIds
  /\ \A r, s \in Raids : StatusNode[r] # HealthNode[s]
  /\ \A r, s \in Raids : r # s => StatusNode[r] # StatusNode[s]
  /\ \A r, s \in Raids : r # s => HealthNode[r] # HealthNode[s]
  /\ System \notin Raids
  /\ HealthType \in {"BOOL", "STRING", "REAL"}
  /\ "removed" \notin Statuses
  /\ NoValue \notin Statuses \cup {"not_available", "removed"}

VARIABLES
  raid_pc,             \* where the cycle is
  raid_config_loaded,  \* the static of collect_raid_states
  first_run,           \* the static of detect_raid_changes
  current_raids,       \* the statuses collected, by name
  changed_raids,       \* those that changed, with "removed" ones
  last_sent_raids

raidVars == <<raid_pc, raid_config_loaded, first_run, current_raids,
              changed_raids, last_sent_raids>>

(***************************************************************************)
(* The member state of a RaidState goes with its status.                   *)
(***************************************************************************)
HealthyStatuses == {"active", "optimal"}

Health(status) == IF status \in HealthyStatuses THEN 1 ELSE 0

RaidStates(statuses) == PartialMaps(Raids \cup {System}, statuses)

CollectableStatuses == Statuses \cup {"not_available"}

-------------------------------------------------------------------------------
RaidTypeOK ==
  /\ OpcTypeOK
  /\ raid_pc \in {"collect", "detect", "send"}
  /\ raid_config_loaded \in BOOLEAN
  /\ first_run \in BOOLEAN
  /\ current_raids \in RaidStates(CollectableStatuses)
  /\ changed_raids \in RaidStates(CollectableStatuses \cup {"removed"})
  /\ last_sent_raids \in RaidStates(CollectableStatuses)

RaidInit ==
  /\ OpcInit
  /\ raid_pc = "collect"
  /\ raid_config_loaded = FALSE
  /\ first_run = TRUE
  /\ current_raids = EmptyMap
  /\ changed_raids = EmptyMap
  /\ last_sent_raids = EmptyMap

(***************************************************************************)
(* collect_raid_states.  Until config.xml has been read once there are no  *)
(* states; then every configured array has one, listed or not, unless      *)
(* mdstat cannot be opened.                                                *)
(***************************************************************************)
collect_raid_states ==
  /\ raid_pc = "collect"
  /\ \/ /\ ~raid_config_loaded
        /\ current_raids' = EmptyMap
        /\ UNCHANGED raid_config_loaded
     \/ /\ raid_config_loaded' = TRUE
        /\ \/ current_raids' \in [Raids -> Statuses]
           \/ current_raids' = [n \in {System} |-> "not_available"]
  /\ raid_pc' = "detect"
  /\ UNCHANGED <<opcVars, first_run, changed_raids, last_sent_raids>>

(***************************************************************************)
(* detect_raid_changes                                                     *)
(***************************************************************************)
RaidDiffers(n) ==
  n \in DOMAIN last_sent_raids => last_sent_raids[n] # current_raids[n]

RemovedRaids == DOMAIN last_sent_raids \ DOMAIN current_raids

RaidChanges ==
  Merge(On(current_raids, {n \in DOMAIN current_raids : RaidDiffers(n)}),
        [n \in RemovedRaids |-> "removed"])

detect_first_run ==            \* nothing has been sent yet, but the cache says so
  /\ raid_pc = "detect"
  /\ first_run
  /\ first_run' = FALSE
  /\ last_sent_raids' = current_raids
  /\ changed_raids' = current_raids
  /\ raid_pc' = "send"
  /\ UNCHANGED <<opcVars, raid_config_loaded, current_raids>>

detect_blind_to_removed ==   \* mutant: the loop over the cache is missing
  /\ raid_pc = "detect"
  /\ ~first_run
  /\ changed_raids' = On(current_raids, {n \in DOMAIN current_raids : RaidDiffers(n)})
  /\ raid_pc' = "send"
  /\ UNCHANGED <<opcVars, raid_config_loaded, first_run, current_raids,
                 last_sent_raids>>

detect_raid_changes ==
  /\ raid_pc = "detect"
  /\ ~first_run
  /\ changed_raids' = RaidChanges
  /\ raid_pc' = "send"
  /\ UNCHANGED <<opcVars, raid_config_loaded, first_run, current_raids,
                 last_sent_raids>>

(***************************************************************************)
(* send_raid_metrics: two configs per changed array that is configured,    *)
(* and, when there were any, the cache takes all that changed.             *)
(***************************************************************************)
HealthMember ==
  IF HealthType = "STRING" THEN "s" ELSE IF HealthType = "BOOL" THEN "b" ELSE "f"

StatusConfig(r) == WriteConfig(StatusNode[r], "STRING", "s", changed_raids[r])

HealthConfig(r) ==
  WriteConfig(HealthNode[r], HealthType, HealthMember, Health(changed_raids[r]))

ReportedByHealth ==       \* mutant: a change of status alone is not handed over
  {r \in DOMAIN changed_raids \cap Raids :
     r \in DOMAIN last_sent_raids =>
       Health(changed_raids[r]) # Health(last_sent_raids[r])}

ReportedRaids == DOMAIN changed_raids \cap Raids

RaidConfigs == {StatusConfig(r) : r \in ReportedRaids}
                  \cup {HealthConfig(r) : r \in ReportedRaids}

CachedRaids(f) ==
  LET gone == {n \in DOMAIN changed_raids : changed_raids[n] = "removed"}
  IN  On(Merge(f, changed_raids), (DOMAIN f \cup DOMAIN changed_raids) \ gone)

RaidsKept ==
  /\ raid_pc = "send"
  /\ RaidConfigs = {}
  /\ changed_raids' = EmptyMap
  /\ raid_pc' = "collect"
  /\ UNCHANGED <<opcVars, raid_config_loaded, first_run, current_raids,
                 last_sent_raids>>

send_new_health ==          \* mutant: the health goes out with a new array only
  /\ raid_pc = "send"
  /\ RaidConfigs # {}
  /\ Write({StatusConfig(r) : r \in ReportedRaids}
             \cup {HealthConfig(r) : r \in ReportedRaids \ DOMAIN last_sent_raids})
  /\ last_sent_raids' = CachedRaids(last_sent_raids)
  /\ changed_raids' = EmptyMap
  /\ raid_pc' = "collect"
  /\ UNCHANGED <<raid_config_loaded, first_run, current_raids>>

send_raid_metrics ==
  /\ raid_pc = "send"
  /\ RaidConfigs # {}
  /\ Write(RaidConfigs)
  /\ last_sent_raids' = CachedRaids(last_sent_raids)
  /\ changed_raids' = EmptyMap
  /\ raid_pc' = "collect"
  /\ UNCHANGED <<raid_config_loaded, first_run, current_raids>>

RaidCycle ==
  \/ collect_raid_states \/ detect_first_run \/ detect_raid_changes
  \/ RaidsKept \/ send_raid_metrics

(***************************************************************************)
(* The channel alone, the others being part of ServerStep.                 *)
(***************************************************************************)
RaidNext == RaidCycle \/ (ServerStep /\ UNCHANGED raidVars)

RaidSpec == RaidInit /\ [][RaidNext]_<<opcVars, raidVars>>
-------------------------------------------------------------------------------
(***************************************************************************)
(* Between two cycles the two nodes of every array with a state show that  *)
(* state, and those of an array without one (no mdstat) show "removed" or  *)
(* were never written; except for a node whose last value the server       *)
(* missed.  Concerns the interplay of first_run, the name "system" and the *)
(* erasing of removed arrays.                                              *)
(***************************************************************************)
ExpectedStatus(r) ==
  IF r \in DOMAIN current_raids THEN {current_raids[r]}
  ELSE {"removed", "unwritten"}

ShownStatus(r) ==
  IF nodes[StatusNode[r]] = NoValue THEN "unwritten" ELSE nodes[StatusNode[r]]

RaidShown ==
  raid_pc = "collect" =>
    \A r \in Raids :
      StatusNode[r] \notin missed => ShownStatus(r) \in ExpectedStatus(r)

(***************************************************************************)
(* The status and the health shown for an array fit together whenever the  *)
(* server missed neither: they come from one state and one batch.          *)
(***************************************************************************)
HealthFitsStatus ==
  \A r \in Raids :
    {StatusNode[r], HealthNode[r]} \cap missed = {} =>
      \/ nodes[StatusNode[r]] = NoValue /\ nodes[HealthNode[r]] = NoValue
      \/ /\ nodes[StatusNode[r]] # NoValue
         /\ nodes[HealthNode[r]] = Health(nodes[StatusNode[r]])

(***************************************************************************)
(* The channel implements Publication; from detect_first_run to the end of *)
(* the write, the nodes of the first states count as missed.               *)
(***************************************************************************)
SentStatus(r) ==
  IF r \in DOMAIN last_sent_raids THEN last_sent_raids[r] ELSE NoValue

SentToRaid(n) ==
  IF \E r \in Raids : StatusNode[r] = n
    THEN SentStatus(CHOOSE r \in Raids : StatusNode[r] = n)
    ELSE NoValue

StatusNodes == {StatusNode[r] : r \in Raids}

RaidPub == INSTANCE Publication WITH
         Keys <- StatusNodes, Values <- Statuses \cup {"removed"},
         sent <- [n \in StatusNodes |-> SentToRaid(n)],
         shown <- [n \in StatusNodes |-> nodes[n]],
         missed <- (missed \cup NodesOf(RaidConfigs)) \cap StatusNodes

RaidPublishes == RaidPub!PubSpec
===============================================================================
