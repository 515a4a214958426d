-------------------------------- MODULE AvRaids --------------------------------
(***************************************************************************)
(* The RAID part of class AvDiagnostics.  In contrast to the RAID channel  *)
(* of the monitor it asks the tool of the controller an array is named     *)
(* after, "Adaptec" or "LSI", and knows nothing of any other array; what   *)
(* was loaded or collected once stays.                                     *)
(*                                                                         *)
(* The controller of LSI may have several logical drives; the one status   *)
(* of the array has to stand for all of them.                              *)
(***************************************************************************)
EXTENDS AvDocument

CONSTANTS
  AvRaidNames,   \* the arrays config.xml may name
  AvTool,        \* AvTool[r]: "Adaptec", "LSI" or "other", by the name of r
  AvStatusNode,  \* AvStatusNode[r], AvHealthNode[r]: the nodes of array r
  AvHealthNode,
  AvHealthType,  \* type_state
  Drives,        \* Drives[r]: how many logical drives the tool of r tells of
  Optimal,       \* what a tool may say of a drive
  Degraded,
  Offline,
  Rebuild,       \* the lines of a rebuild in progress
  NoStatus,      \* the status ""
  Unknown        \* the status "unknown"

(***************************************************************************)
(* A section gives the arrays it has an element for.                       *)
(***************************************************************************)
ASSUME AvRaidsAssumption ==
  /\ AvTool \in [AvRaidNames -> {"Adaptec", "LSI", "other"}]
  /\ \A r \in AvRaidNames :
       AvStatusNode[r] \in NodeIds /\ AvHealthNode[r] \in NodeIds
  /\ \A r, s \in AvRaidNames : AvStatusNode[r] # AvHealthNode[s]
  /\ \A r, s \in AvRaidNames :
       r # s => /\ AvStatusNode[r] # AvStatusNode[s]
                /\ AvHealthNode[r] # AvHealthNode[s]
  /\ AvHealthType \in {"STRING", "BOOL", "REAL"}
  /\ Drives \in [AvRaidNames -> Nat]
  /\ Optimal \notin {Degraded, NoStatus, Unknown} \cup Rebuild
  /\ Editions("raids") \subseteq SUBSET AvRaidNames

VARIABLES
  raid_configs_,    \* the arrays ever loaded
  current_raids_,   \* the states of the arrays
  changed_,         \* what detectRaidChanges gave to sendRaidMetrics
  av_first_run,     \* the static of detectRaidChanges
  last_sent_raids_

avRaidVars == <<raid_configs_, current_raids_, changed_, av_first_run,
                last_sent_raids_>>

DriveStates == {Optimal, Degraded, Offline}

(***************************************************************************)
(* What a tool prints: a line for each of the drives, or none when it      *)
(* cannot be started.                                                      *)
(***************************************************************************)
Reports(r) == UNION {[1..n -> DriveStates] : n \in {0, Drives[r]}}

AvRaidState(status, ok) == [status |-> status, is_ok |-> ok]

HasDrive(report, state) == \E i \in DOMAIN report : report[i] = state

(***************************************************************************)
(* The Adaptec branch looks at the first line with a Status, the LSI       *)
(* branch goes on until it finds an optimal drive, and overwrites the      *)
(* status of an array that has none by the line of a rebuild.              *)
(***************************************************************************)
AdaptecState(report) ==
  IF report = <<>> THEN AvRaidState(NoStatus, FALSE)
  ELSE AvRaidState(report[1], report[1] = Optimal)

LsiStates(report) ==
  IF HasDrive(report, Optimal) THEN {AvRaidState(Optimal, TRUE)}
  ELSE {AvRaidState(IF HasDrive(report, Degraded) THEN Degraded ELSE NoStatus,
                  FALSE)}
         \cup {AvRaidState(line, FALSE) : line \in Rebuild}

StatesOf(r, report) ==
  IF AvTool[r] = "LSI" THEN LsiStates(report)
  ELSE IF AvTool[r] = "Adaptec" THEN {AdaptecState(report)}
  ELSE {AvRaidState(Unknown, FALSE)}

(***************************************************************************)
(* The states asking the tool of r may give.                               *)
(***************************************************************************)
Outcomes(r) == UNION {StatesOf(r, report) : report \in Reports(r)}

AvRaidStates == UNION {Outcomes(r) : r \in AvRaidNames}

-------------------------------------------------------------------------------
AvRaidsTypeOK ==
  /\ raid_configs_ \subseteq AvRaidNames
  /\ current_raids_ \in PartialMaps(raid_configs_, AvRaidStates)
  /\ changed_ \in PartialMaps(raid_configs_, AvRaidStates)
  /\ av_first_run \in BOOLEAN
  /\ last_sent_raids_ \in PartialMaps(raid_configs_, AvRaidStates)

AvRaidsInit ==
  /\ raid_configs_ = {}
  /\ current_raids_ = EmptyMap
  /\ changed_ = EmptyMap
  /\ av_first_run = TRUE
  /\ last_sent_raids_ = EmptyMap

loadRaidConfig ==
  /\ av_pc = "idle"
  /\ doc_ \notin {NoRoot, NoSection}
  /\ raid_configs_' = raid_configs_ \cup doc_
  /\ UNCHANGED <<opcVars, callVars, current_raids_, changed_, av_first_run,
                 last_sent_raids_>>

loadRaidConfigCrash ==
  /\ av_pc = "idle"
  /\ doc_ \in {NoRoot, NoSection}
  /\ Crash
  /\ UNCHANGED avRaidVars

collectRaidStates ==
  /\ Goes("idle", "collected")
  /\ current_raids_' \in [raid_configs_ -> AvRaidStates]
  /\ \A r \in raid_configs_ : current_raids_'[r] \in Outcomes(r)
  /\ UNCHANGED <<opcVars, batch, raid_configs_, changed_, av_first_run,
                 last_sent_raids_>>

(***************************************************************************)
(* detectRaidChanges.  No array is ever taken out of current_raids_, so    *)
(* that the loop that looks for removed ones finds none.                   *)
(***************************************************************************)
RaidMovedByHealth(r) ==     \* mutant: the status of an array is not compared
  r \in DOMAIN last_sent_raids_ =>
    last_sent_raids_[r].is_ok # current_raids_[r].is_ok

RaidMoved(r) ==
  r \in DOMAIN last_sent_raids_ => last_sent_raids_[r] # current_raids_[r]

detectRaidsFirst ==         \* nothing has been sent yet, but the cache says so
  /\ Goes("collected", "detected")
  /\ av_first_run
  /\ av_first_run' = FALSE
  /\ last_sent_raids_' = current_raids_
  /\ changed_' = current_raids_
  /\ UNCHANGED <<opcVars, batch, raid_configs_, current_raids_>>

detectRaidChanges ==
  /\ Goes("collected", "detected")
  /\ ~av_first_run
  /\ changed_' = On(current_raids_, {r \in DOMAIN current_raids_ : RaidMoved(r)})
  /\ UNCHANGED <<opcVars, batch, raid_configs_, current_raids_,
                 av_first_run, last_sent_raids_>>

(***************************************************************************)
(* sendRaidMetrics                                                         *)
(***************************************************************************)
AvHealthMember ==
  IF AvHealthType = "STRING" THEN "s"
  ELSE IF AvHealthType = "BOOL" THEN "b" ELSE "f"

AvRaidConfigs(r) ==
  {WriteConfig(AvStatusNode[r], "STRING", "s", changed_[r].status),
   WriteConfig(AvHealthNode[r], AvHealthType, AvHealthMember,
               IF changed_[r].is_ok THEN 1 ELSE 0)}

RaidBatch == UNION {AvRaidConfigs(r) : r \in DOMAIN changed_}

AvRaidsKept ==
  /\ Goes("detected", "idle")
  /\ changed_ = EmptyMap
  /\ UNCHANGED <<opcVars, batch, avRaidVars>>

sendRaidMetrics ==
  /\ Goes("detected", "idle")
  /\ changed_ # EmptyMap
  /\ Write(RaidBatch)
  /\ last_sent_raids_' = Merge(last_sent_raids_, changed_)
  /\ changed_' = EmptyMap
  /\ UNCHANGED <<batch, raid_configs_, current_raids_, av_first_run>>

AvRaidsStep ==
  \/ loadRaidConfig \/ loadRaidConfigCrash \/ collectRaidStates
  \/ detectRaidsFirst \/ detectRaidChanges \/ AvRaidsKept \/ sendRaidMetrics

-------------------------------------------------------------------------------
(***************************************************************************)
(* Between two cycles, and unless the server missed one of the two nodes   *)
(* of an array, they show the status and the health collected last, which  *)
(* fit each other: the status says Optimal exactly when the health is      *)
(* true.  Concerns the comparison in detectRaidChanges and the cache it    *)
(* fills on first_run, before anything was sent.  What the loops of        *)
(* collectRaidStates make of several drives is taken as it is: one optimal *)
(* drive of LSI hides any number of degraded ones.                         *)
(***************************************************************************)
AvRaidShown ==
  av_pc = "idle" =>
    \A r \in DOMAIN current_raids_ :
      {AvStatusNode[r], AvHealthNode[r]} \cap missed = {} =>
        /\ nodes[AvStatusNode[r]] = current_raids_[r].status
        /\ nodes[AvHealthNode[r]] = IF current_raids_[r].is_ok THEN 1 ELSE 0
        /\ nodes[AvStatusNode[r]] = Optimal <=> nodes[AvHealthNode[r]] = 1
===============================================================================
