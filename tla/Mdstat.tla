--------------------------------- MODULE Mdstat --------------------------------
(***************************************************************************)
(* The part of collect_raid_states (src/main.cpp) that reads /proc/mdstat, *)
(* line by line, into the states of the configured arrays.                 *)
(*                                                                         *)
(* A line is what its regular expressions can tell of it:                  *)
(*   array     "md0 : active raid1 ..." or "md0 : inactive ...": the same  *)
(*             iteration looks for disks in it, and takes a "_" in the name  *)
(*             of a later device ("sda1[0] dm_b[1]") for a missing disk      *)
(*   disks     "... [2/2] [UU]" (all up) or "... [2/1] [U_]" (some)        *)
(*   recovery  "... recovery = 12.6% ..." or "... resync = 12.6% ..."      *)
(*   blank     the empty line                                              *)
(*   other     anything else                                               *)
(***************************************************************************)
EXTENDS Integers, Sequences, FiniteSets, Maps

CONSTANTS
  Names,       \* the arrays mdstat may list
  Configured,  \* raid_configs: the arrays config.xml names
  NoRaid,      \* the empty current_raid
  MaxLines     \* how many lines a file has at most

ASSUME MdstatAssumption ==
  Configured \subseteq Names /\ NoRaid \notin Names /\ MaxLines \in Nat

ArrayLines == [kind : {"array"}, name : Names, word : {"active", "inactive"},
               up : {"none", "some"}]

DetailLines == {[kind |-> "disks", up |-> "all"], [kind |-> "disks", up |-> "some"],
                [kind |-> "recovery"]}

Blank == [kind |-> "blank"]

OtherLines == {Blank, [kind |-> "other"]}

VARIABLES
  pc,
  read,             \* history: the lines read
  current_raid,     \* NoRaid: in_raid_section is false
  current_states    \* [status, state] by array

vars == <<pc, read, current_raid, current_states>>

RaidState(status, state) == [status |-> status, state |-> state]

Statuses == {"active", "inactive", "degraded", "optimal", "rebuilding"}

(***************************************************************************)
(* line.find("active"): "inactive" contains it too.                        *)
(***************************************************************************)
FindsActive(word) == word \in {"active", "inactive"}

HeaderState(line) ==
  IF line.up = "some" THEN RaidState("degraded", FALSE)
  ELSE IF FindsActive(line.word) THEN RaidState("active", TRUE)
  ELSE RaidState("inactive", FALSE)

DetailState(line) ==
  IF line.kind = "recovery" THEN RaidState("rebuilding", FALSE)
  ELSE IF line.up = "some" THEN RaidState("degraded", FALSE)
  ELSE RaidState("optimal", TRUE)

-------------------------------------------------------------------------------
MdstatTypeOK ==
  /\ pc \in {"reading", "done"}
  /\ read \in Seq(ArrayLines \cup DetailLines \cup OtherLines)
  /\ current_raid \in Configured \cup {NoRaid}
  /\ current_states \in
       PartialMaps(Configured, [status : Statuses, state : BOOLEAN])

MdstatInit ==
  /\ pc = "reading"
  /\ read = << >>
  /\ current_raid = NoRaid
  /\ current_states = EmptyMap

Line(line) ==
  /\ pc = "reading"
  /\ Len(read) < MaxLines
  /\ read' = Append(read, line)
  /\ UNCHANGED pc

ArrayLineKeepingSection ==   \* mutant: an array nobody configured is skipped
  \E line \in ArrayLines :   \* without leaving the section before it
    /\ Line(line)
    /\ IF line.name \in Configured
         THEN /\ current_raid' = line.name
              /\ current_states' =
                   Merge(current_states,
                         [n \in {line.name} |-> HeaderState(line)])
         ELSE UNCHANGED <<current_raid, current_states>>

ArrayLine ==
  \E line \in ArrayLines :
    /\ Line(line)
    /\ IF line.name \in Configured
         THEN /\ current_raid' = line.name
              /\ current_states' =
                   Merge(current_states,
                         [n \in {line.name} |-> HeaderState(line)])
         ELSE /\ current_raid' = NoRaid
              /\ UNCHANGED current_states

DetailLine ==
  \E line \in DetailLines :
    /\ Line(line)
    /\ current_states' =
         IF current_raid = NoRaid THEN current_states
         ELSE [current_states EXCEPT ![current_raid] = DetailState(line)]
    /\ UNCHANGED current_raid

OtherLine ==
  \E line \in OtherLines :
    /\ Line(line)
    /\ current_raid' = IF line = Blank THEN NoRaid ELSE current_raid
    /\ UNCHANGED current_states

(***************************************************************************)
(* The loop over raid_configs after the last line.                         *)
(***************************************************************************)
EndOfFileNaming ==           \* mutant: fills in every array of the file
  /\ pc = "reading"
  /\ current_states' =
       Merge([n \in Configured \cup {read[i].name : i \in {j \in DOMAIN read :
                                             read[j].kind = "array"}} |->
                RaidState("inactive", FALSE)],
             current_states)
  /\ pc' = "done"
  /\ UNCHANGED <<read, current_raid>>

EndOfFile ==
  /\ pc = "reading"
  /\ current_states' =
       Merge([n \in Configured |-> RaidState("inactive", FALSE)], current_states)
  /\ pc' = "done"
  /\ UNCHANGED <<read, current_raid>>

MdstatNext == ArrayLine \/ DetailLine \/ OtherLine \/ EndOfFile

MdstatSpec == MdstatInit /\ [][MdstatNext]_vars
-------------------------------------------------------------------------------
(***************************************************************************)
(* What a file says of array n: the last line about disks or recovery in   *)
(* the section of its last header, else that header, else "inactive".      *)
(***************************************************************************)
MaxOf(S) == CHOOSE x \in S : \A y \in S : y <= x

Headers(n) ==
  {i \in DOMAIN read : read[i].kind = "array" /\ read[i].name = n}

EndsSection(line) == line.kind \in {"array", "blank"}

Details(h) ==
  {i \in DOMAIN read :
     /\ i > h
     /\ read[i].kind \in {"disks", "recovery"}
     /\ \A j \in (h + 1)..i : ~EndsSection(read[j])}

Says(n) ==
  IF Headers(n) = {} THEN RaidState("inactive", FALSE)
  ELSE LET h == MaxOf(Headers(n))
       IN  IF Details(h) = {} THEN HeaderState(read[h])
           ELSE DetailState(read[MaxOf(Details(h))])

(***************************************************************************)
(* Every configured array gets what the file says of it, whatever other    *)
(* arrays, sections and lines come before, between and after.              *)
(***************************************************************************)
StatesAreWhatIsSaid ==
  pc = "done" =>
    /\ DOMAIN current_states = Configured
    /\ \A n \in Configured : current_states[n] = Says(n)

(***************************************************************************)
(* An array that counts as healthy is not listed as inactive.              *)
(***************************************************************************)
HealthyIsActive ==
  pc = "done" =>
    \A n \in Configured :
      current_states[n].state =>
        /\ Headers(n) # {}
        /\ LET h == MaxOf(Headers(n))
           IN  read[h].word = "active" \/ Details(h) # {}
===============================================================================
