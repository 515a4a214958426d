------------------------------- MODULE AvDocument ------------------------------
(***************************************************************************)
(* What the parts of class AvDiagnostics (src/avdiagnostics.cpp) share:    *)
(* the document doc_, the OPC UA client, and their caller.                 *)
(*                                                                         *)
(* The class holds rewritten channels as methods; when they are called is  *)
(* up to a caller this repository does not have.  It is taken to be a      *)
(* single thread that runs collect, check and send of one part in this     *)
(* order and may load the configuration between two such cycles.  Of the   *)
(* other parts it may run the part looked at notices what they do to the   *)
(* document and to the session, which are steps it meets anyway.           *)
(***************************************************************************)
EXTENDS OpcUaClient, Maps

CONSTANTS
  Sections,      \* Sections[p]: for every course of edits of config.xml the
                 \* set of what the section of part p holds in it; the parts
                 \* looked at are those it is given for
  NoRoot,        \* a document without root and AvDiagnostics in it: never
                 \* loaded, or not loadable
  NoSection,     \* a document in which the section of the part is missing
  Indeterminate  \* what a bool nobody initialised may read as

(***************************************************************************)
(* Every edition of section p in config.xml.                               *)
(***************************************************************************)
Editions(p) == IF p \in DOMAIN Sections THEN UNION Sections[p] ELSE {}

AvParts == {"cpu", "disks", "ram", "processes", "raids", "ips"}

ASSUME AvDocumentAssumption ==
  /\ DOMAIN Sections \subseteq AvParts
  /\ Indeterminate \subseteq BOOLEAN /\ Indeterminate # {}

VARIABLES
  part,    \* the part looked at
  av_pc,   \* where its cycle is
  edits,   \* what its section in config.xml may hold
  doc_,    \* its section of the document
  batch    \* the WriteConfigs of a send that asks CheckConnection first

callVars == <<part, edits, av_pc, doc_, batch>>

AvDocumentTypeOK ==
  /\ OpcTypeOK
  /\ part \in DOMAIN Sections
  /\ edits \in Sections[part]
  /\ av_pc \in {"idle", "collected", "detected", "connect", "write",
               "crashed"}
  /\ doc_ \in {NoRoot, NoSection} \cup edits
  /\ \A c \in batch : c.node_id \in NodeIds

AvDocumentInit ==
  /\ OpcInit
  /\ part \in DOMAIN Sections
  /\ edits \in Sections[part]
  /\ av_pc = "idle"
  /\ doc_ = NoRoot
  /\ batch = {}

(***************************************************************************)
(* loadXml.  LoadFile empties the document first; when it fails it is      *)
(* called again, and what that gives is in the document while the answer   *)
(* is 1 in either case.  The caller goes on with what there is.            *)
(***************************************************************************)
loadXml ==
  /\ av_pc = "idle"
  /\ doc_' \in {NoRoot, NoSection} \cup edits
  /\ UNCHANGED <<opcVars, part, edits, av_pc, batch>>

(***************************************************************************)
(* The methods follow root->AvDiagnostics->section without a look at the   *)
(* pointers: a missing element is a null pointer they read through.        *)
(***************************************************************************)
Crash ==
  /\ av_pc' = "crashed"
  /\ UNCHANGED <<opcVars, part, edits, doc_, batch>>

Goes(from, to) ==
  /\ av_pc = from
  /\ av_pc' = to
  /\ UNCHANGED <<part, edits, doc_>>

(***************************************************************************)
(* The end of sendProcessMetrics and sendIpMetrics: the batch is written   *)
(* if CheckConnection answers true and dropped if not.                     *)
(***************************************************************************)
AvConnected ==
  /\ Goes("connect", "write")
  /\ CheckConnection(TRUE)
  /\ UNCHANGED <<serverUp, nodes, missed, batch>>

AvNotConnected ==
  /\ Goes("connect", "idle")
  /\ CheckConnection(FALSE)
  /\ missed' = missed \cup NodesOf(batch)
  /\ batch' = {}
  /\ UNCHANGED <<serverUp, nodes>>

AvWrite ==
  /\ Goes("write", "idle")
  /\ Write(batch)
  /\ batch' = {}

AvSend == AvConnected \/ AvNotConnected \/ AvWrite
===============================================================================
