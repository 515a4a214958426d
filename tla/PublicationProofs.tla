--------------------------- MODULE PublicationProofs ---------------------------
(***************************************************************************)
(* What follows from the promise of a channel alone, for any nodes and any *)
(* values; it holds of every channel that implements Publication.          *)
(***************************************************************************)
EXTENDS Publication, TLAPS

LEMMA PublishKeepsHonest ==
  ASSUME Honest, Publish
  PROVE  Honest'
<1> SUFFICES ASSUME NEW k \in Keys, sent'[k] # NoValue, k \notin missed'
             PROVE  shown'[k] = sent'[k]
  BY DEF Honest
<1>1. CASE Kept(k)
  BY <1>1 DEF Kept, Honest
<1>2. CASE Lost(k)
  BY <1>2 DEF Lost
<1>3. CASE Delivered(k)
  BY <1>3 DEF Delivered
<1> QED
  BY <1>1, <1>2, <1>3 DEF Publish

LEMMA NextKeepsHonest == Honest /\ [PubNext]_pubVars => Honest'
<1> SUFFICES ASSUME Honest, [PubNext]_pubVars PROVE Honest'
  OBVIOUS
<1>1. CASE Publish
  BY <1>1, PublishKeepsHonest
<1>2. CASE Forget
  BY <1>2 DEF Forget, Honest
<1>3. CASE UNCHANGED pubVars
  BY <1>3 DEF pubVars, Honest
<1> QED
  BY <1>1, <1>2, <1>3 DEF PubNext

(***************************************************************************)
(* A channel that implements Publication has an honest cache: where it     *)
(* holds a value and the server missed nothing, the server shows the value.*)
(***************************************************************************)
THEOREM CacheIsHonest == PubSpec => []Honest
<1>1. PubInit => Honest
  BY DEF PubInit, Honest
<1> QED
  BY <1>1, NextKeepsHonest, PTL DEF PubSpec
===============================================================================
