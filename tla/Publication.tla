------------------------------ MODULE Publication ------------------------------
(***************************************************************************)
(* What every channel of the monitor promises, and all it promises: a      *)
(* cache of what it believes to have published, and a server that shows    *)
(* something.  The two agree key by key except on the keys whose last      *)
(* handover got lost, and only the next handover of the key repairs that.  *)
(***************************************************************************)
CONSTANTS
  Keys,     \* the nodes
  Values,   \* what a node can be told to show
  NoValue   \* nothing published yet, or no longer followed

VARIABLES
  sent,     \* the last_sent_... map of the channel, by node
  shown,    \* the nodes of the server
  missed    \* keys whose last handover, if any, the server does not show

pubVars == <<sent, shown, missed>>

PubTypeOK ==
  /\ sent \in [Keys -> Values \cup {NoValue}]
  /\ shown \in [Keys -> Values \cup {NoValue}]
  /\ missed \subseteq Keys

PubInit ==
  /\ sent = [k \in Keys |-> NoValue]
  /\ shown = [k \in Keys |-> NoValue]
  /\ missed = {}

(***************************************************************************)
(* What a step may do to one key: leave it (or stop following it), put a   *)
(* value into the cache that does not arrive, or bring a value to the      *)
(* server that the cache then holds or stops following.                    *)
(***************************************************************************)
Kept(k) ==
  /\ sent'[k] \in {sent[k], NoValue}
  /\ shown'[k] = shown[k]
  /\ k \in missed' <=> k \in missed

Lost(k) ==
  /\ shown'[k] = shown[k]
  /\ k \in missed'

Delivered(k) ==
  /\ shown'[k] # NoValue
  /\ sent'[k] \in {shown'[k], NoValue}
  /\ k \notin missed'

(***************************************************************************)
(* A step of the channel: some keys each way.                              *)
(***************************************************************************)
Publish == \A k \in Keys : Kept(k) \/ Lost(k) \/ Delivered(k)

(***************************************************************************)
(* The server restarts and has forgotten everything.                       *)
(***************************************************************************)
Forget ==
  /\ shown' = [k \in Keys |-> NoValue]
  /\ missed' = missed \cup {k \in Keys : shown[k] # NoValue}
  /\ UNCHANGED sent

PubNext == PubTypeOK' /\ (Publish \/ Forget)

PubSpec == PubInit /\ [][PubNext]_pubVars
-------------------------------------------------------------------------------
(***************************************************************************)
(* The cache never lies about a key the server did not miss: this is what  *)
(* lets a channel compare with the cache in place of reading the server.   *)
(***************************************************************************)
Honest ==
  \A k \in Keys : sent[k] # NoValue /\ k \notin missed => shown[k] = sent[k]
===============================================================================
