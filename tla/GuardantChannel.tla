---------------------------- MODULE GuardantChannel ----------------------------
(***************************************************************************)
(* The Guardant channel of the monitor (src/main.cpp, section Guardant,    *)
(* and the loop of src/main_old.cpp that runs it): each product in         *)
(* config.xml has a node that tells whether the licence dongle carries the *)
(* product.  A check runs in a thread of its own: lsusb, then config.xml,  *)
(* then the dongle's licences; the main loop takes its result, compares it *)
(* with what it remembers and hands the differences to the OPC UA client.  *)
(*                                                                         *)
(* guardant_check_running keeps the loop from starting a second check      *)
(* before it has handled the first one, so one pc follows both threads.    *)
(***************************************************************************)
EXTENDS OpcUaClient, Maps

CONSTANTS
  Products,      \* the products config.xml may name
  Files,         \* the sets of products it may name, {} if it is unreadable
  Dongles,       \* the sets of products a dongle may carry
  ProductNode,   \* ProductNode[p]: the node of p, of type BOOL or INT
  ProductType,
  Indeterminate  \* what a bool nobody initialised may read as

ASSUME GuardantAssumption ==
  /\ Files \subseteq SUBSET Products
  /\ Dongles \subseteq SUBSET Products
  /\ \A p \in Products : ProductNode[p] \in NodeIds
  /\ \A p, q \in Products : ProductNode[p] = ProductNode[q] => p = q
  /\ \A p \in Products : ProductType[p] \in {"BOOL", "INT"}
  /\ Indeterminate \subseteq BOOLEAN /\ Indeterminate # {}
  /\ NoValue \notin {0, 1}

VARIABLES
  key,            \* the dongle is plugged in
  licensed,       \* the products it carries; none while it is out
  config,         \* the products config.xml names; none if it is unreadable
  guard_pc,       \* where the check, or the handling of its result, is
  key_inserted,   \* of the check's result, then of changed
  products,       \* product |-> found, of the check's result, then of changed
  batch,          \* writeConfigs of send_guardant_metrics
  last_key_inserted,
  last_products,  \* these two are last_sent_guardant
  skipped         \* history: products whose last change was dealt with unhanded

world == <<key, licensed, config>>
last_sent_guardant == <<last_key_inserted, last_products>>
guardVars == <<world, guard_pc, key_inserted, products, batch,
               last_sent_guardant, skipped>>
vars == <<opcVars, guardVars>>

-------------------------------------------------------------------------------
GuardantTypeOK ==
  /\ OpcTypeOK
  /\ key \in BOOLEAN
  /\ licensed \subseteq Products /\ (~key => licensed = {})
  /\ config \subseteq Products
  /\ guard_pc \in {"idle", "lsusb", "load", "license", "ready", "send", "write"}
  /\ key_inserted \in BOOLEAN
  /\ products \in PartialMaps(Products, BOOLEAN)
  /\ last_key_inserted \in BOOLEAN
  /\ last_products \in PartialMaps(Products, {TRUE})  \* never "not found"

GuardantInit ==
  /\ OpcInit
  /\ key = FALSE
  /\ licensed = {}
  /\ config \in Files
  /\ guard_pc = "idle"
  /\ key_inserted = FALSE
  /\ products = EmptyMap
  /\ batch = {}
  /\ last_key_inserted = FALSE
  /\ last_products = EmptyMap
  /\ skipped = {}

(***************************************************************************)
(* The loop starts a check, a minute after the last one at the earliest.   *)
(***************************************************************************)
StartCheck ==
  /\ guard_pc = "idle"
  /\ guard_pc' = "lsusb"
  /\ UNCHANGED <<opcVars, world, key_inserted, products, batch,
                 last_sent_guardant, skipped>>

(***************************************************************************)
(* collect_guardant_states: the dongle, the products to look for, and the  *)
(* dongle's licences are read one after the other.                         *)
(***************************************************************************)
CheckKey ==
  /\ guard_pc = "lsusb"
  /\ key_inserted' = key
  /\ guard_pc' = "load"
  /\ UNCHANGED <<opcVars, world, products, batch, last_sent_guardant, skipped>>

LoadFile ==
  /\ guard_pc = "load"
  /\ products' = [p \in config |-> FALSE]
  /\ guard_pc' = IF config = {} THEN "ready" ELSE "license"
  /\ UNCHANGED <<opcVars, world, key_inserted, batch, last_sent_guardant, skipped>>

CheckLicenses ==
  /\ guard_pc = "license"
  /\ products' = [p \in DOMAIN products |->
                    key_inserted /\ p \in licensed]
  /\ guard_pc' = "ready"
  /\ UNCHANGED <<opcVars, world, key_inserted, batch, last_sent_guardant, skipped>>

(***************************************************************************)
(* detect_guardant_changes: products that are new, whose status moved, or  *)
(* that config.xml no longer names.  changed.key_inserted is assigned only *)
(* when it differs, and is otherwise whatever the stack held.              *)
(***************************************************************************)
Removed == DOMAIN last_products \ DOMAIN products

NewProducts == DOMAIN products \ DOMAIN last_products   \* mutant: found never moves

MovedProducts ==
  {p \in DOMAIN products :
     p \in DOMAIN last_products => last_products[p] # products[p]}

ChangedProducts ==
  [p \in MovedProducts \cup Removed |-> p \in MovedProducts /\ products[p]]

Detect ==
  /\ guard_pc = "ready"
  /\ products' = ChangedProducts
  /\ IF key_inserted # last_key_inserted
       THEN UNCHANGED key_inserted
       ELSE key_inserted' \in Indeterminate
  /\ guard_pc' = "send"
  /\ UNCHANGED <<opcVars, world, batch, last_sent_guardant, skipped>>

(***************************************************************************)
(* send_guardant_metrics rereads config.xml, and hands over those products *)
(* it still names.                                                         *)
(***************************************************************************)
ProductConfig(p, found) ==
  WriteConfig(ProductNode[p], ProductType[p], "i", IF found THEN 1 ELSE 0)

writeConfigs ==
  {ProductConfig(p, products[p]) : p \in DOMAIN products \cap config}

EndOfCheck ==              \* the result and changed go out of scope
  /\ guard_pc' = "idle"
  /\ key_inserted' = FALSE
  /\ products' = EmptyMap

Nothing ==                 \* the early returns, and an empty batch
  /\ guard_pc = "send"
  /\ ~key_inserted \/ writeConfigs = {}
  /\ EndOfCheck
  /\ UNCHANGED <<opcVars, world, batch, last_sent_guardant, skipped>>

Found == {p \in DOMAIN products : products[p]}

RememberedAll == Merge(last_products, products)   \* mutant: nothing is erased

Remembered ==
  On(Merge(last_products, products), (DOMAIN last_products \ DOMAIN products) \cup Found)

NotConnectedCaching ==     \* mutant: the cache is updated whatever happens
  /\ guard_pc = "send"
  /\ key_inserted /\ writeConfigs # {}
  /\ CheckConnection(FALSE)
  /\ last_key_inserted' = TRUE
  /\ last_products' = Remembered
  /\ EndOfCheck
  /\ UNCHANGED <<serverUp, nodes, missed, world, batch, skipped>>

NotConnected ==
  /\ guard_pc = "send"
  /\ key_inserted /\ writeConfigs # {}
  /\ CheckConnection(FALSE)
  /\ EndOfCheck
  /\ UNCHANGED <<serverUp, nodes, missed, world, batch, last_sent_guardant, skipped>>

Connected ==
  /\ guard_pc = "send"
  /\ key_inserted /\ writeConfigs # {}
  /\ CheckConnection(TRUE)
  /\ batch' = writeConfigs
  /\ guard_pc' = "write"
  /\ UNCHANGED <<serverUp, nodes, missed, world, key_inserted, products,
                 last_sent_guardant, skipped>>

Handed == {p \in DOMAIN products : ProductNode[p] \in NodesOf(batch)}

Send ==
  /\ guard_pc = "write"
  /\ Write(batch)
  /\ last_key_inserted' = TRUE
  /\ last_products' = Remembered
  /\ skipped' = (skipped \cup DOMAIN products) \ Handed
  /\ batch' = {}
  /\ EndOfCheck
  /\ UNCHANGED world

Monitor ==
  \/ StartCheck \/ CheckKey \/ LoadFile \/ CheckLicenses \/ Detect
  \/ Nothing \/ NotConnected \/ Connected \/ Send

(***************************************************************************)
(* People plug the dongle, licences expire, and config.xml is edited or    *)
(* half written, between any two steps.                                    *)
(***************************************************************************)
DongleStep ==
  /\ key' \in BOOLEAN
  /\ licensed' \in IF key' THEN Dongles ELSE {{}}
  /\ UNCHANGED config

EditStep ==
  /\ config' \in Files
  /\ UNCHANGED <<key, licensed>>

WorldStep ==
  /\ DongleStep \/ EditStep
  /\ UNCHANGED <<opcVars, guard_pc, key_inserted, products, batch,
                 last_sent_guardant, skipped>>

Environment == WorldStep \/ (ServerStep /\ UNCHANGED guardVars)

GuardantNext == Monitor \/ Environment

GuardantSpec == GuardantInit /\ [][GuardantNext]_vars

(***************************************************************************)
(* The loop turns for ever and finds the minute over; a check ends.        *)
(***************************************************************************)
GuardantFairSpec == GuardantSpec /\ WF_vars(Monitor)
-------------------------------------------------------------------------------
(***************************************************************************)
(* While the dongle stays plugged in and config.xml keeps naming a         *)
(* product, its node ends up telling whether the dongle carries it: that   *)
(* is, unless the server missed the last value, or the value was           *)
(* remembered without being handed over; and provided that the flag nobody *)
(* initialised reads TRUE.  Concerns detect_ and send_guardant_...         *)
(***************************************************************************)
Settled(p) ==
  serverUp /\ key /\ p \in config /\ (guard_pc = "send" => key_inserted)

Shows(p, v) ==
  p \in skipped \/ ProductNode[p] \in missed \/ nodes[ProductNode[p]] = v

LicenceShown ==
  \A p \in Products :
    /\ <>[](Settled(p) /\ p \in licensed) => <>[]Shows(p, 1)
    /\ <>[](Settled(p) /\ p \notin licensed) => <>[]Shows(p, 0)

(***************************************************************************)
(* When the dongle is pulled for good, a product config.xml keeps naming   *)
(* does not go on being shown as licensed.                                 *)
(***************************************************************************)
RemovalShown ==
  \A p \in Products :
    <>[](serverUp /\ ~key /\ p \in config)
      => <>[](ProductNode[p] \notin missed => nodes[ProductNode[p]] # 1)

(***************************************************************************)
(* The channel implements Publication, if a product remembered without     *)
(* being handed over counts as missed.                                     *)
(***************************************************************************)
SentTo(n) ==
  IF \E p \in DOMAIN last_products : ProductNode[p] = n THEN 1 ELSE NoValue

Pub == INSTANCE Publication WITH
         Keys <- NodeIds, Values <- {0, 1},
         sent <- [n \in NodeIds |-> SentTo(n)], shown <- nodes,
         missed <- missed \cup {ProductNode[p] : p \in skipped}

GuardantPublishes == Pub!PubSpec
===============================================================================
