--------------------------------- MODULE Maps ----------------------------------
(***************************************************************************)
(* std::map as the channels use it: a function whose domain is the set of  *)
(* keys present.                                                           *)
(***************************************************************************)
PartialMaps(S, T) == UNION {[D -> T] : D \in SUBSET S}

EmptyMap == [x \in {} |-> x]

(***************************************************************************)
(* for (auto& [k, v] : g) f[k] = v;                                        *)
(***************************************************************************)
Merge(f, g) ==
  [x \in DOMAIN f \cup DOMAIN g |-> IF x \in DOMAIN g THEN g[x] ELSE f[x]]

(***************************************************************************)
(* The part of f on the keys of S.                                         *)
(***************************************************************************)
On(f, S) == [x \in DOMAIN f \cap S |-> f[x]]
===============================================================================
