------------------------------ MODULE DoFAdapter ------------------------------
(***************************************************************************)
(* Name-based reordering between two lists of joints (class DoFAdapter of  *)
(* src/src/data_converter.cpp).  A joint name is a number, ordered as the  *)
(* program orders the strings; indices start at 1, and index 0 is "not     *)
(* found" or "not mapped".                                                 *)
(***************************************************************************)
EXTENDS Integers, Sequences, FiniteSetsExt

Zero == 0   \* the value 0.0f
Name == Nat

(* A std::map from name to index, filled in list order: of equal names the *)
(* last one counts.                                                        *)
LookUp(names, name) ==
  LET found == {i \in DOMAIN names : names[i] = name}
  IN  IF found = {} THEN 0 ELSE Max(found)

BugMapOnly(name, tar, nameMap) ==
  IF name \in DOMAIN nameMap THEN LookUp(tar, nameMap[name]) ELSE 0

(* The name map is tried first, then the name itself.                      *)
TargetIndex(name, tar, nameMap) ==
  LET mapped == IF name \in DOMAIN nameMap THEN LookUp(tar, nameMap[name]) ELSE 0
  IN  IF mapped # 0 THEN mapped ELSE LookUp(tar, name)

Build(src, tar, nameMap) ==
  [len |-> Len(tar),
   target |-> [i \in DOMAIN src |-> TargetIndex(src[i], tar, nameMap)]]

(* An adapter that was never built.                                        *)
Unbuilt == [len |-> 0, target |-> <<>>]

(* The writers of slot j: the source joints mapped to it that data covers. *)
Writers(adapter, data, j) ==
  {i \in DOMAIN adapter.target : adapter.target[i] = j /\ i <= Len(data)}

BugFitUnassigned(adapter, data) ==
  [j \in 1 .. adapter.len |->
     LET w == Writers(adapter, data, j) IN IF w = {} THEN -1 ELSE data[Max(w)]]

(* The writes happen in source order, so the last writer of a slot wins; a *)
(* slot nobody writes stays zero, for no caller passes template values.    *)
Fit(adapter, data) ==
  [j \in 1 .. adapter.len |->
     LET w == Writers(adapter, data, j) IN IF w = {} THEN Zero ELSE data[Max(w)]]

===============================================================================
