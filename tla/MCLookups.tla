------------------------------- MODULE MCLookups ------------------------------
(***************************************************************************)
(* Small instances, for TLC, of the two structures whose loops rewrite the *)
(* links they follow: the disjoint sets, whose find compresses its path,   *)
(* and the hash table, whose growth relinks the entries in place.  The     *)
(* table has three logical keys, the first with two pointers, and hashes   *)
(* that collide at most capacities.  A caller uses one of them, the other  *)
(* rests.                                                                  *)
(***************************************************************************)
EXTENDS UnionFind, Sequences

CONSTANTS
  SizeMax, PtrSize, Value, Entry, Capacities, NULL,
  TableKey, TableId(_), TableHash(_),
  k1, twin, k2, k3

VARIABLES
  kind,        (* which of the structures it is                            *)
  stored, size, slots, buckets, entries, moving, blocks, answer

MCTableKey == {k1, twin, k2, k3}
MCTableId(k) == IF k = twin THEN k1 ELSE k
MCTableHash(i) == CASE i = k1 -> 0 [] i = k2 -> 2 [] OTHER -> 4

Table == INSTANCE HashTable WITH
  Key <- TableKey, Id <- TableId, Hash <- TableHash,
  live <- stored, capacity <- slots, reply <- answer

ASSUME TableAssumption == Table!TableAssumption /\ Table!SizeAssumption

tableVars == <<stored, size, slots, buckets, entries, moving, blocks, answer>>
lookupsVars == <<vars, tableVars, kind>>

LookupsInit == kind \in {"sets", "table"} /\ Init /\ Table!Init

SetsTurn == kind = "sets" /\ Step /\ UNCHANGED <<kind, tableVars>>
TableTurn == kind = "table" /\ Table!Step /\ UNCHANGED <<kind, vars>>

LookupsNext ==
  \/ kind = "sets" /\ Next /\ UNCHANGED <<kind, tableVars>>
  \/ kind = "table" /\ Table!Next /\ UNCHANGED <<kind, vars>>

LookupsSpec ==
  /\ LookupsInit /\ [][LookupsNext]_lookupsVars
  /\ WF_lookupsVars(SetsTurn) /\ WF_lookupsVars(TableTurn)

------------------------------------------------------------------------------
(* In hash_table.c every entry hangs from the bucket of its hash, once,    *)
(* also between two moves of a growth, and nothing leaks.                  *)
TableWellFormed == Table!WellFormed

(* hash-tables README.md: "doubles and rehashes before a new insertion at  *)
(* approximately 75% load": set_resizing leaves no table above the         *)
(* threshold that was within it before.                                    *)
LoadStaysBounded == Table!LoadStaysBounded

(* Every find ends although it rewrites the links it walks, and every      *)
(* growth although it relinks the entries it walks.                        *)
EveryCallEnds == CallsEnd /\ Table!CallsEnd

(* hash_table.c is the promised map: no entry is lost, doubled or changed  *)
(* by a growth, a replacement or a removal.                                *)
ImplementsDictionary ==
  /\ Table!Promise!Init
  /\ [][kind = "table" => [Table!Promise!Next]_(Table!Promise!vars)]_lookupsVars
==============================================================================
