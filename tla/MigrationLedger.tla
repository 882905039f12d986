--------------------------- MODULE MigrationLedger ---------------------------
(***************************************************************************)
(* What the migration runner promises of the database, whoever runs it and *)
(* however often a run fails: migrations take effect whole and in version  *)
(* order, and a version is recorded only after it took effect.             *)
(***************************************************************************)
EXTENDS Integers

CONSTANTS
  Version,      \* the versions of the migration files
  Effects(_)    \* Effects(v): the schema elements that version v creates

VARIABLES schema, recorded

vars == <<schema, recorded>>

PredecessorsRecorded(v) == \A u \in Version : u < v => u \in recorded

Init == schema = {} /\ recorded = {}

Apply(v) ==
  /\ PredecessorsRecorded(v)
  /\ schema' = schema \cup Effects(v)
  /\ UNCHANGED recorded

Record(v) ==
  /\ PredecessorsRecorded(v)
  /\ Effects(v) \subseteq schema
  /\ recorded' = recorded \cup {v}
  /\ UNCHANGED schema

Next == \E v \in Version : Apply(v) \/ Record(v)

Spec == Init /\ [][Next]_vars
=============================================================================
