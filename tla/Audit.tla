-------------------------------- MODULE Audit --------------------------------
(***************************************************************************)
(* What a run of audit-local promises, whoever else runs one on the same   *)
(* database: 0 and 2 are exits of audits that migrated the database, read  *)
(* the whole account, and came to a verdict on every path they found; 0    *)
(* says that no verdict was left to look at.  Every other end is a 1, or   *)
(* no exit of the program at all.                                          *)
(***************************************************************************)
EXTENDS Integers

CONSTANTS Proc, Verdict, Bad   \* Bad: the verdicts that an auditor must look at

VARIABLES
    migrated,   \* the database has its constraints
    status,     \* process -> "idle", "begun", "gathered", "checking", "ended"
    open,       \* process -> paths without a verdict yet
    found,      \* process -> verdicts so far
    code        \* process -> exit code

vars == <<migrated, status, open, found, code>>

Init ==
  /\ migrated \in BOOLEAN
  /\ status = [p \in Proc |-> "idle"]
  /\ open = [p \in Proc |-> 0]
  /\ found = [p \in Proc |-> {}]
  /\ code = [p \in Proc |-> "none"]

Migrate == migrated' = TRUE /\ UNCHANGED <<status, open, found, code>>

Moves(p, from, to) == status[p] = from /\ status' = [status EXCEPT ![p] = to]

Begin(p) ==
  /\ status[p] \in {"idle", "ended"}
  /\ status' = [status EXCEPT ![p] = "begun"]
  /\ open' = [open EXCEPT ![p] = 0]
  /\ found' = [found EXCEPT ![p] = {}]
  /\ code' = [code EXCEPT ![p] = "none"]
  /\ UNCHANGED migrated

\* Another use of the program, which audits nothing.
Leave(p) ==
  /\ status[p] = "ended"
  /\ status' = [status EXCEPT ![p] = "idle"]
  /\ open' = [open EXCEPT ![p] = 0]
  /\ found' = [found EXCEPT ![p] = {}]
  /\ code' = [code EXCEPT ![p] = "none"]
  /\ UNCHANGED migrated

\* The account has been read and written, all of it, under the constraints.
Gather(p) == migrated /\ Moves(p, "begun", "gathered") /\ UNCHANGED <<migrated, open, found, code>>

FindPaths(p) ==
  /\ Moves(p, "gathered", "checking")
  /\ open'[p] \in Nat /\ open' = [open EXCEPT ![p] = open'[p]]
  /\ UNCHANGED <<migrated, found, code>>

Check(p, verdict) ==
  /\ status[p] = "checking" /\ open[p] > 0
  /\ open' = [open EXCEPT ![p] = @ - 1]
  /\ found' = [found EXCEPT ![p] = @ \cup {verdict}]
  /\ UNCHANGED <<migrated, status, code>>

Finish(p) ==
  /\ Moves(p, "checking", "ended")
  /\ open[p] = 0
  /\ code' = [code EXCEPT ![p] = IF found[p] \cap Bad = {} THEN "0" ELSE "2"]
  /\ UNCHANGED <<migrated, open, found>>

Stop(p) ==
  /\ status[p] \in {"begun", "gathered", "checking"}
  /\ status' = [status EXCEPT ![p] = "ended"]
  /\ code' \in {[code EXCEPT ![p] = c] : c \in {"1", "killed"}}
  /\ UNCHANGED <<migrated, open, found>>

Next ==
  \/ Migrate
  \/ \E p \in Proc :
       \/ Begin(p) \/ Leave(p) \/ Gather(p) \/ FindPaths(p)
       \/ \E verdict \in Verdict : Check(p, verdict)
       \/ Finish(p) \/ Stop(p)

Spec == Init /\ [][Next]_vars
=============================================================================
