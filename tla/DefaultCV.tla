----------------------------- MODULE DefaultCV -----------------------------
(***************************************************************************)
(* PATCH /cvs/:id/default: Repository.SetDefault, a transaction of two     *)
(* UPDATEs at PostgreSQL's default isolation level, READ COMMITTED, for    *)
(* one user's CVs, with concurrent deletions.                              *)
(*                                                                         *)
(* What the database does is modelled as far as the two statements show    *)
(* it: a statement finds its rows in a snapshot taken when it starts, locks *)
(* them one by one, waits for a row another transaction has locked, then   *)
(* evaluates its WHERE clause again on the version it waited for; locks    *)
(* are kept until the transaction ends; a deadlock aborts one transaction. *)
(***************************************************************************)
EXTENDS Naturals, FiniteSets

CONSTANTS CVs, Txns, NoTxn

ASSUME NoTxnAssumption == NoTxn \notin Txns

VARIABLES exists,     \* the committed rows of the user's cvs
          isDefault,  \* those whose committed is_default is true
          lock,       \* [CVs -> Txns \cup {NoTxn}]: row locks
          txn         \* [Txns -> Txn]: the SetDefault calls

vars == <<exists, isDefault, lock, txn>>

\* target: the $1 of the call; found: the rows of the second statement's
\* snapshot that it still has to visit; cleared: those it has updated; seen:
\* the calls that had committed when that snapshot was taken.
Points == {"set", "snapshot", "clear", "commit", "committed", "not_found", "aborted"}
Txn == [target : CVs, at : Points, found : SUBSET CVs, cleared : SUBSET CVs,
        seen : SUBSET Txns]

DefaultTypeOK ==
  /\ exists \subseteq CVs
  /\ isDefault \subseteq exists
  /\ lock \in [CVs -> Txns \cup {NoTxn}]
  /\ txn \in [Txns -> Txn]

Call(c) == [target |-> c, at |-> "set", found |-> {}, cleared |-> {}, seen |-> {}]

\* The user has CVs, at most one of them the default.
Init ==
  /\ exists = CVs
  /\ \/ isDefault = {}
     \/ \E c \in CVs : isDefault = {c}
  /\ lock = [c \in CVs |-> NoTxn]
  /\ txn \in [Txns -> {Call(c) : c \in CVs}]

Running(t) == txn[t].at \in {"snapshot", "clear", "commit"}

\* The row the transaction needs next and cannot have.
Wants(t) == CASE txn[t].at = "set" -> {txn[t].target}
              [] txn[t].at = "clear" -> txn[t].found
              [] OTHER -> {}

Take(t, c) == lock[c] = NoTxn /\ lock' = [lock EXCEPT ![c] = t]
Release(t) == lock' = [c \in CVs |-> IF lock[c] = t THEN NoTxn ELSE lock[c]]
Goto(t, point) == txn' = [txn EXCEPT ![t].at = point]
Committed == {t \in Txns : txn[t].at = "committed"}

---------------------------------------------------------------------------
\* UPDATE cvs SET is_default = true WHERE id = $1 AND user_id = $2.
MutNoRowCheck(t) ==
  /\ txn[t].at = "set"
  /\ Take(t, txn[t].target)
  /\ Goto(t, "snapshot")
  /\ UNCHANGED <<exists, isDefault>>
SetTarget(t) ==
  /\ txn[t].at = "set"
  /\ txn[t].target \in exists
  /\ Take(t, txn[t].target)
  /\ Goto(t, "snapshot")
  /\ UNCHANGED <<exists, isDefault>>

\* No row: ErrNotFound, and the deferred Rollback.
TargetMissing(t) ==
  /\ txn[t].at = "set"
  /\ txn[t].target \notin exists
  /\ Goto(t, "not_found")
  /\ UNCHANGED <<exists, isDefault, lock>>

\* UPDATE ... SET is_default = false WHERE user_id = $1 AND id <> $2 AND
\* is_default: the rows its snapshot finds, then each of them in some order.
\* A row is locked before its WHERE clause is evaluated again, and stays so.
Snapshot(t) ==
  /\ txn[t].at = "snapshot"
  /\ txn' = [txn EXCEPT ![t].at = "clear", ![t].seen = Committed,
                        ![t].found = isDefault \ {txn[t].target}]
  /\ UNCHANGED <<exists, isDefault, lock>>

MutSkipLocked(t) ==
  /\ txn[t].at = "clear"
  /\ \E c \in txn[t].found :
       \/ /\ Take(t, c)
          /\ txn' = [txn EXCEPT ![t].found = @ \ {c}, ![t].cleared = @ \cup {c}]
       \/ /\ lock[c] \in Txns /\ UNCHANGED lock
          /\ txn' = [txn EXCEPT ![t].found = @ \ {c}]
  /\ UNCHANGED <<exists, isDefault>>
ClearOne(t) ==
  /\ txn[t].at = "clear"
  /\ \E c \in txn[t].found :
       \/ /\ c \in exists
          /\ Take(t, c)
          /\ txn' = [txn EXCEPT ![t].found = @ \ {c}, ![t].cleared = @ \cup (isDefault \cap {c})]
       \/ /\ c \notin exists
          /\ txn' = [txn EXCEPT ![t].found = @ \ {c}]
          /\ UNCHANGED lock
  /\ UNCHANGED <<exists, isDefault>>

ClearedAll(t) ==
  /\ txn[t].at = "clear"
  /\ txn[t].found = {}
  /\ Goto(t, "commit")
  /\ UNCHANGED <<exists, isDefault, lock>>

\* tx.Commit: the new versions become visible and the locks are released.
DefaultsAfter(t) == (isDefault \ txn[t].cleared) \cup {txn[t].target}

Commit(t) ==
  /\ txn[t].at = "commit"
  /\ isDefault' = DefaultsAfter(t)
  /\ Release(t)
  /\ txn' = [txn EXCEPT ![t] = [@ EXCEPT !.at = "committed", !.cleared = {}]]
  /\ UNCHANGED exists

\* An error of a statement, a crash of the API, a closed connection: the
\* transaction is rolled back.
Abort(t) ==
  /\ txn[t].at = "set" \/ Running(t)
  /\ Release(t)
  /\ txn' = [txn EXCEPT ![t] = [Call(txn[t].target) EXCEPT !.at = "aborted"]]
  /\ UNCHANGED <<exists, isDefault>>

\* PostgreSQL aborts a transaction of a cycle of waits.
Blocked(t) == Running(t) /\ Wants(t) # {} /\ \A c \in Wants(t) : lock[c] \in Txns \ {t}
Deadlocked(t) ==
  \E cycle \in SUBSET Txns :
    /\ t \in cycle
    /\ \A u \in cycle : Blocked(u) /\ \A c \in Wants(u) : lock[c] \in cycle

MutNoDetector(t) == FALSE /\ UNCHANGED vars
BreakDeadlock(t) == Deadlocked(t) /\ Abort(t)

\* DELETE FROM cvs WHERE id = $1, a transaction of its own.
DeleteCV(c) ==
  /\ c \in exists /\ lock[c] = NoTxn
  /\ exists' = exists \ {c}
  /\ isDefault' = isDefault \ {c}
  /\ UNCHANGED <<lock, txn>>

---------------------------------------------------------------------------
TxnStep(t) ==
  \/ SetTarget(t) \/ TargetMissing(t) \/ Snapshot(t) \/ ClearOne(t) \/ ClearedAll(t)
  \/ Commit(t) \/ BreakDeadlock(t)

Next ==
  \/ \E t \in Txns : TxnStep(t) \/ Abort(t)
  \/ \E c \in CVs : DeleteCV(c)

\* Statements of a live connection get executed and deadlocks get detected;
\* errors and deletions need not happen.
Spec == Init /\ [][Next]_vars /\ \A t \in Txns : WF_vars(TxnStep(t))

---------------------------------------------------------------------------
\* Two defaults only ever come from two committed calls that overlapped, each
\* having taken its snapshot before the other's commit: the default from
\* before, and that of any earlier call, is always cleared.
OnlyOverlapSplits ==
  \A a, b \in isDefault : a # b =>
    \E t, u \in Committed : /\ txn[t].target = a /\ txn[u].target = b
                            /\ t \notin txn[u].seen /\ u \notin txn[t].seen

\* Every call gets its answer, although calls wait for each other's rows and
\* may do so in a cycle.
CallsEnd == \A t \in Txns : <>(txn[t].at \in {"committed", "not_found", "aborted"})

\* The claim of SetDefault's comment, "makes one CV the user's default and
\* clears the flag on the rest" (repository.go:108).
OneDefault == Cardinality(isDefault) <= 1
=============================================================================
