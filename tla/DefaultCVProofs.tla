-------------------------- MODULE DefaultCVProofs --------------------------
(***************************************************************************)
(* DefaultCV for every set of CVs and of concurrent calls: its types, and  *)
(* that a second default only comes from calls that overlapped.            *)
(***************************************************************************)
EXTENDS DefaultCV, TLAPS

\* A running transaction holds the row it made the default, so that nobody
\* deletes it, and its second statement is through when it commits.
TargetHeld ==
  \A t \in Txns : Running(t) => lock[txn[t].target] = t /\ txn[t].target \in exists
ClearDone == \A t \in Txns : txn[t].at = "commit" => txn[t].found = {}

\* A snapshot saw calls that had committed, and committed they stay.
SeenCommitted == \A t \in Txns : txn[t].seen \subseteq Committed

\* What the second statement of a call does not find, or has not cleared, was
\* made a default by a call that committed after the snapshot.
Unseen(t, a) == \E u \in Txns : /\ u \in Committed /\ txn[u].target = a
                                  /\ u \notin txn[t].seen
MissedIsUnseen ==
  \A t \in Txns : txn[t].at \in {"clear", "commit"} =>
    \A a \in isDefault \ {txn[t].target} :
      a \in txn[t].found \cup txn[t].cleared \/ Unseen(t, a)

HeldInv == DefaultTypeOK /\ TargetHeld
SplitInv == ClearDone /\ SeenCommitted /\ MissedIsUnseen /\ OnlyOverlapSplits

---------------------------------------------------------------------------
LEMMA HeldInit == Init => HeldInv
  BY NoTxnAssumption DEF Init, HeldInv, DefaultTypeOK, TargetHeld, Running, Call, Txn, Points

LEMMA TakenType ==
  ASSUME NEW r \in Txn, NEW F \in SUBSET CVs, NEW S \in SUBSET Txns
  PROVE  LET taken == [r EXCEPT !.at = "clear", !.seen = S, !.found = F]
         IN taken \in Txn /\ taken.target = r.target
  BY DEF Txn, Points

LEMMA FinishedType ==
  ASSUME NEW r \in Txn
  PROVE  [r EXCEPT !.at = "committed", !.cleared = {}] \in Txn
  BY DEF Txn, Points

LEMMA HeldNext == HeldInv /\ [Next]_vars => HeldInv'
<1> SUFFICES ASSUME HeldInv, [Next]_vars
             PROVE  HeldInv'
  OBVIOUS
<1> USE NoTxnAssumption DEF HeldInv, DefaultTypeOK, TargetHeld, Running, Txn, Points
<1>1. ASSUME NEW t \in Txns, SetTarget(t) PROVE HeldInv'
  BY <1>1 DEF SetTarget, Take, Goto
<1>2. ASSUME NEW t \in Txns, TargetMissing(t) PROVE HeldInv'
  BY <1>2 DEF TargetMissing, Goto
<1>3. ASSUME NEW t \in Txns, Snapshot(t) PROVE HeldInv'
  <2>1. Committed \in SUBSET Txns /\ isDefault \ {txn[t].target} \in SUBSET CVs
    BY DEF Committed
  <2>2. txn' \in [Txns -> Txn] /\ \A u \in Txns : txn'[u].target = txn[u].target
    <3> DEFINE taken == [txn[t] EXCEPT !.at = "clear", !.seen = Committed,
                                       !.found = isDefault \ {txn[t].target}]
    <3>a. txn[t] \in Txn
      OBVIOUS
    <3>1. txn' = [txn EXCEPT ![t] = taken]
      BY <1>3, <3>a, Zenon DEF Snapshot
    <3>2. taken \in Txn /\ taken.target = txn[t].target
      BY <2>1, <3>a, TakenType, Zenon
    <3> QED
      BY <3>1, <3>2
  <2>3. \A u \in Txns : Running(u)' => Running(u)
    BY <1>3 DEF Snapshot
  <2> QED
    BY <1>3, <2>2, <2>3 DEF Snapshot
<1>4. ASSUME NEW t \in Txns, ClearOne(t) PROVE HeldInv'
  BY <1>4 DEF ClearOne, Take
<1>5. ASSUME NEW t \in Txns, ClearedAll(t) PROVE HeldInv'
  BY <1>5 DEF ClearedAll, Goto
<1>6. ASSUME NEW t \in Txns, Commit(t) PROVE HeldInv'
  <2>1. [txn[t] EXCEPT !.at = "committed", !.cleared = {}] \in Txn
    <3>1. txn[t] \in Txn
      OBVIOUS
    <3> QED
      BY <3>1, FinishedType, Zenon
  <2>2. /\ txn' \in [Txns -> Txn] /\ txn'[t].at = "committed"
        /\ \A u \in Txns \ {t} : txn'[u] = txn[u]
    BY <1>6, <2>1 DEF Commit
  <2> QED
    BY <1>6, <2>2 DEF Commit, DefaultsAfter, Release
<1>7. ASSUME NEW t \in Txns, Abort(t) PROVE HeldInv'
  <2>1. [Call(txn[t].target) EXCEPT !.at = "aborted"] \in Txn
    BY DEF Call
  <2>2. /\ txn' \in [Txns -> Txn] /\ txn'[t].at = "aborted"
        /\ \A u \in Txns \ {t} : txn'[u] = txn[u]
    BY <1>7, <2>1 DEF Abort, Call
  <2> QED
    BY <1>7, <2>2 DEF Abort, Release
<1>8. ASSUME NEW c \in CVs, DeleteCV(c) PROVE HeldInv'
  BY <1>8 DEF DeleteCV
<1>9. CASE UNCHANGED vars
  BY <1>9 DEF vars
<1> QED
  BY <1>1, <1>2, <1>3, <1>4, <1>5, <1>6, <1>7, <1>8, <1>9
     DEF Next, TxnStep, BreakDeadlock

---------------------------------------------------------------------------
LEMMA SplitInit == Init => SplitInv
<1> SUFFICES ASSUME Init PROVE SplitInv
  OBVIOUS
<1>1. \A t \in Txns : txn[t].at = "set" /\ txn[t].seen = {}
  BY DEF Init, Call
<1>2. \A a, b \in isDefault : a = b
  BY DEF Init
<1> QED
  BY <1>1, <1>2 DEF SplitInv, ClearDone, SeenCommitted, MissedIsUnseen, OnlyOverlapSplits

\* A step that leaves the defaults and the calls' outcomes alone.
LEMMA SplitQuiet ==
  ASSUME HeldInv, SplitInv, isDefault' \subseteq isDefault, Committed' = Committed,
         \A t \in Txns : txn'[t].target = txn[t].target /\ txn'[t].seen \subseteq txn[t].seen
  PROVE  SeenCommitted' /\ OnlyOverlapSplits'
  BY DEF SplitInv, SeenCommitted, OnlyOverlapSplits, Committed

LEMMA SplitNext == HeldInv /\ SplitInv /\ [Next]_vars => SplitInv'
<1> SUFFICES ASSUME HeldInv, SplitInv, [Next]_vars
             PROVE  SplitInv'
  OBVIOUS
<1>0. txn \in [Txns -> Txn]
  BY DEF HeldInv, DefaultTypeOK
<1>1. ASSUME NEW t \in Txns, SetTarget(t) \/ TargetMissing(t) \/ Abort(t) PROVE SplitInv'
  <2>0. /\ txn[t].at \in {"set", "snapshot", "clear", "commit"}
        /\ txn'[t].at \in {"snapshot", "not_found", "aborted"}
        /\ txn'[t].target = txn[t].target /\ txn'[t].seen \subseteq txn[t].seen
        /\ \A u \in Txns \ {t} : txn'[u] = txn[u]
    <3>1. CASE SetTarget(t) \/ TargetMissing(t)
      BY <1>0, <3>1 DEF SetTarget, TargetMissing, Goto, Txn
    <3>2. CASE Abort(t)
      BY <1>0, <3>2 DEF Abort, Call, Running, Txn
    <3> QED
      BY <1>1, <3>1, <3>2
  <2>1. /\ isDefault' = isDefault
        /\ \A u \in Txns : /\ txn'[u].target = txn[u].target /\ txn'[u].seen \subseteq txn[u].seen
                           /\ txn'[u].at \in {"clear", "commit", "committed"} => txn'[u] = txn[u]
                           /\ txn[u].at = "committed" => txn'[u].at = "committed"
    BY <2>0, <1>1 DEF SetTarget, TargetMissing, Abort
  <2>2. Committed' = Committed
    BY <2>1 DEF Committed
  <2>3. SeenCommitted' /\ OnlyOverlapSplits'
    BY <2>1, <2>2, SplitQuiet
  <2>4. ClearDone' /\ MissedIsUnseen'
    BY <2>1, <2>2 DEF SplitInv, ClearDone, MissedIsUnseen, Unseen
  <2> QED
    BY <2>3, <2>4 DEF SplitInv
<1>2. ASSUME NEW t \in Txns, Snapshot(t) PROVE SplitInv'
  <2>1. /\ isDefault' = isDefault
        /\ txn[t].at = "snapshot" /\ txn'[t].at = "clear"
        /\ txn'[t].seen = Committed /\ txn'[t].found = isDefault \ {txn[t].target}
        /\ txn'[t].target = txn[t].target
        /\ \A u \in Txns \ {t} : txn'[u] = txn[u]
    BY <1>0, <1>2 DEF Snapshot, Txn
  <2>2. Committed' = Committed
    BY <2>1 DEF Committed
  <2>3. ClearDone' /\ SeenCommitted'
    BY <2>1, <2>2 DEF SplitInv, ClearDone, SeenCommitted
  <2>4. MissedIsUnseen'
    BY <2>1, <2>2 DEF SplitInv, MissedIsUnseen, Unseen, Committed
  <2>5. OnlyOverlapSplits'
    BY <2>1, <2>2 DEF SplitInv, OnlyOverlapSplits, Committed
  <2> QED
    BY <2>3, <2>4, <2>5 DEF SplitInv
<1>3. ASSUME NEW t \in Txns, ClearOne(t) PROVE SplitInv'
  <2>1. PICK c \in txn[t].found :
          \/ txn' = [txn EXCEPT ![t].found = @ \ {c}, ![t].cleared = @ \cup (isDefault \cap {c})]
          \/ c \notin exists /\ txn' = [txn EXCEPT ![t].found = @ \ {c}]
    BY <1>3 DEF ClearOne
  <2>2. /\ isDefault' = isDefault
        /\ \A u \in Txns : /\ txn'[u].target = txn[u].target /\ txn'[u].seen = txn[u].seen
                           /\ txn'[u].at = txn[u].at
        /\ \A u \in Txns \ {t} : txn'[u] = txn[u]
        /\ txn[t].at = "clear"
    BY <1>0, <1>3, <2>1 DEF ClearOne, Txn
  <2>3. \A a \in isDefault : a \in txn[t].found \cup txn[t].cleared
                               => a \in txn'[t].found \cup txn'[t].cleared
    <3>1. /\ txn'[t].found = txn[t].found \ {c} /\ txn[t].cleared \subseteq txn'[t].cleared
          /\ c \in isDefault => c \in txn'[t].cleared
      <4>1. CASE txn' = [txn EXCEPT ![t].found = @ \ {c}, ![t].cleared = @ \cup (isDefault \cap {c})]
        BY <1>0, <4>1 DEF Txn
      <4>2. CASE c \notin exists /\ txn' = [txn EXCEPT ![t].found = @ \ {c}]
        BY <1>0, <4>2 DEF HeldInv, DefaultTypeOK, Txn
      <4> QED
        BY <2>1, <4>1, <4>2
    <3> QED
      BY <3>1
  <2>4. Committed' = Committed
    BY <2>2 DEF Committed
  <2>5. SeenCommitted' /\ OnlyOverlapSplits'
    BY <2>2, <2>4, SplitQuiet
  <2>6. ClearDone'
    BY <2>2 DEF SplitInv, ClearDone
  <2>7. MissedIsUnseen'
    BY <2>2, <2>3, <2>4 DEF SplitInv, MissedIsUnseen, Unseen
  <2> QED
    BY <2>5, <2>6, <2>7 DEF SplitInv
<1>4. ASSUME NEW t \in Txns, ClearedAll(t) PROVE SplitInv'
  <2>1. /\ isDefault' = isDefault /\ txn[t].found = {} /\ txn[t].at = "clear"
        /\ \A u \in Txns : /\ txn'[u].target = txn[u].target /\ txn'[u].seen = txn[u].seen
                           /\ txn'[u].found = txn[u].found /\ txn'[u].cleared = txn[u].cleared
        /\ txn'[t].at = "commit" /\ \A u \in Txns \ {t} : txn'[u].at = txn[u].at
    BY <1>0, <1>4 DEF ClearedAll, Goto, Txn
  <2>2. Committed' = Committed
    BY <2>1 DEF Committed
  <2>3. SeenCommitted' /\ OnlyOverlapSplits'
    BY <2>1, <2>2, SplitQuiet
  <2>4. ClearDone' /\ MissedIsUnseen'
    BY <2>1, <2>2 DEF SplitInv, ClearDone, MissedIsUnseen, Unseen
  <2> QED
    BY <2>3, <2>4 DEF SplitInv
<1>5. ASSUME NEW t \in Txns, Commit(t) PROVE SplitInv'
  <2>1. /\ isDefault' = (isDefault \ txn[t].cleared) \cup {txn[t].target}
        /\ txn[t].at = "commit" /\ txn'[t].at = "committed"
        /\ \A u \in Txns : /\ txn'[u].target = txn[u].target /\ txn'[u].seen = txn[u].seen
                           /\ txn'[u].found = txn[u].found
        /\ \A u \in Txns \ {t} : txn'[u] = txn[u]
    BY <1>0, <1>5 DEF Commit, DefaultsAfter, Goto, Txn
  <2>2. Committed' = Committed \cup {t} /\ t \notin Committed
    BY <2>1 DEF Committed
  <2>3. ClearDone' /\ SeenCommitted'
    BY <2>1, <2>2 DEF SplitInv, ClearDone, SeenCommitted
  <2>4. MissedIsUnseen'
    <3> SUFFICES ASSUME NEW u \in Txns, txn'[u].at \in {"clear", "commit"},
                        NEW a \in isDefault' \ {txn'[u].target}
                 PROVE  a \in txn'[u].found \cup txn'[u].cleared \/ Unseen(u, a)'
      BY DEF MissedIsUnseen
    <3>1. CASE a = txn[t].target
      <4>1. t \notin txn'[u].seen
        BY <2>1, <2>2 DEF SplitInv, SeenCommitted
      <4> QED
        BY <3>1, <4>1, <2>1, <2>2 DEF Unseen
    <3>2. CASE a # txn[t].target
      <4>1. a \in isDefault \ {txn[u].target} /\ txn[u].at \in {"clear", "commit"}
        BY <3>2, <2>1
      <4> QED
        BY <4>1, <2>1, <2>2 DEF SplitInv, MissedIsUnseen, Unseen
    <3> QED
      BY <3>1, <3>2
  <2>5. OnlyOverlapSplits'
    \* The pairs without the new default have their old witnesses; every other
    \* default that t left standing was committed behind its back.
    <3>1. ASSUME NEW a \in isDefault', a # txn[t].target
          PROVE  \E u \in Committed : /\ txn[u].target = a /\ u \notin txn[t].seen
                                      /\ t \notin txn[u].seen
      BY <3>1, <2>1, <2>2 DEF SplitInv, ClearDone, MissedIsUnseen, Unseen, SeenCommitted, Committed
    <3> SUFFICES ASSUME NEW a \in isDefault', NEW b \in isDefault', a # b
                 PROVE  \E v, u \in Committed' :
                          /\ txn'[v].target = a /\ txn'[u].target = b
                          /\ v \notin txn'[u].seen /\ u \notin txn'[v].seen
      BY DEF OnlyOverlapSplits
    <3>2. Committed \subseteq Txns
      BY DEF Committed
    <3>3. CASE a # txn[t].target /\ b # txn[t].target
      <4>1. PICK v \in Committed, u \in Committed :
              /\ txn[v].target = a /\ txn[u].target = b
              /\ v \notin txn[u].seen /\ u \notin txn[v].seen
        BY <3>3, <2>1 DEF SplitInv, OnlyOverlapSplits
      <4> QED
        BY <4>1, <3>2, <2>1, <2>2
    <3>4. CASE a = txn[t].target
      BY <3>1, <3>2, <3>4, <2>1, <2>2
    <3>5. CASE b = txn[t].target
      BY <3>1, <3>2, <3>5, <2>1, <2>2
    <3> QED
      BY <3>3, <3>4, <3>5
  <2> QED
    BY <2>3, <2>4, <2>5 DEF SplitInv
<1>6. ASSUME NEW c \in CVs, DeleteCV(c) PROVE SplitInv'
  <2>1. isDefault' \subseteq isDefault /\ txn' = txn /\ Committed' = Committed
    BY <1>6 DEF DeleteCV, Committed
  <2>2. SeenCommitted' /\ OnlyOverlapSplits'
    BY <2>1, SplitQuiet
  <2>3. ClearDone' /\ MissedIsUnseen'
    BY <2>1 DEF SplitInv, ClearDone, MissedIsUnseen, Unseen
  <2> QED
    BY <2>2, <2>3 DEF SplitInv
<1>7. CASE UNCHANGED vars
  BY <1>7 DEF vars, SplitInv, ClearDone, SeenCommitted, MissedIsUnseen, Unseen, OnlyOverlapSplits, Committed
<1> QED
  BY <1>1, <1>2, <1>3, <1>4, <1>5, <1>6, <1>7 DEF Next, TxnStep, BreakDeadlock

---------------------------------------------------------------------------
LEMMA HeldCorrect == Spec => []HeldInv
  BY HeldInit, HeldNext, PTL DEF Spec

\* Types, and a default flag only on a row that is there: the row lock keeps a
\* concurrent DELETE away from the CV that a running SetDefault has chosen.
THEOREM TypeCorrect == Spec => []DefaultTypeOK
<1>1. HeldInv => DefaultTypeOK
  BY DEF HeldInv
<1> QED
  BY <1>1, HeldCorrect, PTL

\* Whatever number of SetDefault calls run, two CVs are both the default only
\* when the calls that chose them overlapped (repository.go:109-131).
THEOREM OnlyOverlapSplitsCorrect == Spec => []OnlyOverlapSplits
<1>1. SplitInv => OnlyOverlapSplits
  BY DEF SplitInv
<1> QED
  BY <1>1, SplitInit, SplitNext, HeldCorrect, PTL DEF Spec
=============================================================================
