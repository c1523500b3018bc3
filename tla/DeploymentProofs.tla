-------------------------- MODULE DeploymentProofs --------------------------
(***************************************************************************)
(* Deployment for any number of migrators, files, API processes, changes   *)
(* and messages under way: what MigrateProofs shows of the migrators holds *)
(* beside the API processes, and a process never undoes its own writes to  *)
(* the snapshot.                                                           *)
(***************************************************************************)
EXTENDS Deployment, MigrateProofs

\* What one process has heard rises, and none of it is from the future.
Rising(s) ==
  /\ \A i \in 1 .. Len(s) : s[i] <= profile
  /\ \A i, j \in 1 .. Len(s) : i < j /\ s[i] # Unrelated /\ s[j] # Unrelated => s[i] < s[j]
HeardRising == \A p \in Processes : Rising(heard[p])

\* What the row's last writer still has to handle is newer than the row.
Newer(s) == \A i \in 1 .. Len(s) : s[i] # Unrelated => s[i] > snapshot
WriterAhead == \A p \in Processes : writer = p => Newer(heard[p])

SnapshotsInv == SnapshotsTypeOK /\ HeardRising /\ WriterAhead

---------------------------------------------------------------------------
LEMMA SnapshotsInvInit == SnapshotsInit => SnapshotsInv
<1> SUFFICES ASSUME SnapshotsInit PROVE SnapshotsInv
  OBVIOUS
<1>1. /\ heard \in [Processes -> Seq(Message)]
      /\ \A p \in Processes : heard[p] = <<>> /\ Len(heard[p]) = 0
  BY DEF SnapshotsInit
<1>2. SnapshotsTypeOK
  <2>1. 0 \in 0 .. MaxVersion /\ 0 \in 0 .. 0 /\ 0 <= MaxHeard
    BY SnapshotBoundsAssumption
  <2> QED
    BY <1>1, <2>1 DEF SnapshotsInit, SnapshotsTypeOK
<1>3. HeardRising /\ WriterAhead
  BY <1>1 DEF HeardRising, Rising, WriterAhead, Newer
<1> QED
  BY <1>2, <1>3 DEF SnapshotsInv

\* The messages after the first.
LEMMA AfterFirst ==
  ASSUME NEW s \in Seq(Message), s # <<>>
  PROVE  /\ Tail(s) \in Seq(Message) /\ Len(Tail(s)) = Len(s) - 1
         /\ \A i \in 1 .. Len(Tail(s)) : Tail(s)[i] = s[i + 1]
         /\ Head(s) = s[1] /\ s[1] \in Message /\ 1 \in 1 .. Len(s)
         /\ Without(s, 1) = Tail(s)
<1>1. /\ Tail(s) \in Seq(Message) /\ Len(Tail(s)) = Len(s) - 1
      /\ \A i \in 1 .. Len(Tail(s)) : Tail(s)[i] = s[i + 1]
      /\ Head(s) = s[1] /\ s[1] \in Message /\ 1 \in 1 .. Len(s)
  OBVIOUS
<1>2. Without(s, 1) = Tail(s)
  BY DEF Without
<1> QED
  BY <1>1, <1>2

\* A process that handles its first message keeps what it knew of the others.
LEMMA HandledFirst ==
  ASSUME SnapshotsInv, NEW p \in Processes, heard[p] # <<>>,
         heard' = [heard EXCEPT ![p] = Tail(@)], UNCHANGED profile
  PROVE  /\ heard' \in [Processes -> Seq(Message)]
         /\ \A q \in Processes : Len(heard'[q]) <= MaxHeard
         /\ HeardRising'
         /\ \A q \in Processes : Newer(heard[q]) => \A i \in 1 .. Len(heard'[q]) :
              heard'[q][i] # Unrelated => heard'[q][i] > snapshot
         /\ heard[p][1] # Unrelated => \A i \in 1 .. Len(heard'[p]) :
              heard'[p][i] # Unrelated => heard'[p][i] > heard[p][1]
<1> DEFINE s == heard[p]
<1>0. heard \in [Processes -> Seq(Message)] /\ s \in Seq(Message) /\ MaxHeard \in Nat
  BY SnapshotBoundsAssumption DEF SnapshotsInv, SnapshotsTypeOK
<1>1. /\ Tail(s) \in Seq(Message) /\ Len(Tail(s)) = Len(s) - 1
      /\ \A i \in 1 .. Len(Tail(s)) : Tail(s)[i] = s[i + 1]
      /\ s[1] \in Message /\ 1 \in 1 .. Len(s)
  BY <1>0, AfterFirst
<1>2. heard'[p] = Tail(s) /\ \A q \in Processes \ {p} : heard'[q] = heard[q]
  BY <1>0
<1>3. /\ Len(s) \in Nat /\ \A i \in 1 .. Len(Tail(s)) : i + 1 \in 1 .. Len(s) /\ 1 < i + 1
      /\ \A i \in 1 .. Len(s) : s[i] \in Nat
  BY <1>0, <1>1, SnapshotBoundsAssumption DEF Message
<1>4. heard' \in [Processes -> Seq(Message)] /\ \A q \in Processes : Len(heard'[q]) <= MaxHeard
  BY <1>0, <1>1, <1>2, <1>3 DEF SnapshotsInv, SnapshotsTypeOK
<1>5. HeardRising'
  <2> SUFFICES ASSUME NEW q \in Processes PROVE Rising(heard[q])'
    BY DEF HeardRising
  <2>1. Rising(heard[q])
    BY DEF SnapshotsInv, HeardRising
  <2>2. CASE q = p
    BY <2>1, <2>2, <1>1, <1>2, <1>3 DEF Rising
  <2>3. CASE q # p
    BY <2>1, <2>3, <1>2 DEF Rising
  <2> QED
    BY <2>2, <2>3
<1>6. ASSUME NEW q \in Processes, Newer(heard[q])
      PROVE  \A i \in 1 .. Len(heard'[q]) : heard'[q][i] # Unrelated => heard'[q][i] > snapshot
  BY <1>6, <1>1, <1>2, <1>3 DEF Newer
<1>7. ASSUME s[1] # Unrelated
      PROVE  \A i \in 1 .. Len(heard'[p]) : heard'[p][i] # Unrelated => heard'[p][i] > s[1]
  <2>1. Rising(s)
    BY DEF SnapshotsInv, HeardRising
  <2> SUFFICES ASSUME NEW i \in 1 .. Len(heard'[p]), heard'[p][i] # Unrelated
               PROVE  heard'[p][i] > s[1]
    OBVIOUS
  <2>2. heard'[p][i] = s[i + 1] /\ i + 1 \in 1 .. Len(s) /\ 1 < i + 1
    BY <1>1, <1>2, <1>3
  <2>3. s[1] < s[i + 1]
    BY <1>7, <2>1, <2>2, <1>1 DEF Rising
  <2> QED
    BY <2>2, <2>3, <1>1, <1>3
<1> QED
  BY <1>4, <1>5, <1>6, <1>7

\* A message is appended to some of the subscriptions.
LEMMA Delivered ==
  ASSUME SnapshotsInv, NEW version \in Message, NEW to \in SUBSET Processes,
         RoomFor(to), Deliver(version, to), UNCHANGED <<snapshot, writer, up>>,
         profile' \in Nat, profile' \in 0 .. MaxVersion, profile <= profile',
         version # Unrelated => version = profile' /\ profile < version,
         lost' \in BOOLEAN
  PROVE  SnapshotsInv'
<1>0. /\ heard \in [Processes -> Seq(Message)] /\ MaxHeard \in Nat /\ MaxVersion \in Nat
      /\ profile \in Nat /\ snapshot \in Nat /\ snapshot <= profile
  BY SnapshotBoundsAssumption DEF SnapshotsInv, SnapshotsTypeOK
<1>1. ASSUME NEW p \in Processes
      PROVE  /\ heard'[p] \in Seq(Message) /\ Len(heard'[p]) <= MaxHeard
             /\ Rising(heard[p])' /\ (writer = p => Newer(heard[p])')
  <2> DEFINE s == heard[p]
  <2>0. s \in Seq(Message) /\ Rising(s) /\ Len(s) <= MaxHeard /\ (writer = p => Newer(s))
    BY <1>0 DEF SnapshotsInv, SnapshotsTypeOK, HeardRising, WriterAhead
  <2>1. CASE p \in to
    <3>1. heard'[p] = Append(s, version) /\ Len(s) < MaxHeard
      BY <2>1 DEF Deliver, RoomFor
    <3>2. /\ Append(s, version) \in Seq(Message) /\ Len(Append(s, version)) = Len(s) + 1
          /\ \A i \in 1 .. Len(s) : Append(s, version)[i] = s[i]
          /\ Append(s, version)[Len(s) + 1] = version /\ Len(s) \in Nat
          /\ \A i \in 1 .. Len(s) : s[i] \in Message
      BY <2>0
    <3>a. /\ \A i \in 1 .. Len(s) : s[i] \in Nat /\ s[i] <= profile
          /\ version \in Nat /\ version <= profile' /\ profile' \in Nat
      BY <1>0, <2>0, <3>2 DEF Rising, Message, Unrelated
    <3>b. \A i \in 1 .. Len(s) + 1 : i \in 1 .. Len(s) \/ i = Len(s) + 1
      BY <3>2
    <3>3. Rising(heard[p])'
      <4>1. \A i \in 1 .. Len(s) + 1 : Append(s, version)[i] <= profile'
        BY <1>0, <3>2, <3>a, <3>b
      <4>2. ASSUME NEW i \in 1 .. Len(s) + 1, NEW j \in 1 .. Len(s) + 1, i < j,
                   Append(s, version)[i] # Unrelated, Append(s, version)[j] # Unrelated
            PROVE  Append(s, version)[i] < Append(s, version)[j]
        <5>1. i \in 1 .. Len(s) /\ Append(s, version)[i] = s[i]
          BY <4>2, <3>2
        <5>2. CASE j \in 1 .. Len(s)
          BY <4>2, <5>1, <5>2, <2>0, <3>2 DEF Rising
        <5>3. CASE j = Len(s) + 1
          BY <4>2, <5>1, <5>3, <1>0, <3>2, <3>a
        <5> QED
          BY <5>2, <5>3, <3>b
      <4> QED
        BY <3>1, <3>2, <4>1, <4>2 DEF Rising
    <3>4. writer = p => Newer(heard[p])'
      BY <1>0, <2>0, <3>1, <3>2, <3>a, <3>b DEF Newer
    <3> QED
      BY <1>0, <3>1, <3>2, <3>3, <3>4
  <2>2. CASE p \notin to
    <3>1. heard'[p] = s /\ \A i \in 1 .. Len(s) : s[i] \in Message
      BY <2>0, <2>2 DEF Deliver
    <3>2. Rising(heard[p])'
      BY <1>0, <2>0, <3>1 DEF Rising, Message
    <3> QED
      BY <2>0, <3>1, <3>2 DEF Newer
  <2> QED
    BY <2>1, <2>2
<1>2. heard' \in [Processes -> Seq(Message)]
  BY <1>1 DEF Deliver
<1> QED
  BY <1>0, <1>1, <1>2 DEF SnapshotsInv, SnapshotsTypeOK, HeardRising, WriterAhead

LEMMA SnapshotsInvNext ==
  ASSUME SnapshotsInv, [SnapshotsNext(SnapshotFile \in ledger)]_snapshotVars
  PROVE  SnapshotsInv' /\ [OnlyAcrossProcesses]_snapshotVars
<1>0. /\ heard \in [Processes -> Seq(Message)] /\ MaxHeard \in Nat /\ MaxVersion \in Nat
      /\ profile \in 0 .. MaxVersion /\ snapshot \in 0 .. profile
      /\ up \subseteq Processes /\ lost \in BOOLEAN
  BY SnapshotBoundsAssumption DEF SnapshotsInv, SnapshotsTypeOK
<1>1. ASSUME NEW p \in Processes, StartServe(p) PROVE SnapshotsInv' /\ snapshot' = snapshot
  BY <1>0, <1>1 DEF StartServe, SnapshotsInv, SnapshotsTypeOK, HeardRising, Rising, WriterAhead, Newer
<1>2. ASSUME NEW p \in Processes, StopServe(p) PROVE SnapshotsInv' /\ snapshot' = snapshot
  <2>1. /\ heard' \in [Processes -> Seq(Message)] /\ heard'[p] = <<>>
        /\ \A q \in Processes \ {p} : heard'[q] = heard[q]
    BY <1>0, <1>2 DEF StopServe
  <2>2. SnapshotsTypeOK'
    BY <1>0, <1>2, <2>1 DEF StopServe, SnapshotsInv, SnapshotsTypeOK
  <2>3. HeardRising' /\ WriterAhead'
    BY <1>2, <2>1 DEF StopServe, SnapshotsInv, HeardRising, Rising, WriterAhead, Newer
  <2> QED
    BY <1>2, <2>2, <2>3 DEF SnapshotsInv, StopServe
<1>3. ASSUME NEW p \in Processes, Ignore(p) PROVE SnapshotsInv' /\ snapshot' = snapshot
  <2>1. /\ heard' \in [Processes -> Seq(Message)]
        /\ \A q \in Processes : Len(heard'[q]) <= MaxHeard
        /\ HeardRising'
        /\ \A q \in Processes : Newer(heard[q]) => \A i \in 1 .. Len(heard'[q]) :
             heard'[q][i] # Unrelated => heard'[q][i] > snapshot
    BY <1>3, HandledFirst DEF Ignore
  <2>2. WriterAhead'
    BY <1>3, <2>1 DEF Ignore, SnapshotsInv, WriterAhead, Newer
  <2> QED
    BY <1>3, <2>1, <2>2 DEF Ignore, SnapshotsInv, SnapshotsTypeOK
<1>4. ASSUME NEW p \in Processes, Upsert(p, SnapshotFile \in ledger)
      PROVE  SnapshotsInv' /\ (snapshot' < snapshot => writer' # writer)
  <2>1. /\ heard[p] # <<>> /\ heard[p][1] # Unrelated
        /\ heard' = [heard EXCEPT ![p] = Without(@, 1)]
        /\ \/ snapshot' = heard[p][1] /\ writer' = p /\ UNCHANGED lost
           \/ UNCHANGED <<snapshot, writer>> /\ lost' \in BOOLEAN
        /\ UNCHANGED <<profile, up>>
    <3>1. PICK i \in Handled(p) :
            /\ heard[p][i] # Unrelated
            /\ heard' = [heard EXCEPT ![p] = Without(@, i)]
            /\ \/ snapshot' = heard[p][i] /\ writer' = p /\ UNCHANGED lost
               \/ /\ UNCHANGED <<snapshot, writer>>
                  /\ lost' = (lost \/ Latest(heard[p][i]))
      BY <1>4 DEF Upsert
    <3>2. i = 1 /\ heard[p] # <<>>
      BY <1>0, <3>1 DEF Handled
    <3> QED
      BY <1>0, <1>4, <3>1, <3>2 DEF Upsert
  <2>2. heard' = [heard EXCEPT ![p] = Tail(@)] /\ heard[p][1] \in Message /\ 1 \in 1 .. Len(heard[p])
    BY <1>0, <2>1, AfterFirst
  <2>3. /\ heard' \in [Processes -> Seq(Message)]
        /\ \A q \in Processes : Len(heard'[q]) <= MaxHeard
        /\ HeardRising'
        /\ \A q \in Processes : Newer(heard[q]) => \A i \in 1 .. Len(heard'[q]) :
             heard'[q][i] # Unrelated => heard'[q][i] > snapshot
        /\ \A i \in 1 .. Len(heard'[p]) : heard'[p][i] # Unrelated => heard'[p][i] > heard[p][1]
    BY <2>1, <2>2, HandledFirst
  <2>4. WriterAhead'
    BY <2>1, <2>3 DEF SnapshotsInv, WriterAhead, Newer
  <2>5. SnapshotsTypeOK'
    <3>1. heard[p][1] \in 0 .. profile
      BY <1>0, <2>2 DEF SnapshotsInv, HeardRising, Rising, Message
    <3> QED
      BY <1>0, <2>1, <2>3, <3>1 DEF SnapshotsInv, SnapshotsTypeOK
  <2>6. snapshot' < snapshot => writer' # writer
    <3> SUFFICES ASSUME snapshot' < snapshot, writer' = writer PROVE FALSE
      OBVIOUS
    <3>1. snapshot' = heard[p][1] /\ writer = p
      BY <1>0, <2>1
    <3>2. heard[p][1] > snapshot
      BY <2>1, <2>2, <3>1 DEF SnapshotsInv, WriterAhead, Newer
    <3> QED
      BY <1>0, <2>2, <3>1, <3>2 DEF Message
  <2> QED
    BY <2>3, <2>4, <2>5, <2>6 DEF SnapshotsInv
<1>5. ASSUME NEW missing \in SUBSET Processes, Publish(missing)
      PROVE  SnapshotsInv' /\ snapshot' = snapshot
  <2>1. /\ profile + 1 \in Message /\ up \ missing \in SUBSET Processes
        /\ profile' = profile + 1 /\ profile' \in Nat /\ profile' \in 0 .. MaxVersion
        /\ profile <= profile' /\ lost' \in BOOLEAN
    BY <1>0, <1>5 DEF Publish, Message
  <2>2. /\ RoomFor(up \ missing) /\ Deliver(profile + 1, up \ missing)
        /\ UNCHANGED <<snapshot, writer, up>>
    BY <1>5 DEF Publish
  <2>3. profile + 1 = profile' /\ profile < profile + 1
    BY <1>0, <2>1
  <2> QED
    BY <2>1, <2>2, <2>3, Delivered
<1>6. ASSUME PublishUnrelated PROVE SnapshotsInv' /\ snapshot' = snapshot
  <2>1. Unrelated \in Message /\ profile \in Nat /\ profile <= profile
    BY <1>0 DEF Message, Unrelated
  <2>2. /\ RoomFor(up) /\ Deliver(Unrelated, up)
        /\ UNCHANGED <<snapshot, writer, up>> /\ profile' = profile /\ lost' = lost
    BY <1>6 DEF PublishUnrelated
  <2> QED
    BY <1>0, <2>1, <2>2, Delivered
<1>7. CASE UNCHANGED snapshotVars
  BY <1>7 DEF snapshotVars, SnapshotsInv, SnapshotsTypeOK, HeardRising, Rising, WriterAhead, Newer
<1>8. ASSUME snapshot' = snapshot PROVE OnlyAcrossProcesses
  BY <1>0, <1>8 DEF OnlyAcrossProcesses
<1> QED
  BY <1>1, <1>2, <1>3, <1>4, <1>5, <1>6, <1>7, <1>8 DEF SnapshotsNext, Handle, OnlyAcrossProcesses

---------------------------------------------------------------------------
LEMMA SnapshotsInvCorrect == Spec => []SnapshotsInv
<1>1. Init => SnapshotsInv
  BY SnapshotsInvInit DEF Init
<1>2. SnapshotsInv /\ [Next]_vars => SnapshotsInv'
  <2>1. [Next]_vars => [SnapshotsNext(SnapshotFile \in ledger)]_snapshotVars
    BY DEF Next, vars
  <2> QED
    BY <2>1, SnapshotsInvNext
<1> QED
  BY <1>1, <1>2, PTL DEF Spec

LEMMA MigratesAlone == Spec => MigrateSpec
<1>1. Init => MigrateInit
  BY DEF Init
<1>2. [Next]_vars => [MigrateNext]_migrateVars
  BY DEF Next, vars
<1> QED
  BY <1>1, <1>2, PTL DEF Spec, MigrateSpec

\* Types of the whole rollout.
THEOREM RolloutTypeCorrect == Spec => []TypeOK
<1>1. SnapshotsInv => SnapshotsTypeOK
  BY DEF SnapshotsInv
<1>2. SnapshotsTypeOK /\ MigrateTypeOK => TypeOK
  BY DEF TypeOK
<1> QED
  BY <1>1, <1>2, SnapshotsInvCorrect, MigratesAlone, TypeCorrect, PTL

\* Migrations run once and in order beside any API processes.
THEOREM RolloutMigratesOnce == Spec => []MigrationsOnce
  BY MigratesAlone, MigrationsOnceCorrect, PTL

\* A snapshot only ever goes back to an older version when another process
\* than the row's last writer stores it (subscriber.go:38-66): with a single
\* API process the row never goes back.
THEOREM BackwardsCorrect == Spec => BackwardsOnlyAcrossProcesses
<1>1. SnapshotsInv /\ [Next]_vars => [OnlyAcrossProcesses]_snapshotVars
  <2>1. [Next]_vars => [SnapshotsNext(SnapshotFile \in ledger)]_snapshotVars
    BY DEF Next, vars
  <2> QED
    BY <2>1, SnapshotsInvNext
<1> QED
  BY <1>1, SnapshotsInvCorrect, PTL DEF Spec, BackwardsOnlyAcrossProcesses
=============================================================================
