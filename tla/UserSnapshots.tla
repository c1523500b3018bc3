---------------------------- MODULE UserSnapshots ----------------------------
(***************************************************************************)
(* The local copy of one user's profile: user-auth-service publishes each  *)
(* change on the channel events.users, and every API process that runs     *)
(* upserts what it hears, without looking at what the row holds.           *)
(*                                                                         *)
(* Pub/sub delivers a message to the connections subscribed at that        *)
(* moment, in the order published, or not at all.                          *)
(***************************************************************************)
EXTENDS Naturals, Sequences

CONSTANTS Processes,   \* API processes, of which several run during a rollout
          MaxVersion,  \* bound: changes of the profile
          MaxHeard     \* bound: messages a process has not handled yet

ASSUME SnapshotBoundsAssumption == MaxVersion \in Nat /\ MaxHeard \in Nat \ {0}

VARIABLES profile,   \* the version user-auth-service has; 0: no such user
          snapshot,  \* the version of the row in user_snapshots; 0: no row
          writer,    \* the process that wrote it last
          up,        \* the processes that run
          heard,     \* [Processes -> what its subscription has received]
          lost       \* the latest change did not reach a process, or was not stored

snapshotVars == <<profile, snapshot, writer, up, heard, lost>>

---------------------------------------------------------------------------
Nobody == "nobody"

\* A payload that does not parse, another event, or one without a user id.
Unrelated == 0
Message == 0 .. MaxVersion

SnapshotsTypeOK ==
  /\ profile \in 0 .. MaxVersion /\ snapshot \in 0 .. profile
  /\ writer \in Processes \cup {Nobody}
  /\ up \subseteq Processes
  /\ heard \in [Processes -> Seq(Message)]
  /\ \A p \in Processes : Len(heard[p]) <= MaxHeard
  /\ lost \in BOOLEAN

SnapshotsInit ==
  /\ profile = 0 /\ snapshot = 0 /\ writer = Nobody
  /\ up = {}
  /\ heard = [p \in Processes |-> <<>>]
  /\ lost = FALSE

---------------------------------------------------------------------------
Latest(message) == message # Unrelated /\ message = profile

\* runServe: the subscription starts with the process and ends with it.
StartServe(p) ==
  /\ p \notin up
  /\ up' = up \cup {p}
  /\ UNCHANGED <<profile, snapshot, writer, heard, lost>>

StopServe(p) ==
  /\ p \in up
  /\ up' = up \ {p}
  /\ heard' = [heard EXCEPT ![p] = <<>>]
  /\ lost' = (lost \/ \E i \in 1 .. Len(heard[p]) : Latest(heard[p][i]))
  /\ UNCHANGED <<profile, snapshot, writer>>

Deliver(message, to) ==
  heard' = [p \in Processes |-> IF p \in to THEN Append(heard[p], message) ELSE heard[p]]
RoomFor(to) == \A p \in to : Len(heard[p]) < MaxHeard

\* A change of the profile is published; a connection that is down, or a
\* channel buffer that is full, misses it.
Publish(missing) ==
  /\ profile < MaxVersion /\ missing \subseteq up /\ RoomFor(up \ missing)
  /\ profile' = profile + 1
  /\ Deliver(profile + 1, up \ missing)
  /\ lost' = (up = {} \/ missing # {})
  /\ UNCHANGED <<snapshot, writer, up>>

PublishUnrelated ==
  /\ up # {} /\ RoomFor(up)
  /\ Deliver(Unrelated, up)
  /\ UNCHANGED <<profile, snapshot, writer, up, lost>>

---------------------------------------------------------------------------
\* The message this process handles now: its subscription is one channel,
\* read by one goroutine.
MutAnyMessage(p) == {i \in 1 .. Len(heard[p]) : heard[p][i] # Unrelated}
Handled(p) == {i \in 1 .. Len(heard[p]) : i = 1}
Without(s, i) == SubSeq(s, 1, i - 1) \o SubSeq(s, i + 1, Len(s))

Ignore(p) ==
  /\ p \in up /\ heard[p] # <<>> /\ Head(heard[p]) = Unrelated
  /\ heard' = [heard EXCEPT ![p] = Tail(@)]
  /\ UNCHANGED <<profile, snapshot, writer, up, lost>>

\* Upsert, which the missing table, or the database, may refuse: an error is
\* logged and the message is gone.
Upsert(p, table) ==
  /\ p \in up
  /\ \E i \in Handled(p) :
       LET version == heard[p][i] IN
       /\ version # Unrelated
       /\ heard' = [heard EXCEPT ![p] = Without(@, i)]
       /\ \/ table /\ snapshot' = version /\ writer' = p /\ UNCHANGED lost
          \/ UNCHANGED <<snapshot, writer>> /\ lost' = (lost \/ Latest(version))
  /\ UNCHANGED <<profile, up>>

\* The loop of SubscribeUsers.
MutStopAtUnrelated(p, table) == Upsert(p, table)
Handle(p, table) == Ignore(p) \/ Upsert(p, table)

SnapshotsNext(table) ==
  \/ \E p \in Processes : StartServe(p) \/ StopServe(p) \/ Handle(p, table)
  \/ \E missing \in SUBSET Processes : Publish(missing)
  \/ PublishUnrelated

---------------------------------------------------------------------------
\* The upsert does not compare versions, so an old message may overwrite a
\* newer row; but only another process than the row's last writer can do that:
\* within one process the channel's order is the order of the writes.
\* (subscriber.go:38-66, user/repository.go:28-48)
OnlyAcrossProcesses == snapshot' < snapshot => writer' # writer
BackwardsOnlyAcrossProcesses == [][OnlyAcrossProcesses]_snapshotVars

\* "keeps the local user_snapshots cache in sync" (subscriber.go:30): once a
\* change has reached every process that runs and each has stored it, the row
\* stays at the profile's latest version, whatever happened to the changes
\* before it -- lost, refused by the database, stored late by another process --
\* and whatever else the channel carried in between.
SnapshotCatchesUp == <>[]~lost => <>[](snapshot = profile)
=============================================================================
