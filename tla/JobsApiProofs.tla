---------------------------- MODULE JobsApiProofs ----------------------------
(***************************************************************************)
(* JobsApi for any callers, keys, limits, users, rows and bounds: its      *)
(* types, which rest on no request reaching a handler without a user, what *)
(* applied_at of a tracked job means, and what a limiter's window admits.  *)
(***************************************************************************)
EXTENDS JobsApi, WellFoundedInduction, TLAPS

\* A request on its way has gates to pass, the second of which is Auth.
OnItsWay(q) ==
  /\ q.at = "gates" => q.call \in Calls /\ q.gate < Len(Gates(q.call.route))
  /\ q.at \notin {"idle", "gates"} => q.call \in Calls
  /\ q.at \notin {"idle", "gates"} \/ q.gate >= 2 => q.call.user \in Users
RequestsInv == request \in [Requests -> Request] /\ \A r \in Requests : OnItsWay(request[r])

Moved(h) == {i \in 1 .. Len(h) : h[i].status = "applied"}
Stamped(j) ==
  /\ jobs[j].applied = 0 => Moved(history[j]) = {}
  /\ jobs[j].applied # 0 => /\ jobs[j].applied \in Moved(history[j])
                            /\ \A k \in Moved(history[j]) : jobs[j].applied <= k
  /\ \A i \in 1 .. Len(history[j]) : history[j][i].user = jobs[j].owner
TrackerInv ==
  /\ TrackerTypeOK
  /\ \A j \in DOMAIN jobs : Stamped(j)
  /\ \A j \in JobIds \ DOMAIN jobs : history[j] = <<>>

---------------------------------------------------------------------------
(***************************************************************************)
(* The limiters.                                                           *)
(***************************************************************************)
LEMMA LimitsAreNumbers == \A k \in Keys : LimitOf(k) \in Nat \ {0}
  BY LimitAssumption, KeysAssumption DEF LimitOf

LEMMA LimitInitType == LimitInit => LimitTypeOK
  BY LimitsAreNumbers, LimitAssumption DEF LimitInit, LimitTypeOK

LEMMA IncrementType ==
  ASSUME LimitTypeOK, NEW k, Increment(k), recent' \in [Keys -> [0 .. Window - 1 -> Nat]]
  PROVE  LimitTypeOK'
<1>0. /\ count \in [Keys -> Nat] /\ left \in [Keys -> 0 .. Window]
      /\ \A l \in Keys : count[l] <= LimitOf(l) + 1 /\ (left[l] = 0 <=> count[l] = 0)
  BY DEF LimitTypeOK
<1>1. CASE k \in Keys
  <2>1. /\ count' \in [Keys -> Nat] /\ count'[k] # 0 /\ count'[k] <= LimitOf(k) + 1
        /\ \A l \in Keys \ {k} : count'[l] = count[l]
    <3>1. LimitOf(k) \in Nat \ {0} /\ count[k] \in Nat /\ count[k] <= LimitOf(k) + 1
      BY <1>0, <1>1, LimitsAreNumbers
    <3>2. count' = [count EXCEPT ![k] = IF count[k] <= LimitOf(k) THEN count[k] + 1 ELSE count[k]]
      BY DEF Increment, Counted
    <3> QED
      BY <1>0, <1>1, <3>1, <3>2
  <2>2. /\ left' \in [Keys -> 0 .. Window] /\ left'[k] # 0
        /\ \A l \in Keys \ {k} : left'[l] = left[l]
    <3>1. left' = [left EXCEPT ![k] = IF count[k] = 0 THEN Window ELSE left[k]]
      BY DEF Increment
    <3> QED
      BY <1>0, <1>1, <3>1, LimitAssumption
  <2>3. \A l \in Keys : count'[l] <= LimitOf(l) + 1 /\ (left'[l] = 0 <=> count'[l] = 0)
    BY <1>0, <2>1, <2>2
  <2> QED
    BY <2>1, <2>2, <2>3 DEF LimitTypeOK
<1>2. CASE k \notin Keys
  <2>1. count' = count /\ left' = left
    BY <1>0, <1>2 DEF Increment, Counted
  <2> QED
    BY <1>0, <2>1 DEF LimitTypeOK
<1> QED
  BY <1>1, <1>2

LEMMA AdmitType ==
  ASSUME LimitTypeOK, NEW k, Admit(k)
  PROVE  LimitTypeOK'
<1>1. recent' \in [Keys -> [0 .. Window - 1 -> Nat]]
  <2>1. recent \in [Keys -> [0 .. Window - 1 -> Nat]]
    BY DEF LimitTypeOK
  <2>2. \A f \in [0 .. Window - 1 -> Nat] : [f EXCEPT ![0] = @ + 1] \in [0 .. Window - 1 -> Nat]
    BY LimitAssumption
  <2>3. k \in Keys => [recent[k] EXCEPT ![0] = @ + 1] \in [0 .. Window - 1 -> Nat]
    BY <2>1, <2>2
  <2>4. recent' = [recent EXCEPT ![k] = [recent[k] EXCEPT ![0] = @ + 1]]
    BY Zenon DEF Admit
  <2> DEFINE new == [recent[k] EXCEPT ![0] = @ + 1]
  <2> HIDE DEF new
  <2>5. recent' = [recent EXCEPT ![k] = new] /\ (k \in Keys => new \in [0 .. Window - 1 -> Nat])
    BY <2>3, <2>4, Zenon DEF new
  <2> QED
    BY <2>1, <2>5
<1> QED
  BY <1>1, IncrementType DEF Admit

LEMMA TickType ==
  ASSUME LimitTypeOK, Tick
  PROVE  LimitTypeOK'
<1>1. /\ count' \in [Keys -> Nat] /\ \A k \in Keys : count'[k] <= LimitOf(k) + 1
      /\ left' \in [Keys -> 0 .. Window] /\ \A k \in Keys : left'[k] = 0 <=> count'[k] = 0
  BY LimitAssumption, LimitsAreNumbers DEF LimitTypeOK, Tick
<1>2. recent' \in [Keys -> [0 .. Window - 1 -> Nat]]
  <2>1. \A k \in Keys : [age \in 0 .. Window - 1 |-> IF age = 0 THEN 0 ELSE recent[k][age - 1]]
                           \in [0 .. Window - 1 -> Nat]
    <3> SUFFICES ASSUME NEW k \in Keys, NEW age \in 0 .. Window - 1, age # 0
                 PROVE  recent[k][age - 1] \in Nat
      OBVIOUS
    <3>1. recent[k] \in [0 .. Window - 1 -> Nat] /\ age - 1 \in 0 .. Window - 1
      BY LimitAssumption DEF LimitTypeOK
    <3> QED
      BY <3>1
  <2> QED
    BY <2>1 DEF Tick
<1> QED
  BY <1>1, <1>2 DEF LimitTypeOK

---------------------------------------------------------------------------
(***************************************************************************)
(* The tracker.                                                            *)
(***************************************************************************)
LEMMA FirstNumbers == 0 \in 0 .. MaxUpdates /\ \A i \in 1 .. 0 : FALSE
  BY TrackerBoundsAssumption

LEMMA RowMade ==
  ASSUME NEW user \in Users, NEW status \in Words \cup {"saved"}
  PROVE  LET row == [owner |-> user, status |-> status, applied |-> 0]
         IN  row \in Row /\ row.applied = 0
  BY FirstNumbers DEF Row

LEMMA TrackerInvInit == TrackerInit => TrackerInv
<1> SUFFICES ASSUME TrackerInit PROVE TrackerInv
  OBVIOUS
<1>1. PICK old \in SUBSET JobIds : \E owners \in [old -> Users] :
        jobs = [j \in old |-> NewRow(owners[j], "")]
  BY DEF TrackerInit
<1>2. PICK owners \in [old -> Users] : jobs = [j \in old |-> NewRow(owners[j], "")]
  BY <1>1
<1>3. /\ DOMAIN jobs = old
      /\ \A j \in old : jobs[j] = [owner |-> owners[j], status |-> "saved", applied |-> 0]
      /\ history \in [JobIds -> Seq([user : Users, status : Statuses])]
      /\ \A j \in JobIds : history[j] = <<>>
  <2>1. jobs = [j \in old |-> [owner |-> owners[j], status |-> "saved", applied |-> 0]]
    BY <1>2 DEF NewRow
  <2>2. /\ DOMAIN jobs = old
        /\ \A j \in old : jobs[j] = [owner |-> owners[j], status |-> "saved", applied |-> 0]
    BY <2>1, Zenon
  <2>3. <<>> \in Seq([user : Users, status : Statuses])
    OBVIOUS
  <2>4. history = [j \in JobIds |-> <<>>]
    BY Zenon DEF TrackerInit
  <2> QED
    BY <2>2, <2>3, <2>4
<1>4. TrackerTypeOK
  <2>1. used = old /\ DOMAIN jobs = used
    BY <1>3, Zenon DEF TrackerInit
  <2>2. \A j \in old : jobs[j] \in Row
    <3>1. 0 \in 0 .. MaxUpdates /\ "saved" \in Words \cup {"saved"}
      BY TrackerBoundsAssumption
    <3> QED
      BY <1>3, <3>1 DEF Row
  <2> QED
    BY <1>3, <2>1, <2>2 DEF TrackerTypeOK
<1> QED
  BY <1>3, <1>4 DEF TrackerInv, Stamped, Moved

LEMMA SaveInv ==
  ASSUME TrackerInv, NEW user \in Users, NEW word \in Words \cup {""}, Save(user, word)
  PROVE  TrackerInv'
<1>1. PICK j \in JobIds \ used :
        /\ jobs' = [k \in DOMAIN jobs \cup {j} |-> IF k = j THEN NewRow(user, word) ELSE jobs[k]]
        /\ used' = used \cup {j}
        /\ UNCHANGED history
  BY DEF Save
<1>2. /\ DOMAIN jobs' = DOMAIN jobs \cup {j} /\ jobs'[j] = NewRow(user, word)
      /\ j \notin DOMAIN jobs /\ \A k \in DOMAIN jobs : jobs'[k] = jobs[k]
  <2>1. j \notin DOMAIN jobs
    BY DEF TrackerInv, TrackerTypeOK
  <2> DEFINE new == NewRow(user, word)
  <2> HIDE DEF new
  <2>2. jobs' = [k \in DOMAIN jobs \cup {j} |-> IF k = j THEN new ELSE jobs[k]]
    BY <1>1 DEF new
  <2>3. DOMAIN jobs' = DOMAIN jobs \cup {j} /\ jobs'[j] = new /\ \A k \in DOMAIN jobs : jobs'[k] = jobs[k]
    BY <2>1, <2>2
  <2> QED
    BY <2>1, <2>3, Zenon DEF new
<1>3. NewRow(user, word) \in Row /\ NewRow(user, word).applied = 0
  <2> DEFINE status == IF word = "" THEN "saved" ELSE word
  <2>1. status \in Words \cup {"saved"}
    BY Zenon
  <2>2. NewRow(user, word) = [owner |-> user, status |-> status, applied |-> 0]
    BY Zenon DEF NewRow
  <2> QED
    BY <2>1, <2>2, RowMade, Zenon
<1>4. TrackerTypeOK'
  BY <1>1, <1>2, <1>3 DEF TrackerInv, TrackerTypeOK
<1>5. \A k \in DOMAIN jobs' : Stamped(k)'
  <2>1. history[j] = <<>>
    BY <1>2 DEF TrackerInv
  <2>2. Stamped(j)'
    <3>1. jobs'[j].applied = 0 /\ history'[j] = <<>> /\ Len(history'[j]) = 0
      BY <1>1, <1>2, <1>3, <2>1
    <3>2. Moved(history'[j]) = {} /\ \A i \in 1 .. Len(history'[j]) : FALSE
      BY <3>1, FirstNumbers, Zenon DEF Moved
    <3> QED
      BY <3>1, <3>2 DEF Stamped
  <2>3. \A k \in DOMAIN jobs : Stamped(k)'
    BY <1>1, <1>2 DEF TrackerInv, Stamped, Moved
  <2> QED
    BY <1>2, <2>2, <2>3
<1> QED
  BY <1>1, <1>2, <1>4, <1>5 DEF TrackerInv

LEMMA UpdateInv ==
  ASSUME TrackerInv, NEW j \in used, NEW user \in Users, NEW status \in Words,
         UpdateStatus(j, user, status)
  PROVE  TrackerInv'
<1> DEFINE row == jobs[j]
           n == Len(history[j]) + 1
           move == [user |-> user, status |-> status]
<1>1. /\ j \in DOMAIN jobs /\ j \in JobIds /\ row \in Row /\ row.owner = user /\ status \in Statuses
      /\ history[j] \in Seq([user : Users, status : Statuses]) /\ Len(history[j]) \in Nat
      /\ n \in 1 .. MaxUpdates /\ Stamped(j)
  <2>1. /\ j \in DOMAIN jobs /\ row.owner = user /\ status \in Statuses /\ Len(history[j]) < MaxUpdates
    BY DEF UpdateStatus, Owned, ValidStatus
  <2>2. /\ j \in JobIds /\ row \in Row /\ history[j] \in Seq([user : Users, status : Statuses]) /\ Stamped(j)
    BY <2>1 DEF TrackerInv, TrackerTypeOK
  <2>3. Len(history[j]) \in Nat
    BY <2>2
  <2> QED
    BY <2>1, <2>2, <2>3, TrackerBoundsAssumption
<1> DEFINE new == Updated(row, status, n)
<1>2. /\ new \in Row /\ new.owner = row.owner
      /\ new.applied = IF status = "applied" /\ row.applied = 0 THEN n ELSE row.applied
  <2>1. n \in 0 .. MaxUpdates /\ row \in [owner : Users, status : Words \cup {"saved"}, applied : 0 .. MaxUpdates]
    BY <1>1, TrackerBoundsAssumption DEF Row
  <2> HIDE DEF row, n
  <2> QED
    BY <2>1 DEF Updated, Row
<1>3. /\ DOMAIN jobs' = DOMAIN jobs /\ jobs'[j] = new
      /\ \A k \in DOMAIN jobs \ {j} : jobs'[k] = jobs[k]
  <2>1. jobs' = [jobs EXCEPT ![j] = new]
    BY DEF UpdateStatus
  <2> HIDE DEF new
  <2> QED
    BY <1>1, <2>1
<1>4. /\ history'[j] = Append(history[j], move)
      /\ \A k \in JobIds \ {j} : history'[k] = history[k]
      /\ history' \in [JobIds -> Seq([user : Users, status : Statuses])]
  <2>1. history \in [JobIds -> Seq([user : Users, status : Statuses])]
    BY DEF TrackerInv, TrackerTypeOK
  <2>2. Append(history[j], move) \in Seq([user : Users, status : Statuses])
    BY <1>1
  <2>3. history' = [history EXCEPT ![j] = Append(history[j], move)]
    BY DEF UpdateStatus
  <2> HIDE DEF move
  <2> QED
    BY <1>1, <2>1, <2>2, <2>3
<1>5. /\ Len(history'[j]) = n /\ history'[j][n] = move
      /\ \A i \in 1 .. Len(history[j]) : history'[j][i] = history[j][i]
      /\ \A i \in 1 .. n : i \in 1 .. Len(history[j]) \/ i = n
      /\ \A i \in 1 .. Len(history[j]) : i \in 1 .. n /\ i < n
  BY <1>1, <1>4
<1>6. TrackerTypeOK'
  BY <1>2, <1>3, <1>4 DEF UpdateStatus, TrackerInv, TrackerTypeOK
<1>7. Stamped(j)'
  <2>1. Moved(history'[j]) = Moved(history[j]) \cup (IF status = "applied" THEN {n} ELSE {})
    BY <1>1, <1>5 DEF Moved
  <2>2. /\ jobs'[j].owner = user
        /\ jobs'[j].applied = IF status = "applied" /\ row.applied = 0 THEN n ELSE row.applied
    BY <1>1, <1>2, <1>3
  <2>3. \A i \in 1 .. Len(history'[j]) : history'[j][i].user = user
    BY <1>1, <1>5 DEF Stamped
  <2>4. /\ jobs'[j].applied = 0 => Moved(history'[j]) = {}
        /\ jobs'[j].applied # 0 => /\ jobs'[j].applied \in Moved(history'[j])
                                  /\ \A k \in Moved(history'[j]) : jobs'[j].applied <= k
    <3>1. Moved(history[j]) \subseteq 1 .. Len(history[j])
      BY DEF Moved
    <3>2. row.applied \in Nat
      BY <1>1, TrackerBoundsAssumption DEF Row
    <3>3. CASE row.applied = 0
      BY <1>1, <1>5, <2>1, <2>2, <3>1, <3>3 DEF Stamped
    <3>4. CASE row.applied # 0
      BY <1>1, <1>5, <2>1, <2>2, <3>1, <3>2, <3>4 DEF Stamped
    <3> QED
      BY <3>3, <3>4
  <2> QED
    BY <2>2, <2>3, <2>4 DEF Stamped
<1>8. \A k \in DOMAIN jobs \ {j} : Stamped(k)'
  <2>1. DOMAIN jobs \subseteq JobIds
    BY DEF TrackerInv, TrackerTypeOK
  <2> QED
    BY <1>3, <1>4, <2>1 DEF TrackerInv, Stamped, Moved
<1> QED
  BY <1>1, <1>3, <1>4, <1>6, <1>7, <1>8 DEF TrackerInv

LEMMA DeleteInv ==
  ASSUME TrackerInv, NEW j \in used, NEW user \in Users, Delete(j, user)
  PROVE  TrackerInv'
<1>1. /\ DOMAIN jobs' = DOMAIN jobs \ {j} /\ \A k \in DOMAIN jobs \ {j} : jobs'[k] = jobs[k]
      /\ j \in JobIds /\ DOMAIN jobs \subseteq JobIds /\ UNCHANGED used
  BY DEF Delete, TrackerInv, TrackerTypeOK
<1>a. <<>> \in Seq([user : Users, status : Statuses])
  OBVIOUS
<1>2. /\ history' \in [JobIds -> Seq([user : Users, status : Statuses])]
      /\ history'[j] = <<>> /\ \A k \in JobIds \ {j} : history'[k] = history[k]
  BY <1>1, <1>a DEF Delete, TrackerInv, TrackerTypeOK
<1> QED
  BY <1>1, <1>2 DEF TrackerInv, TrackerTypeOK, Stamped, Moved

LEMMA ChangeInv ==
  ASSUME TrackerInv, NEW user \in Users, Change(user)
  PROVE  TrackerInv'
  BY SaveInv, UpdateInv, DeleteInv DEF Change

LEMMA StampMeansFirst == TrackerInv => StampIsFirst
<1> SUFFICES ASSUME TrackerInv, NEW j \in DOMAIN jobs
             PROVE  /\ jobs[j].applied = FirstApplied(history[j])
                    /\ \A i \in 1 .. Len(history[j]) : history[j][i].user = jobs[j].owner
  BY DEF StampIsFirst
<1> DEFINE moves == Moved(history[j])
<1>1. Stamped(j) /\ moves \subseteq Nat
  BY DEF TrackerInv, Moved
<1>2. FirstApplied(history[j]) =
        IF moves = {} THEN 0 ELSE CHOOSE i \in moves : \A k \in moves : i <= k
  BY DEF FirstApplied, Moved
<1>3. CASE moves = {}
  BY <1>1, <1>2, <1>3 DEF Stamped
<1>4. CASE moves # {}
  <2>1. /\ jobs[j].applied \in moves /\ \A k \in moves : jobs[j].applied <= k
    BY <1>1, <1>4 DEF Stamped
  <2>2. \A i \in moves : (\A k \in moves : i <= k) => i = jobs[j].applied
    BY <1>1, <2>1
  <2> HIDE DEF moves
  <2>3. (CHOOSE i \in moves : \A k \in moves : i <= k) = jobs[j].applied
    BY <2>1, <2>2
  <2> QED
    BY <1>1, <1>2, <1>4, <2>3 DEF Stamped
<1> QED
  BY <1>1, <1>3, <1>4 DEF Stamped
---------------------------------------------------------------------------
(***************************************************************************)
(* The requests.                                                           *)
(***************************************************************************)
LEMMA AuthIsSecond ==
  ASSUME NEW call \in Calls
  PROVE  /\ Len(Gates(call.route)) \in {3, 4} /\ Gates(call.route)[2] = "auth"
         /\ "auth" \notin Scopes /\ IdAt("auth", call) = call.user
<1>1. call.route \in Routes
  BY CallsAssumption
<1>2. Len(Gates(call.route)) \in {3, 4} /\ Gates(call.route)[2] = "auth"
  BY <1>1 DEF Routes, Gates
<1>3. "auth" \notin Scopes /\ IdAt("auth", call) = call.user
  BY DEF Scopes, IdAt, Expensive
<1> QED
  BY <1>2, <1>3

LEMMA RequestMoves ==
  ASSUME RequestsInv, NEW r \in Requests, NEW new \in Request, OnItsWay(new),
         request' = [request EXCEPT ![r] = new]
  PROVE  RequestsInv'
  BY DEF RequestsInv

LEMMA IdleType == Idle \in Request /\ OnItsWay(Idle)
<1>1. Idle.at = "idle" /\ Idle.gate = 0 /\ Idle.call = NoCall /\ Idle.hops = 0
  BY DEF Idle
<1>2. 0 \in 0 .. MaxRedirects
  BY TrackerBoundsAssumption
<1> QED
  BY <1>1, <1>2 DEF OnItsWay, Request, Idle

LEMMA ReplyInv ==
  ASSUME RequestsInv, NEW r \in Requests, Replies(r)
  PROVE  RequestsInv'
  BY IdleType, RequestMoves, Zenon DEF Replies

LEMMA PassedInv ==
  ASSUME RequestsInv, NEW r \in Requests, At(r, "gates"), Passed(r),
         Gates(request[r].call.route)[request[r].gate + 1] = "auth" => request[r].call.user \in Users
  PROVE  RequestsInv'
<1> DEFINE q == request[r]
           gates == Gates(q.call.route)
           new == [q EXCEPT !.gate = q.gate + 1, !.at = IF q.gate + 1 = Len(gates) THEN "serve" ELSE q.at]
<1>1. q \in Request /\ OnItsWay(q) /\ q.at = "gates" /\ q.call \in Calls /\ q.gate < Len(gates)
  BY DEF RequestsInv, OnItsWay, At
<1>2. Len(gates) \in {3, 4} /\ gates[2] = "auth"
  BY <1>1, AuthIsSecond
<1>3. q.gate \in 0 .. 4 /\ q.gate + 1 \in 0 .. 4
  BY <1>1, <1>2 DEF Request
<1>4. q.gate >= 1 => q.call.user \in Users
  <2>1. q.gate >= 2 => q.call.user \in Users
    BY <1>1 DEF OnItsWay
  <2>2. q.gate = 1 => q.call.user \in Users
    BY <1>2
  <2> QED
    BY <1>3, <2>1, <2>2
<1> HIDE DEF q, gates
<1>5. new \in Request /\ new.gate = q.gate + 1 /\ new.call = q.call
      /\ new.at = IF q.gate + 1 = Len(gates) THEN "serve" ELSE "gates"
  BY <1>1, <1>3 DEF Request
<1>6. OnItsWay(new)
  <2>1. new.at = "gates" => new.call \in Calls /\ new.gate < Len(Gates(new.call.route))
    BY <1>1, <1>2, <1>3, <1>5 DEF gates
  <2>2. new.at \notin {"idle", "gates"} \/ new.gate >= 2 => new.call.user \in Users
    BY <1>2, <1>3, <1>4, <1>5
  <2> QED
    BY <1>1, <1>5, <2>1, <2>2 DEF OnItsWay
<1>7. request' = [request EXCEPT ![r] = new]
  <2>1. request[r] \in Request /\ request \in [Requests -> Request]
    BY DEF RequestsInv
  <2> QED
    BY <2>1 DEF Passed, q, gates, Request
<1> HIDE DEF new
<1> QED
  BY <1>5, <1>6, <1>7, RequestMoves

\* Past the gates a request only changes the point it is at, and its hops.
LEMMA ServedInv ==
  ASSUME RequestsInv, NEW r \in Requests, NEW point \in {"serve", "fetch", "model"},
         NEW hops \in 0 .. MaxRedirects, request[r].at \notin {"idle", "gates"},
         request' = [request EXCEPT ![r].at = point, ![r].hops = hops]
  PROVE  RequestsInv'
<1> DEFINE q == request[r]
           new == [q EXCEPT !.at = point, !.hops = hops]
<1>1. q \in Request /\ OnItsWay(q) /\ q.call \in Calls /\ q.call.user \in Users
      /\ request \in [Requests -> Request]
  BY DEF RequestsInv, OnItsWay
<1>2. request' = [request EXCEPT ![r] = new]
  BY <1>1 DEF Request
<1> HIDE DEF q
<1>3. new \in Request /\ new.at = point /\ new.call = q.call /\ new.gate = q.gate
  BY <1>1 DEF Request
<1>4. OnItsWay(new)
  BY <1>1, <1>3 DEF OnItsWay
<1> HIDE DEF new
<1> QED
  BY <1>2, <1>3, <1>4, RequestMoves

---------------------------------------------------------------------------
(***************************************************************************)
(* The inductive invariant.                                                *)
(***************************************************************************)
Inv == LimitTypeOK /\ TrackerInv /\ RequestsInv

LEMMA GateInv ==
  ASSUME Inv, NEW r \in Requests, Gate(r)
  PROVE  LimitTypeOK' /\ RequestsInv'
<1> DEFINE q == request[r]
           gate == Gates(q.call.route)[q.gate + 1]
           id == IdAt(gate, q.call)
<1>1. LimitTypeOK /\ RequestsInv /\ At(r, "gates") /\ q.call \in Calls
  BY DEF Inv, RequestsInv, OnItsWay, Gate, At
<1>2. "auth" \notin Scopes /\ (gate = "auth" => id = q.call.user)
  BY <1>1, AuthIsSecond, Zenon
<1>3. \/ gate = "auth" /\ (IF id = NoId THEN Replies(r) ELSE Passed(r)) /\ UNCHANGED limitVars
      \/ gate \in Scopes /\ Passed(r) /\ UNCHANGED limitVars
      \/ /\ gate \in Scopes
         /\ \/ Admit(<<gate, id>>) /\ Passed(r)
            \/ Refuse(<<gate, id>>) /\ Replies(r)
            \/ FailOpen(<<gate, id>>) /\ Passed(r)
  BY Zenon DEF Gate
<1> HIDE DEF gate, id
<1>4. LimitTypeOK'
  <2>1. recent \in [Keys -> [0 .. Window - 1 -> Nat]]
    BY <1>1 DEF LimitTypeOK
  <2>2. ASSUME UNCHANGED limitVars PROVE LimitTypeOK'
    BY <1>1, <2>2 DEF limitVars, LimitTypeOK
  <2>3. ASSUME NEW k, Admit(k) PROVE LimitTypeOK'
    BY <1>1, <2>3, AdmitType
  <2>4. ASSUME NEW k, Refuse(k) \/ FailOpen(k) PROVE LimitTypeOK'
    <3>1. recent' \in [Keys -> [0 .. Window - 1 -> Nat]]
      BY <2>1, <2>4 DEF Refuse, FailOpen
    <3>2. CASE Increment(k)
      BY <1>1, <3>1, <3>2, IncrementType
    <3>3. CASE UNCHANGED <<count, left>>
      BY <1>1, <3>1, <3>3 DEF LimitTypeOK
    <3> QED
      BY <2>4, <3>2, <3>3 DEF Refuse, FailOpen
  <2> QED
    BY <1>3, <2>2, <2>3, <2>4, Zenon
<1>5. RequestsInv'
  <2>1. ASSUME Replies(r) PROVE RequestsInv'
    BY <1>1, <2>1, ReplyInv
  <2>2. ASSUME Passed(r), gate = "auth" => q.call.user \in Users PROVE RequestsInv'
    BY <1>1, <2>2, PassedInv, Zenon DEF gate
  <2>3. CASE gate = "auth"
    <3>1. id # NoId => q.call.user \in Users
      BY <1>1, <1>2, <2>3, CallsAssumption
    <3> QED
      BY <1>2, <1>3, <2>1, <2>2, <2>3, <3>1, Zenon
  <2>4. CASE gate # "auth"
    BY <1>3, <2>1, <2>2, <2>4, Zenon
  <2> QED
    BY <2>3, <2>4
<1> QED
  BY <1>4, <1>5

LEMMA ArriveInv ==
  ASSUME RequestsInv, NEW r \in Requests, Arrive(r)
  PROVE  RequestsInv'
<1>1. PICK call \in Calls :
        request' = [request EXCEPT ![r] = [Idle EXCEPT !.at = "gates", !.call = call]]
  BY Zenon DEF Arrive
<1> DEFINE new == [Idle EXCEPT !.at = "gates", !.call = call]
<1>2. Idle \in Request
  BY IdleType
<1>3. Idle.gate = 0
  BY DEF Idle
<1>4. new \in Request /\ new.at = "gates" /\ new.call = call /\ new.gate = 0
  BY <1>2, <1>3 DEF Request
<1> HIDE DEF new
<1>5. Len(Gates(call.route)) \in {3, 4}
  BY AuthIsSecond
<1>6. OnItsWay(new)
  BY <1>4, <1>5 DEF OnItsWay
<1>7. request' = [request EXCEPT ![r] = new]
  BY <1>1 DEF new
<1> QED
  BY <1>4, <1>6, <1>7, RequestMoves

LEMMA OperationEndsInv ==
  ASSUME RequestsInv, NEW r \in Requests, request[r].at \notin {"idle", "gates"}, OperationEnds(r)
  PROVE  RequestsInv'
<1>1. 0 \in 0 .. MaxRedirects
  BY TrackerBoundsAssumption
<1>2. CASE Replies(r)
  BY <1>2, ReplyInv
<1>3. CASE request' = [request EXCEPT ![r].at = "serve", ![r].hops = 0]
  BY <1>1, <1>3, ServedInv
<1> QED
  BY <1>2, <1>3, Zenon DEF OperationEnds

LEMMA WorkInv ==
  ASSUME RequestsInv, NEW r \in Requests,
         PrepareInterview(r) \/ AnalyzeURL(r) \/ Redirect(r) \/ Fetched(r) \/ ModelAnswers(r)
  PROVE  RequestsInv'
<1> DEFINE hops == request[r].hops
<1>1. request[r] \in Request /\ hops \in 0 .. MaxRedirects /\ request \in [Requests -> Request]
      /\ 0 \in 0 .. MaxRedirects /\ 1 \in 0 .. MaxRedirects
  BY TrackerBoundsAssumption DEF RequestsInv, Request
<1>2. ASSUME PrepareInterview(r) PROVE RequestsInv'
  <2>1. request' = [request EXCEPT ![r].at = "model", ![r].hops = hops]
    BY <1>1, <1>2 DEF PrepareInterview, Moves, Request
  <2> QED
    BY <1>1, <1>2, <2>1, ServedInv DEF PrepareInterview, At
<1>3. ASSUME AnalyzeURL(r) PROVE RequestsInv'
  BY <1>1, <1>3, ServedInv DEF AnalyzeURL, At
<1>4. ASSUME Redirect(r) PROVE RequestsInv'
  <2>1. CASE MayFollow(hops)
    <3>1. hops + 1 \in 0 .. MaxRedirects
      BY <1>1, <2>1, TrackerBoundsAssumption DEF MayFollow
    <3>2. request[r].at = "fetch" /\ request' = [request EXCEPT ![r].at = "fetch", ![r].hops = hops + 1]
      BY <1>1, <1>4, <2>1 DEF Redirect, At, Request
    <3> QED
      BY <3>1, <3>2, ServedInv
  <2>2. CASE ~ MayFollow(hops)
    <3>1. request[r].at = "fetch" /\ OperationEnds(r)
      BY <1>4, <2>2, Zenon DEF Redirect, At
    <3> QED
      BY <3>1, OperationEndsInv
  <2> QED
    BY <2>1, <2>2
<1>5. ASSUME Fetched(r) PROVE RequestsInv'
  <2>1. request[r].at = "fetch"
    BY <1>5 DEF Fetched, At
  <2>2. CASE request' = [request EXCEPT ![r].at = "model", ![r].hops = 0]
    BY <1>1, <2>1, <2>2, ServedInv
  <2>3. CASE OperationEnds(r)
    BY <2>1, <2>3, OperationEndsInv
  <2> QED
    BY <1>5, <2>2, <2>3, Zenon DEF Fetched
<1>6. ASSUME ModelAnswers(r) PROVE RequestsInv'
  BY <1>6, OperationEndsInv DEF ModelAnswers, At
<1> QED
  BY <1>2, <1>3, <1>4, <1>5, <1>6

LEMMA StepInv ==
  ASSUME Inv, NEW r \in Requests, RequestStep(r)
  PROVE  Inv'
<1>0. LimitTypeOK /\ TrackerInv /\ RequestsInv
  BY DEF Inv
<1>1. ASSUME UNCHANGED limitVars PROVE LimitTypeOK'
  BY <1>0, <1>1 DEF limitVars, LimitTypeOK
<1>2. ASSUME UNCHANGED trackerVars PROVE TrackerInv'
  BY <1>0, <1>2 DEF trackerVars, TrackerInv, TrackerTypeOK, Stamped, Moved
<1>3. CASE Gate(r)
  <2>1. UNCHANGED trackerVars
    BY <1>3, Zenon DEF Gate
  <2> QED
    BY <1>2, <1>3, <2>1, GateInv DEF Inv
<1>4. CASE ChangeTracker(r)
  <2>1. request[r].call.user \in Users
    BY <1>0, <1>4 DEF ChangeTracker, At, RequestsInv, OnItsWay
  <2>2. TrackerInv'
    BY <1>0, <1>4, <2>1, ChangeInv DEF ChangeTracker
  <2>3. RequestsInv'
    BY <1>0, <1>4, OperationEndsInv DEF ChangeTracker, At
  <2> QED
    BY <1>1, <1>4, <2>2, <2>3 DEF ChangeTracker, Inv
<1>5. CASE Arrive(r)
  BY <1>0, <1>1, <1>2, <1>5, ArriveInv DEF Arrive, Inv
<1>6. CASE PrepareInterview(r) \/ AnalyzeURL(r) \/ Redirect(r) \/ Fetched(r) \/ ModelAnswers(r)
  <2>1. UNCHANGED <<limitVars, trackerVars>>
    BY <1>6 DEF PrepareInterview, AnalyzeURL, Redirect, Fetched, ModelAnswers
  <2> QED
    BY <1>0, <1>1, <1>2, <1>6, <2>1, WorkInv DEF Inv
<1>7. CASE Reply(r)
  BY <1>0, <1>1, <1>2, <1>7, ReplyInv DEF Reply, Inv
<1> QED
  BY <1>3, <1>4, <1>5, <1>6, <1>7 DEF RequestStep

LEMMA InvHolds == Spec => []Inv
<1>1. Init => Inv
  <2> SUFFICES ASSUME Init PROVE Inv
    OBVIOUS
  <2>1. LimitTypeOK /\ TrackerInv
    BY LimitInitType, TrackerInvInit DEF Init
  <2>2. RequestsInv
    <3>1. request = [r \in Requests |-> Idle]
      BY DEF Init
    <3> QED
      BY <3>1, IdleType, Zenon DEF RequestsInv
  <2> QED
    BY <2>1, <2>2 DEF Inv
<1>2. Inv /\ [Next]_vars => Inv'
  <2> SUFFICES ASSUME Inv, [Next]_vars PROVE Inv'
    OBVIOUS
  <2>0. LimitTypeOK /\ TrackerInv /\ RequestsInv
    BY DEF Inv
  <2>1. ASSUME UNCHANGED <<trackerVars, request>> PROVE TrackerInv' /\ RequestsInv'
    BY <2>0, <2>1 DEF trackerVars, TrackerInv, TrackerTypeOK, Stamped, Moved, RequestsInv, OnItsWay
  <2>2. CASE TimePasses
    BY <2>0, <2>1, <2>2, TickType DEF TimePasses, Inv
  <2>3. CASE UNCHANGED vars
    <3>1. LimitTypeOK'
      BY <2>0, <2>3 DEF vars, limitVars, LimitTypeOK
    <3> QED
      BY <2>1, <2>3, <3>1 DEF vars, Inv
  <2> QED
    BY <2>2, <2>3, StepInv DEF Next
<1> QED
  BY <1>1, <1>2, PTL DEF Spec

\* Types: limits, the redirect budget of a fetch (safefetch.go:78-86) and the
\* tracker's columns hold, and no row gets an owner that is not a user.
THEOREM TypeCorrect == Spec => []TypeOK
<1>1. Inv => TypeOK
  BY DEF Inv, TypeOK, TrackerInv, RequestsInv
<1> QED
  BY <1>1, InvHolds, PTL

\* applied_at is the first move to "applied", and every change of a row was
\* its owner's (repository.go:71-110), for any callers and users.
THEOREM StampIsFirstCorrect == Spec => []StampIsFirst
<1>1. Inv => StampIsFirst
  BY StampMeansFirst DEF Inv
<1> QED
  BY <1>1, InvHolds, PTL

---------------------------------------------------------------------------
(***************************************************************************)
(* What a window admits.                                                   *)
(***************************************************************************)
\* Induction, with a set in place of a predicate.
LEMMA LeastNumber ==
  ASSUME NEW T, T \subseteq Nat, T # {}
  PROVE  \E n \in T : \A m \in T : ~ (m < n)
<1>1. PICK n \in T : \A m \in T : ~ (<<m, n>> \in OpToRel(<, Nat))
  BY WFMin, NatLessThanWellFounded, Zenon
<1>2. \A m \in T : <<m, n>> \in Nat \X Nat
  OBVIOUS
<1>3. \A m \in T : m < n => <<m, n>> \in OpToRel(<, Nat)
  BY <1>2, Zenon DEF OpToRel
<1> QED
  BY <1>1, <1>3

LEMMA InductionOnSet ==
  ASSUME NEW T, 0 \in T, \A n \in Nat : n \in T => n + 1 \in T
  PROVE  \A n \in Nat : n \in T
<1> SUFFICES ASSUME NEW k \in Nat, k \notin T PROVE FALSE
  OBVIOUS
<1>1. PICK n \in Nat \ T : \A m \in Nat \ T : ~ (m < n)
  BY LeastNumber
<1>2. n # 0 /\ n - 1 \in Nat /\ n - 1 < n
  OBVIOUS
<1>3. n - 1 \in T
  BY <1>1, <1>2
<1> QED
  BY <1>2, <1>3

PerAge == [0 .. Window - 1 -> Nat]

LEMMA UpToDefined ==
  ASSUME NEW f \in PerAge
  PROVE  UpTo(f) = [n \in 0 .. Window |-> IF n = 0 THEN 0 ELSE UpTo(f)[n - 1] + f[n - 1]]
<1> DEFINE Sums(g, m) == g = [n \in 0 .. m |-> IF n = 0 THEN 0 ELSE g[n - 1] + f[n - 1]]
           T == {m \in Nat : \E g : Sums(g, m)}
<1>1. 0 \in T
  <2>1. Sums([n \in 0 .. 0 |-> 0], 0)
    OBVIOUS
  <2> QED
    BY <2>1
<1>2. ASSUME NEW m \in Nat, m \in T PROVE m + 1 \in T
  <2>1. PICK g : Sums(g, m)
    BY <1>2
  <2> DEFINE h == [n \in 0 .. m + 1 |-> IF n <= m THEN g[n] ELSE g[m] + f[m]]
  <2>2. ASSUME NEW n \in 0 .. m + 1 PROVE h[n] = IF n = 0 THEN 0 ELSE h[n - 1] + f[n - 1]
    <3>1. n <= m => g[n] = IF n = 0 THEN 0 ELSE g[n - 1] + f[n - 1]
      BY <2>1
    <3>2. n > m => n = m + 1 /\ n - 1 = m /\ h[m] = g[m]
      OBVIOUS
    <3>3. n # 0 /\ n <= m => h[n - 1] = g[n - 1]
      OBVIOUS
    <3> QED
      BY <3>1, <3>2, <3>3
  <2>3. h = [n \in 0 .. m + 1 |-> IF n = 0 THEN 0 ELSE h[n - 1] + f[n - 1]]
    BY <2>2
  <2> HIDE DEF h
  <2>4. \E x : Sums(x, m + 1)
    BY <2>3
  <2> QED
    BY <2>4
<1>3. Window \in T
  <2> HIDE DEF T
  <2> QED
    BY <1>1, <1>2, InductionOnSet, LimitAssumption
<1>4. \E g : Sums(g, Window)
  BY <1>3
<1> QED
  BY <1>4 DEF UpTo

LEMMA UpToStep ==
  ASSUME NEW f \in PerAge
  PROVE  /\ UpTo(f)[0] = 0
         /\ \A n \in 0 .. Window - 1 : UpTo(f)[n + 1] = UpTo(f)[n] + f[n]
         /\ \A n \in 0 .. Window : UpTo(f)[n] \in Nat
<1>0. Window \in Nat
  BY LimitAssumption
<1>1. \A n \in 0 .. Window : UpTo(f)[n] = IF n = 0 THEN 0 ELSE UpTo(f)[n - 1] + f[n - 1]
  <2>1. PICK g : g = UpTo(f)
    OBVIOUS
  <2>2. g = [n \in 0 .. Window |-> IF n = 0 THEN 0 ELSE g[n - 1] + f[n - 1]]
    BY <2>1, UpToDefined
  <2>3. \A n \in 0 .. Window : g[n] = IF n = 0 THEN 0 ELSE g[n - 1] + f[n - 1]
    BY <2>2
  <2> QED
    BY <2>1, <2>3
<1>2. UpTo(f)[0] = 0
  BY <1>0, <1>1
<1>3. \A n \in 0 .. Window - 1 : UpTo(f)[n + 1] = UpTo(f)[n] + f[n]
  BY <1>0, <1>1
<1> DEFINE T == {n \in Nat : n <= Window => UpTo(f)[n] \in Nat}
<1>4. \A n \in Nat : n \in T => n + 1 \in T
  BY <1>0, <1>3 DEF PerAge
<1>5. \A n \in Nat : n \in T
  <2>1. 0 \in T
    BY <1>2
  <2> HIDE DEF T
  <2> QED
    BY <1>4, <2>1, InductionOnSet
<1> QED
  BY <1>0, <1>2, <1>3, <1>5

\* A tick moves every request one age up.
LEMMA UpToShift ==
  ASSUME NEW f \in PerAge, NEW g \in PerAge,
         \A age \in 0 .. Window - 1 : g[age] = IF age = 0 THEN 0 ELSE f[age - 1]
  PROVE  \A n \in 0 .. Window - 1 : UpTo(g)[n + 1] = UpTo(f)[n]
<1>0. Window \in Nat \ {0}
  BY LimitAssumption
<1>1. /\ UpTo(f)[0] = 0 /\ UpTo(g)[0] = 0
      /\ \A n \in 0 .. Window - 1 : /\ UpTo(f)[n + 1] = UpTo(f)[n] + f[n]
                                    /\ UpTo(g)[n + 1] = UpTo(g)[n] + g[n]
  BY UpToStep
<1> DEFINE T == {n \in Nat : n < Window => UpTo(g)[n + 1] = UpTo(f)[n]}
<1>2. 0 \in T
  BY <1>0, <1>1
<1>3. ASSUME NEW n \in Nat, n \in T, n + 1 < Window PROVE UpTo(g)[n + 2] = UpTo(f)[n + 1]
  <2>1. n + 1 \in 0 .. Window - 1 /\ n \in 0 .. Window - 1 /\ (n + 1) + 1 = n + 2
    BY <1>0, <1>3
  <2>2. UpTo(g)[n + 2] = UpTo(g)[n + 1] + g[n + 1]
    BY <1>1, <2>1
  <2>3. g[n + 1] = f[n]
    BY <2>1
  <2>4. UpTo(g)[n + 1] = UpTo(f)[n]
    BY <1>0, <1>3
  <2> QED
    BY <1>1, <2>1, <2>2, <2>3, <2>4
<1>4. \A n \in Nat : n \in T
  <2>1. \A n \in Nat : n \in T => n + 1 \in T
    BY <1>3
  <2> HIDE DEF T
  <2> QED
    BY <1>2, <2>1, InductionOnSet
<1> QED
  BY <1>0, <1>4

\* An admission counts from age 0 on.
LEMMA UpToBump ==
  ASSUME NEW f \in PerAge, NEW g \in PerAge,
         \A age \in 0 .. Window - 1 : g[age] = IF age = 0 THEN f[0] + 1 ELSE f[age]
  PROVE  /\ UpTo(g)[0] = 0
         /\ \A n \in 1 .. Window : UpTo(g)[n] = UpTo(f)[n] + 1
<1>0. Window \in Nat \ {0}
  BY LimitAssumption
<1>1. /\ UpTo(f)[0] = 0 /\ UpTo(g)[0] = 0
      /\ \A n \in 0 .. Window - 1 : /\ UpTo(f)[n + 1] = UpTo(f)[n] + f[n]
                                    /\ UpTo(g)[n + 1] = UpTo(g)[n] + g[n]
      /\ \A n \in 0 .. Window : UpTo(f)[n] \in Nat
  BY UpToStep
<1>t. \A n \in 0 .. Window - 1 : f[n] \in Nat
  BY DEF PerAge
<1> DEFINE T == {n \in Nat : n < Window => UpTo(g)[n + 1] = UpTo(f)[n + 1] + 1}
<1>2. 0 \in T
  BY <1>0, <1>1, <1>t
<1>3. ASSUME NEW n \in Nat, n \in T, n + 1 < Window PROVE UpTo(g)[n + 2] = UpTo(f)[n + 2] + 1
  <2>1. n + 1 \in 0 .. Window - 1 /\ n + 1 \in 0 .. Window /\ n + 1 # 0 /\ (n + 1) + 1 = n + 2
    BY <1>0, <1>3
  <2>2. UpTo(g)[n + 2] = UpTo(g)[n + 1] + g[n + 1] /\ UpTo(f)[n + 2] = UpTo(f)[n + 1] + f[n + 1]
    BY <1>1, <2>1
  <2>3. g[n + 1] = f[n + 1] /\ f[n + 1] \in Nat /\ UpTo(f)[n + 1] \in Nat
    BY <1>1, <1>t, <2>1
  <2>4. UpTo(g)[n + 1] = UpTo(f)[n + 1] + 1
    BY <1>0, <1>3
  <2> QED
    BY <2>2, <2>3, <2>4
<1>4. \A n \in Nat : n \in T
  <2>1. \A n \in Nat : n \in T => n + 1 \in T
    BY <1>3
  <2> HIDE DEF T
  <2> QED
    BY <1>2, <2>1, InductionOnSet
<1>5. ASSUME NEW n \in 1 .. Window PROVE UpTo(g)[n] = UpTo(f)[n] + 1
  <2>1. n - 1 \in Nat /\ n - 1 < Window /\ (n - 1) + 1 = n
    BY <1>0
  <2>2. n - 1 \in T
    BY <1>4, <2>1
  <2> QED
    BY <2>1, <2>2
<1> QED
  BY <1>1, <1>5

\* Where a key's admissions lie.  Its current window opened Window - left ticks
\* ago: what that window admitted is counted, and all but its opening tick stay
\* below the limit, because the request that opened it was counted as well.
\* What is older is the rest of at most one earlier window, whose opening tick
\* is no longer in the span.
WithinWindow(n, c, l, limit) ==
  /\ c = 0 => n[1] = 0 /\ n[Window] < limit
  /\ c # 0 => /\ n[Window - l] < c /\ n[Window - l] < limit
              /\ n[Window - l + 1] <= c /\ n[Window - l + 1] <= limit
              /\ n[Window] - n[Window - l + 1] < limit
Windowed == \A k \in Keys : WithinWindow(UpTo(recent[k]), count[k], left[k], LimitOf(k))

LEMMA KeyTypes ==
  ASSUME LimitTypeOK, NEW k \in Keys
  PROVE  /\ count[k] \in Nat /\ left[k] \in 0 .. Window /\ (left[k] = 0 <=> count[k] = 0)
         /\ recent[k] \in PerAge /\ LimitOf(k) \in Nat \ {0} /\ Window \in Nat \ {0}
  BY LimitsAreNumbers, LimitAssumption DEF LimitTypeOK, PerAge

\* Counting a request that is not admitted, and letting one in uncounted.
LEMMA CountedWindow ==
  ASSUME LimitTypeOK, Windowed, NEW k, Increment(k), UNCHANGED recent
  PROVE  Windowed'
<1> SUFFICES ASSUME NEW i \in Keys
             PROVE  WithinWindow(UpTo(recent'[i]), count'[i], left'[i], LimitOf(i))
  BY DEF Windowed, LimitOf
<1>0. /\ count[i] \in Nat /\ left[i] \in 0 .. Window /\ (left[i] = 0 <=> count[i] = 0)
      /\ recent[i] \in PerAge /\ LimitOf(i) \in Nat \ {0} /\ Window \in Nat \ {0}
  BY KeyTypes
<1>1. PICK n : n = UpTo(recent[i])
  OBVIOUS
<1>2. /\ n[0] = 0 /\ \A a \in 0 .. Window : n[a] \in Nat
      /\ WithinWindow(n, count[i], left[i], LimitOf(i))
  BY <1>0, <1>1, UpToStep DEF Windowed
<1>3. CASE i # k
  <2>1. count'[i] = count[i] /\ left'[i] = left[i]
    BY <1>3 DEF Increment, Counted, LimitTypeOK
  <2> QED
    BY <1>1, <1>2, <2>1
<1>4. CASE i = k
  <2>1. /\ left'[i] = IF count[i] = 0 THEN Window ELSE left[i]
        /\ count'[i] = IF count[i] <= LimitOf(i) THEN count[i] + 1 ELSE count[i]
    BY <1>4 DEF Increment, Counted, LimitTypeOK
  <2>2. WithinWindow(n, count'[i], left'[i], LimitOf(i))
    <3>1. CASE count[i] = 0
      BY <1>0, <1>2, <2>1, <3>1 DEF WithinWindow
    <3>2. CASE count[i] # 0
      <4>1. left'[i] = left[i] /\ count'[i] \in Nat /\ count'[i] >= count[i]
        BY <1>0, <2>1, <3>2
      <4>2. Window - left[i] \in 0 .. Window /\ Window - left[i] + 1 \in 0 .. Window
        BY <1>0, <3>2
      <4> QED
        BY <1>0, <1>2, <3>2, <4>1, <4>2 DEF WithinWindow
    <3> QED
      BY <3>1, <3>2
  <2> QED
    BY <1>1, <2>2
<1> QED
  BY <1>3, <1>4

LEMMA AdmittedWindow ==
  ASSUME LimitTypeOK, Windowed, NEW k, Admit(k)
  PROVE  Windowed'
<1> SUFFICES ASSUME NEW i \in Keys
             PROVE  WithinWindow(UpTo(recent'[i]), count'[i], left'[i], LimitOf(i))
  BY DEF Windowed, LimitOf
<1>0. /\ count[i] \in Nat /\ left[i] \in 0 .. Window /\ (left[i] = 0 <=> count[i] = 0)
      /\ recent[i] \in PerAge /\ LimitOf(i) \in Nat \ {0} /\ Window \in Nat \ {0}
  BY KeyTypes
<1>a. LimitTypeOK'
  BY AdmitType
<1>1. PICK n : n = UpTo(recent[i])
  OBVIOUS
<1>2. /\ n[0] = 0 /\ \A a \in 0 .. Window : n[a] \in Nat
      /\ WithinWindow(n, count[i], left[i], LimitOf(i))
  BY <1>0, <1>1, UpToStep DEF Windowed
<1>3. CASE i # k
  <2>1. count'[i] = count[i] /\ left'[i] = left[i]
    BY <1>3 DEF Admit, Increment, Counted, LimitTypeOK
  <2>2. recent'[i] = recent[i]
    BY <1>3, Zenon DEF Admit, LimitTypeOK
  <2> QED
    BY <1>1, <1>2, <2>1, <2>2
<1>4. CASE i = k
  <2>1. /\ left'[i] = IF count[i] = 0 THEN Window ELSE left[i]
        /\ count'[i] = count[i] + 1 /\ count[i] < LimitOf(i)
    BY <1>0, <1>4 DEF Admit, Within, Increment, Counted, LimitTypeOK
  <2>2. recent'[i] = [recent[i] EXCEPT ![0] = @ + 1]
    BY <1>4, Zenon DEF Admit, LimitTypeOK
  <2>3. PICK m : m = UpTo(recent'[i])
    OBVIOUS
  <2>4. recent'[i] \in PerAge
    BY <1>a DEF LimitTypeOK, PerAge
  <2>5. \A age \in 0 .. Window - 1 : recent'[i][age] = IF age = 0 THEN recent[i][0] + 1 ELSE recent[i][age]
    BY <1>0, <2>2 DEF PerAge
  <2>6. m[0] = 0 /\ \A a \in 1 .. Window : m[a] = n[a] + 1
    BY <1>0, <1>1, <2>3, <2>4, <2>5, UpToBump
  <2>7. WithinWindow(m, count'[i], left'[i], LimitOf(i))
    <3>1. CASE count[i] = 0
      <4>1. m[1] = 1 /\ n[1] = 0 /\ n[Window] < LimitOf(i) /\ m[Window] = n[Window] + 1 /\ n[Window] \in Nat
        BY <1>0, <1>2, <2>6, <3>1 DEF WithinWindow
      <4> QED
        BY <1>0, <2>1, <2>6, <3>1, <4>1 DEF WithinWindow
    <3>2. CASE count[i] # 0
      <4>1. left'[i] = left[i]
        BY <2>1, <3>2
      <4>2. PICK o \in 0 .. Window - 1 : o = Window - left[i]
        BY <1>0, <3>2
      <4>3. /\ n[o] < count[i] /\ n[o] < LimitOf(i) /\ n[o + 1] <= count[i]
            /\ n[Window] - n[o + 1] < LimitOf(i)
            /\ n[o] \in Nat /\ n[o + 1] \in Nat /\ n[Window] \in Nat
        BY <1>0, <1>2, <3>2, <4>2 DEF WithinWindow
      <4>4. m[o + 1] = n[o + 1] + 1 /\ m[Window] = n[Window] + 1 /\ (o # 0 => m[o] = n[o] + 1)
        BY <1>0, <2>6, <4>2
      <4>5. m[o] < count'[i] /\ m[o] < LimitOf(i)
        BY <1>0, <2>1, <2>6, <4>3, <4>4
      <4>6. m[o + 1] <= count'[i] /\ m[o + 1] <= LimitOf(i) /\ m[Window] - m[o + 1] < LimitOf(i)
        BY <1>0, <2>1, <4>3, <4>4
      <4> QED
        BY <1>0, <2>1, <4>1, <4>2, <4>5, <4>6 DEF WithinWindow
    <3> QED
      BY <3>1, <3>2
  <2> QED
    BY <2>3, <2>7
<1> QED
  BY <1>3, <1>4

LEMMA TickedWindow ==
  ASSUME LimitTypeOK, Windowed, Tick
  PROVE  Windowed'
<1> SUFFICES ASSUME NEW i \in Keys
             PROVE  WithinWindow(UpTo(recent'[i]), count'[i], left'[i], LimitOf(i))
  BY DEF Windowed, LimitOf
<1>0. /\ count[i] \in Nat /\ left[i] \in 0 .. Window /\ (left[i] = 0 <=> count[i] = 0)
      /\ recent[i] \in PerAge /\ LimitOf(i) \in Nat \ {0} /\ Window \in Nat \ {0}
  BY KeyTypes
<1>1. PICK n : n = UpTo(recent[i])
  OBVIOUS
<1>2. /\ n[0] = 0 /\ \A a \in 0 .. Window : n[a] \in Nat
      /\ \A a \in 0 .. Window - 1 : n[a + 1] = n[a] + recent[i][a]
      /\ WithinWindow(n, count[i], left[i], LimitOf(i))
  BY <1>0, <1>1, UpToStep DEF Windowed
<1>3. recent'[i] \in PerAge
  <2>1. LimitTypeOK'
    BY TickType
  <2> QED
    BY <2>1 DEF LimitTypeOK, PerAge
<1>4. \A age \in 0 .. Window - 1 : recent'[i][age] = IF age = 0 THEN 0 ELSE recent[i][age - 1]
  BY DEF Tick
<1>5. PICK m : m = UpTo(recent'[i])
  OBVIOUS
<1>6. m[0] = 0 /\ \A a \in 0 .. Window - 1 : m[a + 1] = n[a]
  BY <1>0, <1>1, <1>3, <1>4, <1>5, UpToShift, UpToStep
<1>7. /\ m[1] = 0 /\ m[Window] = n[Window - 1]
      /\ n[Window - 1] \in Nat /\ n[Window] \in Nat /\ n[Window - 1] <= n[Window]
  <2>1. Window - 1 \in 0 .. Window - 1 /\ (Window - 1) + 1 = Window /\ 0 \in 0 .. Window - 1
    BY <1>0
  <2>2. recent[i][Window - 1] \in Nat
    BY <1>0, <2>1 DEF PerAge
  <2>3. n[Window] = n[Window - 1] + recent[i][Window - 1]
    BY <1>2, <2>1
  <2>4. m[Window] = n[Window - 1] /\ m[0 + 1] = n[0]
    BY <1>6, <2>1
  <2> QED
    BY <1>0, <1>2, <2>1, <2>2, <2>3, <2>4
<1>8. /\ count'[i] = IF left[i] <= 1 THEN 0 ELSE count[i]
      /\ left'[i] = IF left[i] = 0 THEN 0 ELSE left[i] - 1
  BY DEF Tick
<1>9. WithinWindow(m, count'[i], left'[i], LimitOf(i))
  <2>1. CASE count[i] = 0
    BY <1>0, <1>2, <1>7, <1>8, <2>1 DEF WithinWindow
  <2>2. CASE count[i] # 0 /\ left[i] = 1
    BY <1>0, <1>2, <1>7, <1>8, <2>2 DEF WithinWindow
  <2>3. CASE count[i] # 0 /\ left[i] # 1
    <3>1. PICK o \in 0 .. Window - 2 : o = Window - left[i]
      BY <1>0, <2>3
    <3>2. count'[i] = count[i] /\ Window - left'[i] = o + 1 /\ count'[i] # 0
      BY <1>0, <1>8, <2>3, <3>1
    <3>3. /\ n[o] < count[i] /\ n[o] < LimitOf(i) /\ n[o + 1] <= count[i] /\ n[o + 1] <= LimitOf(i)
          /\ n[Window] - n[o + 1] < LimitOf(i) /\ n[o + 1] \in Nat
      BY <1>0, <1>2, <2>3, <3>1 DEF WithinWindow
    <3>4. m[o + 1] = n[o] /\ m[(o + 1) + 1] = n[o + 1]
      BY <1>0, <1>6, <3>1
    <3>5. m[Window] - m[(o + 1) + 1] < LimitOf(i)
      BY <1>0, <1>7, <3>3, <3>4
    <3> QED
      BY <3>2, <3>3, <3>4, <3>5 DEF WithinWindow
  <2> QED
    BY <2>1, <2>2, <2>3
<1> QED
  BY <1>5, <1>9

\* Whatever the callers do, a limiter admits at most 2 * Limit - 1 requests of
\* a key in any span as long as its window (ratelimit.New).
THEOREM WindowBoundCorrect == Spec => []WindowBound
<1>1. Init => Windowed
  <2> SUFFICES ASSUME LimitInit, NEW k \in Keys
               PROVE  WithinWindow(UpTo(recent[k]), count[k], left[k], LimitOf(k))
    BY DEF Init, Windowed
  <2>1. recent[k] \in PerAge /\ count[k] = 0 /\ LimitOf(k) \in Nat \ {0} /\ Window \in Nat \ {0}
    BY KeyTypes, LimitInitType DEF LimitInit
  <2>2. PICK n : n = UpTo(recent[k])
    OBVIOUS
  <2>3. n[0] = 0 /\ \A a \in 0 .. Window - 1 : n[a + 1] = n[a] + recent[k][a]
    BY <2>1, <2>2, UpToStep
  <2>4. \A a \in 0 .. Window - 1 : recent[k][a] = 0
    BY DEF LimitInit
  <2> DEFINE T == {a \in Nat : a <= Window => n[a] = 0}
  <2>5. 0 \in T /\ \A a \in Nat : a \in T => a + 1 \in T
    BY <2>1, <2>3, <2>4
  <2>6. \A a \in Nat : a \in T
    <3> HIDE DEF T
    <3> QED
      BY <2>5, InductionOnSet
  <2>7. n[1] = 0 /\ n[Window] = 0
    BY <2>1, <2>6
  <2> QED
    BY <2>1, <2>2, <2>7 DEF WithinWindow
<1>2. LimitTypeOK /\ Windowed /\ [Next]_vars => Windowed'
  <2> SUFFICES ASSUME LimitTypeOK, Windowed, [Next]_vars PROVE Windowed'
    OBVIOUS
  <2>1. ASSUME NEW r \in Requests, Gate(r) PROVE Windowed'
    <3>1. ASSUME UNCHANGED limitVars PROVE Windowed'
      BY <3>1 DEF limitVars, Windowed, LimitOf
    <3>2. \/ UNCHANGED limitVars
          \/ \E k : Admit(k) \/ (Increment(k) /\ UNCHANGED recent)
      BY <2>1 DEF Gate, Refuse, FailOpen, limitVars
    <3> QED
      BY <3>1, <3>2, AdmittedWindow, CountedWindow
  <2>2. CASE TimePasses
    BY <2>2, TickedWindow DEF TimePasses
  <2>3. CASE UNCHANGED limitVars
    BY <2>3 DEF limitVars, Windowed, LimitOf
  <2> QED
    BY <2>1, <2>2, <2>3 DEF Next, RequestStep, Arrive, ChangeTracker, PrepareInterview, AnalyzeURL, Reply,
       Redirect, Fetched, ModelAnswers, vars
<1>3. LimitTypeOK /\ Windowed => WindowBound
  <2> SUFFICES ASSUME LimitTypeOK, Windowed, NEW k \in Keys
               PROVE  UpTo(recent[k])[Window] <= 2 * LimitOf(k) - 1
    BY DEF WindowBound, Sum
  <2>1. /\ count[k] \in Nat /\ left[k] \in 0 .. Window /\ (left[k] = 0 <=> count[k] = 0)
        /\ recent[k] \in PerAge /\ LimitOf(k) \in Nat \ {0} /\ Window \in Nat \ {0}
    BY KeyTypes
  <2>2. PICK n : n = UpTo(recent[k])
    OBVIOUS
  <2>3. /\ \A a \in 0 .. Window : n[a] \in Nat
        /\ WithinWindow(n, count[k], left[k], LimitOf(k))
    BY <2>1, <2>2, UpToStep DEF Windowed
  <2>4. n[Window] <= 2 * LimitOf(k) - 1
    <3>1. CASE count[k] = 0
      BY <2>1, <2>3, <3>1 DEF WithinWindow
    <3>2. CASE count[k] # 0
      <4>1. n[Window] \in Nat /\ n[Window - left[k] + 1] \in Nat
        BY <2>1, <2>3, <3>2
      <4> QED
        BY <2>1, <2>3, <3>2, <4>1 DEF WithinWindow
    <3> QED
      BY <3>1, <3>2
  <2> QED
    BY <2>2, <2>4
<1>4. Inv => LimitTypeOK
  BY DEF Inv
<1> QED
  BY <1>1, <1>2, <1>3, <1>4, InvHolds, PTL DEF Spec
=============================================================================
