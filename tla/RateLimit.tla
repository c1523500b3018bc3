------------------------------ MODULE RateLimit ------------------------------
(***************************************************************************)
(* The fixed-window rate limiters in front of the API (ratelimit.New) and  *)
(* the chain they form with authentication on each route (NewApp).         *)
(*                                                                         *)
(* A limiter's key in Redis counts requests and expires Window ticks after *)
(* its first one; counting and setting the expiry is one Lua script.  An   *)
(* error of Redis lets the request through, whether it was counted or not. *)
(***************************************************************************)
EXTENDS Naturals, Sequences

CONSTANTS Keys,     \* <<scope, id>>, an id being a user or a routable address
          NoId,     \* no id: a private address, or a request without a user
          Limit,    \* [Scopes -> what the configuration allows per window]
          Window    \* a window, in ticks

Scopes == {"ip", "user", "chat", "search"}
ASSUME LimitAssumption == Limit \in [Scopes -> Nat \ {0}] /\ Window \in Nat \ {0}
ASSUME KeysAssumption == \A k \in Keys : Len(k) = 2 /\ k[1] \in Scopes /\ k[2] # NoId

VARIABLES count,  \* the counter of a key; 0: there is no such key
          left,   \* ticks until it expires
          recent  \* how many requests it admitted 0, 1, ... Window - 1 ticks ago

limitVars == <<count, left, recent>>

---------------------------------------------------------------------------
LimitOf(k) == Limit[k[1]]

\* Past the limit the counter's value makes no difference: it stops at Limit + 1.
LimitTypeOK ==
  /\ count \in [Keys -> Nat] /\ \A k \in Keys : count[k] <= LimitOf(k) + 1
  /\ left \in [Keys -> 0 .. Window] /\ \A k \in Keys : left[k] = 0 <=> count[k] = 0
  /\ recent \in [Keys -> [0 .. Window - 1 -> Nat]]

LimitInit ==
  /\ count = [k \in Keys |-> 0]
  /\ left = [k \in Keys |-> 0]
  /\ recent = [k \in Keys |-> [age \in 0 .. Window - 1 |-> 0]]

---------------------------------------------------------------------------
\* What a request passes on its way to the handler, and the id a limiter
\* counts it under.  The tighter limiters count the expensive call only.
Gates(route) ==
  CASE route = "jobs" -> <<"ip", "auth", "user">>
    [] route \in {"send", "conversations"} -> <<"ip", "auth", "user", "chat">>
    [] route \in {"search", "history"} -> <<"ip", "auth", "user", "search">>

Expensive == [chat |-> "send", search |-> "search"]
IdAt(gate, call) ==
  CASE gate = "ip" -> call.ip
    [] gate \in DOMAIN Expensive /\ call.route # Expensive[gate] -> NoId
    [] OTHER -> call.user

\* incrWindow: INCR, and PEXPIRE on first use.
Counted(k) == count' = [count EXCEPT ![k] = IF @ <= LimitOf(k) THEN @ + 1 ELSE @]
MutRefreshExpiry(k) == Counted(k) /\ left' = [left EXCEPT ![k] = Window]
Increment(k) == Counted(k) /\ left' = [left EXCEPT ![k] = IF count[k] = 0 THEN Window ELSE @]

MutAdmitOneMore(k) == count[k] <= LimitOf(k)
Within(k) == count[k] < LimitOf(k)

Admit(k) ==
  /\ Within(k)
  /\ Increment(k)
  /\ recent' = [recent EXCEPT ![k][0] = @ + 1]

Refuse(k) == ~ Within(k) /\ Increment(k) /\ UNCHANGED recent

FailOpen(k) == (Increment(k) \/ UNCHANGED <<count, left>>) /\ UNCHANGED recent

\* Time passes and keys expire.
Tick ==
  /\ count' = [k \in Keys |-> IF left[k] <= 1 THEN 0 ELSE count[k]]
  /\ left' = [k \in Keys |-> IF left[k] = 0 THEN 0 ELSE left[k] - 1]
  /\ recent' = [k \in Keys |-> [age \in 0 .. Window - 1 |->
                                  IF age = 0 THEN 0 ELSE recent[k][age - 1]]]

---------------------------------------------------------------------------
\* What the limit is worth.  A fixed window lets two bursts meet at its end,
\* but being anchored at its first request it admits at most 2 * Limit - 1
\* requests in any span as long as a window (Redis errors aside).  UpTo(f)[n]
\* is how many of the requests in f are younger than n ticks.
UpTo(f) ==
  LET upTo[n \in 0 .. Window] == IF n = 0 THEN 0 ELSE upTo[n - 1] + f[n - 1]
  IN upTo
Sum(f) == UpTo(f)[Window]
WindowBound == \A k \in Keys : Sum(recent[k]) <= 2 * LimitOf(k) - 1

\* "slow down a moment": a caller that is refused is admitted again, even one
\* that never stops calling.
ThrottleEnds == \A k \in Keys : ~ Within(k) ~> Within(k)
=============================================================================
