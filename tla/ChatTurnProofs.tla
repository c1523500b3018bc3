--------------------------- MODULE ChatTurnProofs ---------------------------
(***************************************************************************)
(* ChatTurn and ToolCalls for any number of turns, iterations and calls (an *)
(* answer has three at most): types; the tools that run are the calls that *)
(* were meant, in whatever fragments they came; the grammar of the frames; *)
(* each context answers its tool calls and holds the question; and a reload *)
(* shows what was streamed.                                                *)
(***************************************************************************)
EXTENDS ChatTurn, SequenceTheorems, FiniteSetTheorems, WellFoundedInduction, TLAPS

---------------------------------------------------------------------------
(***************************************************************************)
(* Induction over the natural numbers, with a set in place of a predicate. *)
(***************************************************************************)
LEMMA SmallestNumber ==
  ASSUME NEW T, T \subseteq Nat, T # {}
  PROVE  \E n \in T : \A m \in T : ~ (m < n)
<1>1. PICK n \in T : \A m \in T : ~ (<<m, n>> \in OpToRel(<, Nat))
  BY WFMin, NatLessThanWellFounded, Zenon
<1>2. \A m \in T : m < n => <<m, n>> \in OpToRel(<, Nat)
  <2>1. \A m \in T : <<m, n>> \in Nat \X Nat
    OBVIOUS
  <2> QED
    BY <2>1, Zenon DEF OpToRel
<1> QED
  BY <1>1, <1>2

LEMMA EveryNumber ==
  ASSUME NEW T, 0 \in T, \A n \in Nat : n \in T => n + 1 \in T
  PROVE  \A n \in Nat : n \in T
<1> SUFFICES ASSUME NEW k \in Nat, k \notin T PROVE FALSE
  OBVIOUS
<1>1. PICK n \in Nat \ T : \A m \in Nat \ T : ~ (m < n)
  BY SmallestNumber
<1>2. n # 0 /\ n - 1 \in Nat /\ n - 1 < n
  OBVIOUS
<1> QED
  BY <1>1, <1>2

---------------------------------------------------------------------------
(***************************************************************************)
(* What Only returns.                                                      *)
(***************************************************************************)
LEMMA FilteredDefined ==
  ASSUME NEW S, NEW s \in Seq(S), NEW K
  PROVE  /\ Filtered(s, K)[0] = <<>>
         /\ \A n \in 1 .. Len(s) :
              Filtered(s, K)[n] = IF s[n] \in K THEN Append(Filtered(s, K)[n - 1], s[n])
                                  ELSE Filtered(s, K)[n - 1]
<1> DEFINE Runs(g, m) == g = [n \in 0 .. m |->
                               IF n = 0 THEN <<>>
                               ELSE IF s[n] \in K THEN Append(g[n - 1], s[n]) ELSE g[n - 1]]
           T == {m \in Nat : \E g : Runs(g, m)}
<1>1. 0 \in T
  <2>1. Runs([n \in 0 .. 0 |-> <<>>], 0)
    OBVIOUS
  <2> QED
    BY <2>1
<1>2. ASSUME NEW m \in Nat, m \in T PROVE m + 1 \in T
  <2>1. PICK g : Runs(g, m)
    BY <1>2
  <2> DEFINE h == [n \in 0 .. m + 1 |->
                     IF n <= m THEN g[n]
                     ELSE IF s[m + 1] \in K THEN Append(g[m], s[m + 1]) ELSE g[m]]
  <2>2. ASSUME NEW n \in 0 .. m + 1
        PROVE  h[n] = IF n = 0 THEN <<>>
                      ELSE IF s[n] \in K THEN Append(h[n - 1], s[n]) ELSE h[n - 1]
    <3>1. n <= m => g[n] = IF n = 0 THEN <<>>
                           ELSE IF s[n] \in K THEN Append(g[n - 1], s[n]) ELSE g[n - 1]
      <4>1. n <= m => n \in 0 .. m
        OBVIOUS
      <4> QED
        BY <2>1, <4>1, Zenon
    <3>2. n > m => n = m + 1 /\ n - 1 = m /\ h[m] = g[m]
      OBVIOUS
    <3>3. n # 0 /\ n <= m => h[n - 1] = g[n - 1]
      OBVIOUS
    <3> QED
      BY <3>1, <3>2, <3>3
  <2>3. Runs(h, m + 1)
    BY <2>2
  <2> HIDE DEF h
  <2>4. \E x : Runs(x, m + 1)
    BY <2>3
  <2> QED
    BY <2>4
<1>3. Len(s) \in T
  <2> HIDE DEF T
  <2> QED
    BY <1>1, <1>2, EveryNumber, LenProperties
<1>4. \E g : Runs(g, Len(s))
  BY <1>3
<1>5. PICK g : g = Filtered(s, K)
  OBVIOUS
<1>6. Runs(g, Len(s))
  BY <1>4, <1>5 DEF Filtered
<1>7. 0 \in 0 .. Len(s) /\ \A n \in 1 .. Len(s) : n \in 0 .. Len(s) /\ n # 0
  BY LenProperties
<1>8. g[0] = <<>> /\ \A n \in 1 .. Len(s) : g[n] = IF s[n] \in K THEN Append(g[n - 1], s[n]) ELSE g[n - 1]
  BY <1>6, <1>7, Zenon
<1> QED
  BY <1>5, <1>8

\* It selects: every element is one of the sequence and in the set, in a
\* sequence that is not longer, and none is left out.
LEMMA OnlySelects ==
  ASSUME NEW S, NEW s \in Seq(S), NEW K
  PROVE  /\ Only(s, K) \in Seq(S \cap K)
         /\ Len(Only(s, K)) <= Len(s)
         /\ \A n \in 1 .. Len(s) : s[n] \in K => \E i \in 1 .. Len(Only(s, K)) : Only(s, K)[i] = s[n]
<1>0. Len(s) \in Nat /\ \A n \in 1 .. Len(s) : s[n] \in S
  BY LenProperties, ElementOfSeq
<1>1. PICK f : f = Filtered(s, K)
  OBVIOUS
<1>2. /\ f[0] = <<>>
      /\ \A n \in 1 .. Len(s) : f[n] = IF s[n] \in K THEN Append(f[n - 1], s[n]) ELSE f[n - 1]
  BY <1>1, FilteredDefined
<1> DEFINE Covers(g, m) == \A n \in 1 .. m : s[n] \in K => \E i \in 1 .. Len(g) : g[i] = s[n]
           T == {m \in Nat : m <= Len(s) =>
                   f[m] \in Seq(S \cap K) /\ Len(f[m]) <= m /\ Covers(f[m], m)}
<1>3. 0 \in T
  <2>1. f[0] \in Seq(S \cap K) /\ Len(f[0]) <= 0
    BY <1>2, EmptySeq
  <2>2. Covers(f[0], 0)
    OBVIOUS
  <2> QED
    BY <2>1, <2>2
<1>4. ASSUME NEW m \in Nat, m \in T PROVE m + 1 \in T
  <2> SUFFICES ASSUME m + 1 <= Len(s)
               PROVE  f[m + 1] \in Seq(S \cap K) /\ Len(f[m + 1]) <= m + 1 /\ Covers(f[m + 1], m + 1)
    OBVIOUS
  <2>1. PICK g : g = f[m]
    OBVIOUS
  <2>2. g \in Seq(S \cap K) /\ Len(g) <= m /\ Covers(g, m) /\ Len(g) \in Nat
    BY <1>0, <1>4, <2>1, LenProperties
  <2>3. m + 1 \in 1 .. Len(s) /\ (m + 1) - 1 = m
    BY <1>0
  <2>4. f[m + 1] = IF s[m + 1] \in K THEN Append(g, s[m + 1]) ELSE g
    BY <1>2, <2>1, <2>3
  <2>5. CASE s[m + 1] \in K
    <3>1. PICK e \in S \cap K : e = s[m + 1]
      BY <1>0, <2>3, <2>5
    <3>2. PICK h : h = Append(g, e)
      OBVIOUS
    <3>3. /\ h \in Seq(S \cap K) /\ Len(h) = Len(g) + 1 /\ h[Len(g) + 1] = e
          /\ \A i \in 1 .. Len(g) : h[i] = g[i]
      BY <2>2, <3>1, <3>2, AppendProperties
    <3>4. ASSUME NEW n \in 1 .. m + 1, s[n] \in K PROVE \E i \in 1 .. Len(h) : h[i] = s[n]
      <4>1. CASE n = m + 1
        <5>1. Len(g) + 1 \in 1 .. Len(h)
          BY <2>2, <3>3
        <5> QED
          BY <3>1, <3>3, <4>1, <5>1
      <4>2. CASE n # m + 1
        <5>1. PICK i \in 1 .. Len(g) : g[i] = s[n]
          BY <2>2, <3>4, <4>2
        <5>2. i \in 1 .. Len(h)
          BY <2>2, <3>3
        <5> QED
          BY <3>3, <5>1, <5>2
      <4> QED
        BY <4>1, <4>2
    <3>5. f[m + 1] = h
      BY <2>4, <2>5, <3>1, <3>2
    <3>6. Len(h) <= m + 1
      BY <2>2, <3>3
    <3> QED
      BY <3>3, <3>4, <3>5, <3>6
  <2>6. CASE s[m + 1] \notin K
    <3>1. f[m + 1] = g
      BY <2>4, <2>6
    <3>2. Covers(g, m + 1)
      BY <2>2, <2>6
    <3> QED
      BY <2>2, <3>1, <3>2
  <2> QED
    BY <2>5, <2>6
<1>5. Len(s) \in T
  <2> HIDE DEF T
  <2> QED
    BY <1>0, <1>3, <1>4, EveryNumber
<1>6. Only(s, K) = f[Len(s)]
  BY <1>1 DEF Only
<1> QED
  BY <1>0, <1>5, <1>6

\* It works from left to right.
LEMMA OnlyAppend ==
  ASSUME NEW S, NEW s \in Seq(S), NEW e \in S, NEW K
  PROVE  Only(Append(s, e), K) = IF e \in K THEN Append(Only(s, K), e) ELSE Only(s, K)
<1>1. PICK r : r = Append(s, e)
  OBVIOUS
<1>2. /\ r \in Seq(S) /\ Len(r) = Len(s) + 1 /\ r[Len(s) + 1] = e /\ Len(s) \in Nat
      /\ \A n \in 1 .. Len(s) : r[n] = s[n]
  BY <1>1, AppendProperties, LenProperties
<1>3. PICK f : f = Filtered(s, K)
  OBVIOUS
<1>4. PICK g : g = Filtered(r, K)
  OBVIOUS
<1>5. /\ f[0] = <<>>
      /\ \A n \in 1 .. Len(s) : f[n] = IF s[n] \in K THEN Append(f[n - 1], s[n]) ELSE f[n - 1]
  BY <1>3, FilteredDefined
<1>6. /\ g[0] = <<>>
      /\ \A n \in 1 .. Len(r) : g[n] = IF r[n] \in K THEN Append(g[n - 1], r[n]) ELSE g[n - 1]
  BY <1>2, <1>4, FilteredDefined
<1> DEFINE T == {n \in Nat : n <= Len(s) => f[n] = g[n]}
<1>7. 0 \in T
  BY <1>5, <1>6
<1>8. ASSUME NEW n \in Nat, n \in T PROVE n + 1 \in T
  <2> SUFFICES ASSUME n + 1 <= Len(s) PROVE f[n + 1] = g[n + 1]
    OBVIOUS
  <2>1. n + 1 \in 1 .. Len(s) /\ n + 1 \in 1 .. Len(r) /\ (n + 1) - 1 = n
    BY <1>2
  <2>2. f[n] = g[n]
    BY <1>8, <1>2
  <2>3. /\ f[n + 1] = IF s[n + 1] \in K THEN Append(f[n], s[n + 1]) ELSE f[n]
        /\ g[n + 1] = IF r[n + 1] \in K THEN Append(g[n], r[n + 1]) ELSE g[n]
    BY <1>5, <1>6, <2>1
  <2> QED
    BY <1>2, <2>1, <2>2, <2>3
<1>9. f[Len(s)] = g[Len(s)]
  <2>1. Len(s) \in T
    <3> HIDE DEF T
    <3> QED
      BY <1>2, <1>7, <1>8, EveryNumber
  <2> QED
    BY <1>2, <2>1
<1>10. g[Len(s) + 1] = IF e \in K THEN Append(g[Len(s)], e) ELSE g[Len(s)]
  <2>1. Len(s) + 1 \in 1 .. Len(r) /\ (Len(s) + 1) - 1 = Len(s)
    BY <1>2
  <2> QED
    BY <1>2, <1>6, <2>1
<1> QED
  BY <1>1, <1>2, <1>3, <1>4, <1>9, <1>10 DEF Only

LEMMA OnlyEmpty == ASSUME NEW K PROVE Only(<<>>, K) = <<>>
<1>1. <<>> \in Seq({}) /\ Len(<<>>) = 0
  BY EmptySeq
<1> QED
  BY <1>1, FilteredDefined DEF Only
---------------------------------------------------------------------------
(***************************************************************************)
(* StreamChat's receiver.                                                  *)
(***************************************************************************)
LEMMA ListOf ==
  ASSUME NEW S, NEW n \in Nat, NEW f \in [1 .. n -> S]
  PROVE  f \in Seq(S) /\ Len(f) = n
<1>1. f \in Seq(S)
  BY SeqDef
<1>2. DOMAIN f = 1 .. Len(f) /\ Len(f) \in Nat
  BY <1>1, LenProperties
<1> QED
  BY <1>1, <1>2

\* How often a call has had its turn.
LEMMA TakenStep ==
  ASSUME NEW s, NEW k
  PROVE  /\ Taken(s, k, 0) = 0
         /\ \A n \in Nat : /\ Taken(s, k, n) \in Nat
                           /\ s[n + 1] = k => Taken(s, k, n + 1) = Taken(s, k, n) + 1
                           /\ s[n + 1] # k => Taken(s, k, n + 1) = Taken(s, k, n)
         /\ \A m, n \in Nat : m <= n => Taken(s, k, m) <= Taken(s, k, n)
<1> DEFINE Where(n) == {i \in 1 .. n : s[i] = k}
<1>1. ASSUME NEW n \in Nat PROVE IsFiniteSet(Where(n)) /\ Cardinality(Where(n)) \in Nat
  <2>1. IsFiniteSet(1 .. n)
    BY FS_Interval
  <2>2. IsFiniteSet(Where(n))
    BY <2>1, FS_Subset
  <2> QED
    BY <2>2, FS_CardinalityType
<1>2. Cardinality(Where(0)) = 0
  <2>1. Where(0) = {}
    OBVIOUS
  <2> QED
    BY <2>1, FS_EmptySet
<1>3. ASSUME NEW n \in Nat
      PROVE  Cardinality(Where(n + 1)) = IF s[n + 1] = k THEN Cardinality(Where(n)) + 1
                                         ELSE Cardinality(Where(n))
  <2>1. CASE s[n + 1] = k
    <3>1. Where(n + 1) = Where(n) \cup {n + 1} /\ n + 1 \notin Where(n)
      BY <2>1
    <3> HIDE DEF Where
    <3> QED
      BY <1>1, <2>1, <3>1, FS_AddElement
  <2>2. CASE s[n + 1] # k
    <3>1. Where(n + 1) = Where(n)
      BY <2>2
    <3> QED
      BY <2>2, <3>1
  <2> QED
    BY <2>1, <2>2
<1>4. ASSUME NEW m \in Nat, NEW n \in Nat, m <= n
      PROVE  Cardinality(Where(m)) <= Cardinality(Where(n))
  <2>1. Where(m) \subseteq Where(n)
    BY <1>4
  <2> HIDE DEF Where
  <2> QED
    BY <1>1, <2>1, FS_Subset
<1> QED
  BY <1>1, <1>2, <1>3, <1>4 DEF Taken

LEMMA HeardDefined ==
  ASSUME NEW stream, Len(stream) \in Nat
  PROVE  /\ Heard(stream)[0] = Silence
         /\ \A n \in 1 .. Len(stream) : Heard(stream)[n] = Received(Heard(stream)[n - 1], stream[n])
<1> DEFINE Runs(g, m) == g = [n \in 0 .. m |->
                               IF n = 0 THEN Silence ELSE Received(g[n - 1], stream[n])]
           T == {m \in Nat : \E g : Runs(g, m)}
<1>1. 0 \in T
  <2>1. Runs([n \in 0 .. 0 |-> Silence], 0)
    OBVIOUS
  <2> QED
    BY <2>1
<1>2. ASSUME NEW m \in Nat, m \in T PROVE m + 1 \in T
  <2>1. PICK g : Runs(g, m)
    BY <1>2
  <2> DEFINE h == [n \in 0 .. m + 1 |->
                     IF n <= m THEN g[n] ELSE Received(g[m], stream[m + 1])]
  <2>2. ASSUME NEW n \in 0 .. m + 1
        PROVE  h[n] = IF n = 0 THEN Silence ELSE Received(h[n - 1], stream[n])
    <3>1. n <= m => g[n] = IF n = 0 THEN Silence ELSE Received(g[n - 1], stream[n])
      <4>1. n <= m => n \in 0 .. m
        OBVIOUS
      <4> QED
        BY <2>1, <4>1, Zenon
    <3>2. n > m => n = m + 1 /\ n - 1 = m /\ h[m] = g[m]
      OBVIOUS
    <3>3. n # 0 /\ n <= m => h[n - 1] = g[n - 1]
      OBVIOUS
    <3> QED
      BY <3>1, <3>2, <3>3
  <2>3. Runs(h, m + 1)
    BY <2>2
  <2> HIDE DEF h
  <2>4. \E x : Runs(x, m + 1)
    BY <2>3
  <2> QED
    BY <2>4
<1>3. Len(stream) \in T
  <2> HIDE DEF T
  <2> QED
    BY <1>1, <1>2, EveryNumber
<1>4. \E g : Runs(g, Len(stream))
  BY <1>3
<1>5. PICK g : g = Heard(stream)
  OBVIOUS
<1>6. Runs(g, Len(stream))
  BY <1>4, <1>5 DEF Heard
<1>7. 0 \in 0 .. Len(stream) /\ \A n \in 1 .. Len(stream) : n \in 0 .. Len(stream) /\ n # 0
  OBVIOUS
<1>8. g[0] = Silence /\ \A n \in 1 .. Len(stream) : g[n] = Received(g[n - 1], stream[n])
  BY <1>6, <1>7, Zenon
<1> QED
  BY <1>5, <1>8

\* A stream that carries the calls: its fragments come by a schedule, and only
\* what they say, not whether they are numbered, matters to the receiver.
Carries(stream, s, calls) ==
  /\ s \in Seq(1 .. Len(calls)) /\ Len(stream) = Len(s)
  /\ \A n \in 1 .. Len(s) :
       LET f == Fragments(calls, s[n])[Taken(s, s[n], n)] IN
       /\ IndexOf(stream[n]) = s[n] - 1
       /\ stream[n].id = f.id /\ stream[n].name = f.name /\ stream[n].args = f.args
       /\ s[n] > 1 => Taken(s, s[n] - 1, n) > 0
  /\ \A k \in 1 .. Len(calls) : Taken(s, k, Len(s)) = Len(calls[k].args) + 1

\* The calls a model may mean.
MeantCalls == UNION {[1 .. n -> Intents] : n \in 0 .. MaxCalls}

LEMMA CallsTyped ==
  ASSUME NEW calls \in MeantCalls
  PROVE  /\ calls \in Seq(Call) /\ Len(calls) \in 0 .. MaxCalls /\ MaxCalls \in 0 .. 3
         /\ Len(calls) \in 0 .. 3
         /\ \A k \in 1 .. Len(calls) :
              /\ calls[k] \in Call /\ k \in 1 .. Len(Ids) /\ k - 1 \in Indexes
              /\ calls[k].args \in Seq(Pieces) /\ Len(calls[k].args) \in {1, 2}
<1>1. PICK m \in 0 .. MaxCalls : calls \in [1 .. m -> Intents]
  BY DEF MeantCalls
<1>2. MaxCalls \in 0 .. 3 /\ Len(Ids) = 3 /\ Intents \subseteq Call
  BY ChatBoundsAssumption DEF Ids
<1>3. calls \in [1 .. m -> Call]
  BY <1>1, <1>2
<1>4. calls \in Seq(Call) /\ Len(calls) = m
  BY <1>1, <1>2, <1>3, ListOf
<1>5. ASSUME NEW k \in 1 .. Len(calls)
      PROVE  calls[k] \in Call /\ calls[k].args \in Seq(Pieces) /\ Len(calls[k].args) \in {1, 2}
  <2>1. calls[k] \in Call
    BY <1>3, <1>4
  <2>2. calls[k].args = WholeArgs \/ calls[k].args = CutArgs
    BY <2>1 DEF Call
  <2>3. WholeArgs \in Seq(Pieces) /\ Len(WholeArgs) = 2
    BY DEF WholeArgs, Pieces
  <2>4. CutArgs \in Seq(Pieces) /\ Len(CutArgs) = 1
    BY DEF CutArgs, Pieces
  <2> QED
    BY <2>1, <2>2, <2>3, <2>4
<1> QED
  BY <1>1, <1>2, <1>4, <1>5 DEF Indexes

LEMMA FragmentFields ==
  ASSUME NEW index, NEW id, NEW name, NEW args
  PROVE  /\ Fragment(index, id, name, args).index = index
         /\ Fragment(index, id, name, args).id = id
         /\ Fragment(index, id, name, args).name = name
         /\ Fragment(index, id, name, args).args = args
  BY DEF Fragment

LEMMA FragmentsOf ==
  ASSUME NEW calls \in MeantCalls, NEW k \in 1 .. Len(calls)
  PROVE  /\ Len(Fragments(calls, k)) = Len(calls[k].args) + 1
         /\ \A c \in 1 .. Len(calls[k].args) + 1 :
              Fragments(calls, k)[c] = IF c = 1 THEN Fragment(k - 1, Ids[k], calls[k].name, <<>>)
                                       ELSE Fragment(k - 1, "", "", <<calls[k].args[c - 1]>>)
<1>1. Len(calls[k].args) + 1 \in Nat
  BY CallsTyped
<1>2. PICK f : f = Fragments(calls, k)
  OBVIOUS
<1>3. PICK n \in Nat : n = Len(calls[k].args) + 1
  BY <1>1
<1>4. f = [c \in 1 .. n |-> IF c = 1 THEN Fragment(k - 1, Ids[k], calls[k].name, <<>>)
                            ELSE Fragment(k - 1, "", "", <<calls[k].args[c - 1]>>)]
  BY <1>2, <1>3 DEF Fragments
<1>5. PICK S : S = {f[c] : c \in 1 .. n}
  OBVIOUS
<1>6. f \in [1 .. n -> S]
  BY <1>4, <1>5
<1>7. Len(f) = n
  BY <1>6, ListOf
<1> QED
  BY <1>2, <1>3, <1>4, <1>7

\* What has arrived of a call after c of its fragments, and of all of them
\* after a prefix of the stream: the calls that have started come first in the
\* order, as they come first among the calls.
Arrived(call, k, c) ==
  IF c = 0 THEN [id |-> "", name |-> "", args |-> <<>>]
  ELSE [id |-> Ids[k], name |-> call.name, args |-> SubSeq(call.args, 1, c - 1)]
SoFar(calls, s, n, st) ==
  /\ st.order \in Seq(Indexes) /\ Len(st.order) <= Len(calls)
  /\ \A i \in 1 .. Len(st.order) : st.order[i] = i - 1
  /\ DOMAIN st.parts = Indexes
  /\ \A k \in 1 .. Len(calls) : /\ k <= Len(st.order) <=> Taken(s, k, n) > 0
                               /\ st.parts[k - 1] = Arrived(calls[k], k, Taken(s, k, n))

LEMMA ArrivedNext ==
  ASSUME NEW calls \in MeantCalls, NEW k \in 1 .. Len(calls), NEW c \in 0 .. Len(calls[k].args),
         NEW f, f = Fragments(calls, k)[c + 1], NEW p, p = Arrived(calls[k], k, c)
  PROVE  [id |-> LastSaid(p.id, f.id), name |-> LastSaid(p.name, f.name), args |-> p.args \o f.args]
           = Arrived(calls[k], k, c + 1)
<1>0. PICK a : a = calls[k].args
  OBVIOUS
<1>1. a \in Seq(Pieces) /\ Len(a) \in {1, 2} /\ k \in {1, 2, 3}
  BY <1>0, CallsTyped DEF Ids
<1>2. Ids[k] # ""
  <2>1. Ids[1] # "" /\ Ids[2] # "" /\ Ids[3] # ""
    BY DEF Ids
  <2> QED
    BY <1>1, <2>1
<1>3. f = IF c = 0 THEN Fragment(k - 1, Ids[k], calls[k].name, <<>>)
          ELSE Fragment(k - 1, "", "", <<a[c]>>)
  <2>1. c + 1 \in 1 .. Len(calls[k].args) + 1 /\ (c + 1) - 1 = c /\ (c + 1 = 1 <=> c = 0)
    BY <1>0, <1>1
  <2> QED
    BY <1>0, <2>1, FragmentsOf
<1>4. CASE c = 0
  <2>1. f.id = Ids[k] /\ f.name = calls[k].name /\ f.args = <<>>
    BY <1>3, <1>4, FragmentFields
  <2>2. p.id = "" /\ p.name = "" /\ p.args = <<>>
    BY <1>4 DEF Arrived
  <2>3. SubSeq(a, 1, 0) = <<>>
    BY SubSeqEmpty
  <2>4. Arrived(calls[k], k, c + 1) = [id |-> Ids[k], name |-> calls[k].name, args |-> <<>>]
    <3>1. c + 1 # 0 /\ (c + 1) - 1 = 0
      BY <1>4
    <3>2. SubSeq(calls[k].args, 1, (c + 1) - 1) = <<>>
      BY <1>0, <2>3, <3>1
    <3> QED
      BY <3>1, <3>2, Zenon DEF Arrived
  <2>5. <<>> \o <<>> = <<>>
    OBVIOUS
  <2> QED
    BY <1>2, <2>1, <2>2, <2>4, <2>5 DEF LastSaid
<1>5. CASE c # 0
  <2>1. f.id = "" /\ f.name = "" /\ f.args = <<a[c]>>
    <3>1. f = Fragment(k - 1, "", "", <<a[c]>>)
      BY <1>3, <1>5
    <3>2. PICK x : x = <<a[c]>>
      OBVIOUS
    <3>3. PICK e : e = ""
      OBVIOUS
    <3>4. f = Fragment(k - 1, e, e, x)
      BY <3>1, <3>2, <3>3
    <3>5. f.id = e /\ f.name = e /\ f.args = x
      BY <3>4, FragmentFields
    <3> QED
      BY <3>2, <3>3, <3>5
  <2>2. p.id = Ids[k] /\ p.name = calls[k].name /\ p.args = SubSeq(a, 1, c - 1)
    BY <1>0, <1>5 DEF Arrived
  <2>3. SubSeq(a, 1, c) = SubSeq(a, 1, c - 1) \o <<a[c]>>
    <3>1. 1 \in 1 .. Len(a) /\ c \in 1 .. Len(a)
      BY <1>0, <1>1, <1>5
    <3> QED
      BY <1>1, <3>1, SubSeqRecursiveSecond
  <2>4. Arrived(calls[k], k, c + 1) = [id |-> Ids[k], name |-> calls[k].name, args |-> SubSeq(a, 1, c)]
    <3>1. c + 1 # 0 /\ (c + 1) - 1 = c
      BY <1>0, <1>1
    <3> QED
      BY <1>0, <3>1 DEF Arrived
  <2> QED
    BY <2>1, <2>2, <2>3, <2>4 DEF LastSaid
<1> QED
  BY <1>4, <1>5

LEMMA ReceivedNext ==
  ASSUME NEW calls \in MeantCalls, NEW stream, NEW s, Carries(stream, s, calls),
         NEW n \in Nat, n < Len(s), NEW st, SoFar(calls, s, n, st)
  PROVE  SoFar(calls, s, n + 1, Received(st, stream[n + 1]))
<1>0. /\ Len(s) \in Nat /\ n + 1 \in 1 .. Len(s) /\ Len(calls) \in 0 .. 3
      /\ st.order \in Seq(Indexes) /\ Len(st.order) \in Nat /\ Len(st.order) <= Len(calls)
  <2>1. Len(s) \in Nat
    BY LenProperties DEF Carries
  <2>2. Len(calls) \in 0 .. 3
    BY CallsTyped
  <2>3. st.order \in Seq(Indexes) /\ Len(st.order) <= Len(calls)
    BY DEF SoFar
  <2>4. Len(st.order) \in Nat
    BY <2>3, LenProperties
  <2> QED
    BY <2>1, <2>2, <2>3, <2>4
<1>1. PICK k \in 1 .. Len(calls) : k = s[n + 1]
  <2>1. s \in Seq(1 .. Len(calls))
    BY DEF Carries
  <2> QED
    BY <1>0, <2>1, ElementOfSeq
<1>2. PICK f : f = stream[n + 1]
  OBVIOUS
<1>3. PICK c : c = Taken(s, k, n)
  OBVIOUS
<1>4. /\ c \in 0 .. Len(calls[k].args) /\ Taken(s, k, n + 1) = c + 1
      /\ \A j \in 1 .. Len(calls) : j # k => Taken(s, j, n + 1) = Taken(s, j, n)
  <2>1. c \in Nat /\ Taken(s, k, n + 1) = c + 1 /\ Taken(s, k, n + 1) <= Taken(s, k, Len(s))
    <3>1. Taken(s, k, n) \in Nat /\ Taken(s, k, n + 1) = Taken(s, k, n) + 1
      BY <1>1, TakenStep
    <3>2. n + 1 \in Nat /\ n + 1 <= Len(s)
      BY <1>0
    <3>3. Taken(s, k, n + 1) <= Taken(s, k, Len(s))
      BY <1>0, <3>2, TakenStep
    <3> QED
      BY <1>3, <3>1, <3>3
  <2>2. Taken(s, k, Len(s)) = Len(calls[k].args) + 1 /\ Len(calls[k].args) \in Nat
    BY CallsTyped DEF Carries
  <2>3. \A j \in 1 .. Len(calls) : j # k => Taken(s, j, n + 1) = Taken(s, j, n)
    <3> SUFFICES ASSUME NEW j \in 1 .. Len(calls), j # k PROVE Taken(s, j, n + 1) = Taken(s, j, n)
      OBVIOUS
    <3>1. s[n + 1] # j
      BY <1>1
    <3> QED
      BY <3>1, TakenStep
  <2> QED
    BY <2>1, <2>2, <2>3
<1>5. PICK g : g = Fragments(calls, k)[c + 1]
  OBVIOUS
<1>6. /\ IndexOf(f) = k - 1 /\ f.id = g.id /\ f.name = g.name /\ f.args = g.args
      /\ k > 1 => Taken(s, k - 1, n + 1) > 0
  BY <1>0, <1>1, <1>2, <1>4, <1>5 DEF Carries
<1>7. PICK p : p = Arrived(calls[k], k, c)
  OBVIOUS
<1>8. st.parts[k - 1] = p /\ k - 1 \in Indexes /\ DOMAIN st.parts = Indexes
  BY <1>3, <1>7, CallsTyped DEF SoFar
<1>9. PICK q : q = [id |-> LastSaid(p.id, f.id), name |-> LastSaid(p.name, f.name), args |-> p.args \o f.args]
  OBVIOUS
<1>10. q = Arrived(calls[k], k, c + 1)
  <2>1. q = [id |-> LastSaid(p.id, g.id), name |-> LastSaid(p.name, g.name), args |-> p.args \o g.args]
    BY <1>6, <1>9
  <2> QED
    BY <1>4, <1>5, <1>7, <2>1, ArrivedNext
<1>11. PICK order : order = Ordered(st.order, k - 1)
  OBVIOUS
<1>12. PICK parts : parts = [st.parts EXCEPT ![k - 1] = q]
  OBVIOUS
<1>13. Received(st, f) = [order |-> order, parts |-> parts]
  BY <1>6, <1>8, <1>9, <1>11, <1>12, Zenon DEF Received
<1>14. /\ DOMAIN parts = Indexes
       /\ \A j \in 1 .. Len(calls) : parts[j - 1] = IF j = k THEN q ELSE st.parts[j - 1]
  BY <1>8, <1>12, CallsTyped
<1>15. \A j \in 1 .. Len(calls) : parts[j - 1] = Arrived(calls[j], j, Taken(s, j, n + 1))
  BY <1>4, <1>10, <1>14 DEF SoFar
<1>16. /\ order \in Seq(Indexes) /\ Len(order) <= Len(calls)
       /\ \A i \in 1 .. Len(order) : order[i] = i - 1
       /\ \A j \in 1 .. Len(calls) : j <= Len(order) <=> Taken(s, j, n + 1) > 0
  <2>1. /\ \A i \in 1 .. Len(st.order) : st.order[i] = i - 1
        /\ \A j \in 1 .. Len(calls) : j <= Len(st.order) <=> Taken(s, j, n) > 0
    BY DEF SoFar
  <2>2. CASE c > 0
    <3>1. k \in 1 .. Len(st.order) /\ st.order[k] = k - 1
      BY <1>0, <1>3, <2>1, <2>2
    <3>2. order = st.order
      BY <1>11, <3>1 DEF Ordered
    <3>3. \A j \in 1 .. Len(calls) : Taken(s, j, n + 1) > 0 <=> Taken(s, j, n) > 0
      BY <1>3, <1>4, <2>2
    <3> QED
      BY <1>0, <2>1, <3>2, <3>3
  <2>3. CASE c = 0
    <3>1. k = Len(st.order) + 1
      <4>1. ~ (k <= Len(st.order))
        <5>1. ~ (Taken(s, k, n) > 0)
          BY <1>3, <2>3
        <5> QED
          BY <2>1, <5>1
      <4>2. k > 1 => k - 1 <= Len(st.order)
        <5> SUFFICES ASSUME k > 1 PROVE k - 1 <= Len(st.order)
          OBVIOUS
        <5>1. k - 1 \in 1 .. Len(calls) /\ k - 1 # k
          BY <1>0
        <5>2. Taken(s, k - 1, n) > 0
          BY <1>4, <1>6, <5>1
        <5> QED
          BY <2>1, <5>1, <5>2
      <4> QED
        BY <1>0, <4>1, <4>2
    <3>2. order = Append(st.order, k - 1)
      <4>1. ~ \E i \in 1 .. Len(st.order) : st.order[i] = k - 1
        BY <1>0, <2>1, <3>1
      <4> QED
        BY <1>11, <4>1 DEF Ordered
    <3>3. /\ order \in Seq(Indexes) /\ Len(order) = k /\ order[k] = k - 1
          /\ \A i \in 1 .. Len(st.order) : order[i] = st.order[i]
      BY <1>0, <1>8, <3>1, <3>2, AppendProperties
    <3>4. \A i \in 1 .. Len(order) : order[i] = i - 1
      BY <1>0, <2>1, <3>1, <3>3
    <3>5. \A j \in 1 .. Len(calls) : j <= Len(order) <=> Taken(s, j, n + 1) > 0
      BY <1>0, <1>4, <2>1, <2>3, <3>1, <3>3
    <3> QED
      BY <3>3, <3>4, <3>5
  <2> QED
    BY <1>4, <2>2, <2>3
<1>17. PICK r : r = Received(st, f)
  OBVIOUS
<1>18. r.order = order /\ r.parts = parts
  BY <1>13, <1>17
<1>19. SoFar(calls, s, n + 1, r)
  BY <1>14, <1>15, <1>16, <1>18 DEF SoFar
<1> QED
  BY <1>2, <1>17, <1>19

\* Whatever the schedule, the receiver makes of the stream what was meant
\* (ai/chat.go:61-118).
LEMMA AssembledAsMeant ==
  ASSUME NEW calls \in MeantCalls, NEW stream, NEW s, Carries(stream, s, calls)
  PROVE  Assemble(stream) = Meant(calls)
<1>0. Len(s) \in Nat /\ Len(stream) = Len(s) /\ Len(calls) \in 0 .. 3
  <2>1. Len(s) \in Nat /\ Len(stream) = Len(s)
    BY LenProperties DEF Carries
  <2>2. Len(calls) \in 0 .. 3
    BY CallsTyped
  <2> QED
    BY <2>1, <2>2
<1>1. PICK h : h = Heard(stream)
  OBVIOUS
<1>2. h[0] = Silence /\ \A n \in 1 .. Len(s) : h[n] = Received(h[n - 1], stream[n])
  BY <1>0, <1>1, HeardDefined
<1> DEFINE T == {n \in Nat : n <= Len(s) => SoFar(calls, s, n, h[n])}
<1>3. 0 \in T
  <2>1. PICK st : st = Silence
    OBVIOUS
  <2>2. st.order = <<>> /\ st.parts = [i \in Indexes |-> [id |-> "", name |-> "", args |-> <<>>]]
    BY <2>1 DEF Silence
  <2>3. st.order \in Seq(Indexes) /\ Len(st.order) = 0
    BY <2>2, EmptySeq
  <2>4. ASSUME NEW k \in 1 .. Len(calls)
        PROVE  /\ k <= Len(st.order) <=> Taken(s, k, 0) > 0
               /\ st.parts[k - 1] = Arrived(calls[k], k, Taken(s, k, 0))
    <3>1. Taken(s, k, 0) = 0 /\ k - 1 \in Indexes
      BY TakenStep, CallsTyped
    <3>2. st.parts[k - 1] = [id |-> "", name |-> "", args |-> <<>>]
      BY <2>2, <3>1, Zenon
    <3>3. Arrived(calls[k], k, 0) = [id |-> "", name |-> "", args |-> <<>>]
      BY DEF Arrived
    <3>4. ~ (Taken(s, k, 0) > 0) /\ ~ (k <= Len(st.order))
      BY <2>3, <3>1
    <3> QED
      BY <3>1, <3>2, <3>3, <3>4
  <2>5. DOMAIN st.parts = Indexes
    BY <2>2
  <2>6. SoFar(calls, s, 0, st)
    BY <1>0, <2>3, <2>4, <2>5 DEF SoFar
  <2> QED
    BY <1>2, <2>1, <2>6
<1>4. ASSUME NEW n \in Nat, n \in T PROVE n + 1 \in T
  <2> SUFFICES ASSUME n + 1 <= Len(s) PROVE SoFar(calls, s, n + 1, h[n + 1])
    OBVIOUS
  <2>1. SoFar(calls, s, n, h[n]) /\ n < Len(s)
    BY <1>0, <1>4
  <2>2. h[n + 1] = Received(h[n], stream[n + 1])
    <3>1. n + 1 \in 1 .. Len(s) /\ (n + 1) - 1 = n
      BY <1>0
    <3> QED
      BY <1>2, <3>1
  <2> QED
    BY <2>1, <2>2, ReceivedNext
<1>5. PICK end : end = h[Len(s)]
  OBVIOUS
<1>6. SoFar(calls, s, Len(s), end)
  <2>1. Len(s) \in T
    <3> HIDE DEF T
    <3> QED
      BY <1>0, <1>3, <1>4, EveryNumber
  <2> QED
    BY <1>0, <1>5, <2>1
<1>7. ASSUME NEW k \in 1 .. Len(calls)
      PROVE  /\ k <= Len(end.order)
             /\ end.parts[k - 1] = [id |-> Ids[k], name |-> calls[k].name, args |-> calls[k].args]
  <2>1. PICK a : a = calls[k].args
    OBVIOUS
  <2>2. a \in Seq(Pieces) /\ Len(a) \in {1, 2}
    BY <2>1, CallsTyped
  <2>3. Taken(s, k, Len(s)) = Len(a) + 1 /\ Len(a) + 1 # 0 /\ (Len(a) + 1) - 1 = Len(a)
    BY <2>1, <2>2 DEF Carries
  <2>4. SubSeq(a, 1, Len(a)) = a
    BY <2>2, SubSeqFull
  <2>5. Arrived(calls[k], k, Len(a) + 1) = [id |-> Ids[k], name |-> calls[k].name, args |-> a]
    BY <2>1, <2>3, <2>4, Zenon DEF Arrived
  <2>6. Taken(s, k, Len(s)) > 0
    BY <2>2, <2>3
  <2> QED
    BY <1>6, <2>1, <2>3, <2>5, <2>6 DEF SoFar
<1>8. Len(end.order) = Len(calls) /\ \A k \in 1 .. Len(calls) : end.order[k] = k - 1
  <2>1. Len(end.order) \in Nat /\ Len(end.order) <= Len(calls)
    BY <1>6, LenProperties DEF SoFar
  <2>2. Len(calls) # 0 => Len(calls) \in 1 .. Len(calls)
    BY <1>0
  <2>3. Len(calls) # 0 => Len(calls) <= Len(end.order)
    BY <1>7, <2>2
  <2>4. Len(end.order) = Len(calls)
    BY <1>0, <2>1, <2>3
  <2> QED
    BY <1>6, <2>4 DEF SoFar
<1>9. [k \in 1 .. Len(end.order) |-> end.parts[end.order[k]]]
        = [k \in 1 .. Len(calls) |-> [id |-> Ids[k], name |-> calls[k].name, args |-> calls[k].args]]
  BY <1>7, <1>8, Zenon
<1> QED
  BY <1>0, <1>1, <1>5, <1>9 DEF Assemble, Meant

LEMMA FragmentOf ==
  ASSUME NEW calls \in MeantCalls, NEW k \in 1 .. Len(calls), NEW c \in 1 .. Len(calls[k].args) + 1
  PROVE  \E id, name, args : Fragments(calls, k)[c] = Fragment(k - 1, id, name, args)
<1>1. PICK f : f = Fragments(calls, k)[c]
  OBVIOUS
<1>2. \/ f = Fragment(k - 1, Ids[k], calls[k].name, <<>>)
      \/ f = Fragment(k - 1, "", "", <<calls[k].args[c - 1]>>)
  BY <1>1, FragmentsOf
<1>3. \E id, name, args : f = Fragment(k - 1, id, name, args)
  BY <1>2, Zenon
<1> QED
  BY <1>1, <1>3

LEMMA ScheduledCarries ==
  ASSUME NEW calls \in MeantCalls, NEW s \in Schedules(calls)
  PROVE  Carries(Interleaved(calls, s), s, calls)
<1>0. Len(calls) \in 0 .. 3
  BY CallsTyped
<1>1. PICK m : m \in Nat /\ s \in [1 .. m -> 1 .. Len(calls)]
  BY DEF Schedules
<1>2. m \in Nat
  BY <1>1
<1>3. s \in Seq(1 .. Len(calls)) /\ Len(s) = m
  BY <1>1, <1>2, ListOf
<1>4. PICK stream : stream = Interleaved(calls, s)
  OBVIOUS
<1>5. /\ Len(stream) = Len(s)
      /\ \A n \in 1 .. Len(s) : stream[n] = Fragments(calls, s[n])[Taken(s, s[n], n)]
  <2>1. stream = [n \in 1 .. m |-> Fragments(calls, s[n])[Taken(s, s[n], n)]]
    BY <1>3, <1>4 DEF Interleaved
  <2>2. PICK S : S = {stream[n] : n \in 1 .. m}
    OBVIOUS
  <2>3. stream \in [1 .. m -> S]
    BY <2>1, <2>2
  <2>4. Len(stream) = m
    BY <1>2, <2>3, ListOf
  <2> QED
    BY <1>3, <2>1, <2>4
<1>6. /\ \A k \in 1 .. Len(calls) : Taken(s, k, Len(s)) = Len(Fragments(calls, k))
      /\ \A n \in 1 .. Len(s) : s[n] > 1 => Taken(s, s[n] - 1, n) > 0
  BY DEF Schedules
<1>7. ASSUME NEW k \in 1 .. Len(calls) PROVE Taken(s, k, Len(s)) = Len(calls[k].args) + 1
  BY <1>6, FragmentsOf
<1>8. ASSUME NEW n \in 1 .. Len(s) PROVE IndexOf(stream[n]) = s[n] - 1
  <2>1. PICK k \in 1 .. Len(calls) : k = s[n]
    BY <1>1, <1>3
  <2>2. stream[n] = Fragments(calls, k)[Taken(s, k, n)]
    BY <1>5, <2>1
  <2>3. Taken(s, k, n) \in 1 .. Len(calls[k].args) + 1
    <3>1. n - 1 \in Nat /\ (n - 1) + 1 = n /\ n <= Len(s) /\ n \in Nat /\ Len(s) \in Nat
      BY <1>2, <1>3
    <3>2. Taken(s, k, n - 1) \in Nat
      BY <3>1, TakenStep
    <3>3. s[(n - 1) + 1] = k
      BY <2>1, <3>1
    <3>4. Taken(s, k, (n - 1) + 1) = Taken(s, k, n - 1) + 1
      BY <3>1, <3>3, TakenStep
    <3>5. Taken(s, k, n) = Taken(s, k, n - 1) + 1
      BY <3>1, <3>4
    <3>6. Taken(s, k, n) <= Taken(s, k, Len(s))
      BY <3>1, TakenStep
    <3>7. Taken(s, k, Len(s)) = Len(calls[k].args) + 1 /\ Len(calls[k].args) \in Nat
      BY <1>7, CallsTyped
    <3> QED
      BY <3>2, <3>5, <3>6, <3>7
  <2>4. PICK id, name, args : stream[n] = Fragment(k - 1, id, name, args)
    <3>1. PICK c \in 1 .. Len(calls[k].args) + 1 : c = Taken(s, k, n)
      BY <2>3
    <3>2. \E id, name, args : Fragments(calls, k)[c] = Fragment(k - 1, id, name, args)
      BY FragmentOf
    <3> QED
      BY <2>2, <3>1, <3>2
  <2>5. stream[n].index = k - 1
    BY <2>4, FragmentFields
  <2>6. k - 1 # NoIndex
    <3>1. PICK l \in 0 .. 3 : l = Len(calls)
      BY <1>0
    <3>2. k \in 1 .. l
      BY <3>1
    <3>3. k <= 3
      BY <3>2
    <3> QED
      BY <3>2, <3>3 DEF NoIndex
  <2> QED
    BY <2>1, <2>5, <2>6 DEF IndexOf
<1>9. Carries(stream, s, calls)
  BY <1>3, <1>5, <1>6, <1>7, <1>8 DEF Carries
<1> QED
  BY <1>4, <1>9

\* A single call may come without an index.
LEMMA UnnumberedCarries ==
  ASSUME NEW calls \in MeantCalls, Len(calls) = 1
  PROVE  \E s : Carries(Unnumbered(calls), s, calls)
<1>0. 1 \in 1 .. Len(calls) /\ Len(calls[1].args) \in {1, 2}
  BY CallsTyped
<1>1. PICK m \in Nat : m = Len(calls[1].args) + 1 /\ (m = 2 \/ m = 3)
  <2>1. PICK l \in 1 .. 2 : l = Len(calls[1].args)
    BY <1>0
  <2>2. l + 1 \in Nat /\ (l + 1 = 2 \/ l + 1 = 3)
    OBVIOUS
  <2> QED
    BY <2>1, <2>2
<1>2. /\ Len(Fragments(calls, 1)) = m
      /\ \A c \in 1 .. m : \E i, id, name, args : Fragments(calls, 1)[c] = Fragment(i, id, name, args)
  BY <1>0, <1>1, FragmentsOf, FragmentOf
<1>3. PICK s : s = [n \in 1 .. m |-> 1]
  OBVIOUS
<1>4. s \in Seq(1 .. Len(calls)) /\ Len(s) = m
  <2>1. s \in [1 .. m -> 1 .. Len(calls)]
    BY <1>0, <1>3
  <2> QED
    BY <2>1, ListOf
<1>5. PICK stream : stream = Unnumbered(calls)
  OBVIOUS
<1>6. /\ Len(stream) = Len(s)
      /\ \A n \in 1 .. m : stream[n] = [Fragments(calls, 1)[n] EXCEPT !.index = NoIndex]
  <2>1. stream = [n \in 1 .. m |-> [Fragments(calls, 1)[n] EXCEPT !.index = NoIndex]]
    BY <1>2, <1>5 DEF Unnumbered
  <2>2. PICK S : S = {stream[n] : n \in 1 .. m}
    OBVIOUS
  <2>3. stream \in [1 .. m -> S]
    BY <2>1, <2>2
  <2>4. Len(stream) = m
    BY <2>3, ListOf
  <2> QED
    BY <1>4, <2>1, <2>4
<1>7. \A n \in 0 .. m : Taken(s, 1, n) = n
  <2>1. Taken(s, 1, 0) = 0
    BY TakenStep
  <2>2. ASSUME NEW n \in 0 .. m - 1 PROVE Taken(s, 1, n + 1) = Taken(s, 1, n) + 1
    <3>1. n + 1 \in 1 .. m /\ n \in Nat
      OBVIOUS
    <3>2. s[n + 1] = 1
      BY <1>3, <3>1
    <3> QED
      BY <3>1, <3>2, TakenStep
  <2>3. Taken(s, 1, 1) = 1
    <3>1. 0 \in 0 .. m - 1 /\ 0 + 1 = 1
      BY <1>1
    <3> QED
      BY <2>1, <2>2, <3>1
  <2>4. Taken(s, 1, 2) = 2
    <3>1. 1 \in 0 .. m - 1 /\ 1 + 1 = 2
      BY <1>1
    <3> QED
      BY <2>2, <2>3, <3>1
  <2>5. m = 3 => Taken(s, 1, 3) = 3
    <3>1. m = 3 => 2 \in 0 .. m - 1 /\ 2 + 1 = 3
      OBVIOUS
    <3> QED
      BY <2>2, <2>4, <3>1
  <2>6. \A n \in 0 .. m : n = 0 \/ n = 1 \/ n = 2 \/ (m = 3 /\ n = 3)
    BY <1>1
  <2> QED
    BY <2>1, <2>3, <2>4, <2>5, <2>6
<1>8. ASSUME NEW n \in 1 .. Len(s), NEW f, f = Fragments(calls, s[n])[Taken(s, s[n], n)]
      PROVE  /\ IndexOf(stream[n]) = s[n] - 1
             /\ stream[n].id = f.id /\ stream[n].name = f.name /\ stream[n].args = f.args
             /\ ~ (s[n] > 1)
  <2>1. n \in 1 .. m /\ n \in 0 .. m
    BY <1>4
  <2>2. s[n] = 1
    BY <1>3, <2>1
  <2>3. Taken(s, 1, n) = n
    BY <1>7, <2>1
  <2>4. f = Fragments(calls, 1)[n]
    BY <1>8, <2>2, <2>3
  <2>5. PICK i, id, name, args : f = Fragment(i, id, name, args)
    BY <1>2, <2>1, <2>4
  <2>6. stream[n] = [f EXCEPT !.index = NoIndex]
    BY <1>6, <2>1, <2>4
  <2>7. stream[n].index = NoIndex /\ stream[n].id = f.id /\ stream[n].name = f.name /\ stream[n].args = f.args
    BY <2>5, <2>6 DEF Fragment
  <2>8. IndexOf(stream[n]) = 0 /\ 0 = s[n] - 1
    BY <2>2, <2>7 DEF IndexOf
  <2> QED
    BY <2>2, <2>7, <2>8
<1>9. ASSUME NEW k \in 1 .. Len(calls) PROVE Taken(s, k, Len(s)) = Len(calls[k].args) + 1
  <2>1. k = 1 /\ m \in 0 .. m
    OBVIOUS
  <2> QED
    BY <1>1, <1>4, <1>7, <2>1
<1>10. Carries(stream, s, calls)
  BY <1>4, <1>6, <1>8, <1>9 DEF Carries
<1> QED
  BY <1>5, <1>10

\* Every answer of the model is well typed, and received as it was meant.
LEMMA AnswersTyped ==
  ASSUME NEW answer \in Answers
  PROVE  /\ answer.heard \in Seq(Part) /\ Len(answer.heard) \in 0 .. MaxCalls
         /\ answer.meant = answer.heard
<1>0. PICK calls \in MeantCalls : \E stream \in Streams(calls) :
        answer = [meant |-> Meant(calls), heard |-> Assemble(stream)]
  BY DEF Answers, MeantCalls
<1>1. PICK stream \in Streams(calls) :
        answer = [meant |-> Meant(calls), heard |-> Assemble(stream)]
  BY <1>0
<1>2. \E s : Carries(stream, s, calls)
  <2>1. \/ \E s \in Schedules(calls) : stream = Interleaved(calls, s)
        \/ Len(calls) = 1 /\ stream = Unnumbered(calls)
    BY DEF Streams
  <2> QED
    BY <2>1, ScheduledCarries, UnnumberedCarries
<1>3. Assemble(stream) = Meant(calls)
  BY <1>2, AssembledAsMeant
<1>4. Len(calls) \in 0 .. MaxCalls /\ MaxCalls \in Nat /\ Len(calls) \in Nat
  BY CallsTyped
<1>5. PICK parts : parts = [k \in 1 .. Len(calls) |->
                              [id |-> Ids[k], name |-> calls[k].name, args |-> calls[k].args]]
  OBVIOUS
<1> DEFINE P == [id : {Ids[k] : k \in 1 .. Len(Ids)}, name : Names, args : {WholeArgs, CutArgs}]
           K == [id : {Ids[k] : k \in 1 .. Len(Ids)} \cup {""}, name : Names \ {""}, args : Seq(Pieces)]
<1>6. parts \in [1 .. Len(calls) -> P]
  <2>1. ASSUME NEW k \in 1 .. Len(calls)
        PROVE  [id |-> Ids[k], name |-> calls[k].name, args |-> calls[k].args] \in P
    <3>1. calls[k] \in Call /\ k \in 1 .. Len(Ids)
      BY CallsTyped
    <3> QED
      BY <3>1 DEF Call
  <2> HIDE DEF P
  <2> QED
    BY <1>5, <2>1
<1>7. parts \in Seq(P) /\ Len(parts) = Len(calls)
  <2> HIDE DEF P
  <2> QED
    BY <1>4, <1>6, ListOf
<1>8. Meant(calls) = Only(parts, K)
  BY <1>5 DEF Meant, Named
<1>9. Only(parts, K) \in Seq(P \cap K) /\ Len(Only(parts, K)) <= Len(parts)
  <2> HIDE DEF P, K
  <2> QED
    BY <1>7, OnlySelects
<1>10. P \cap K \subseteq Part
  BY DEF Part
<1>11. Only(parts, K) \in Seq(Part)
  <2> HIDE DEF P, K
  <2> QED
    BY <1>9, <1>10, SeqMonotonic
<1>12. Len(Only(parts, K)) \in 0 .. MaxCalls
  <2> HIDE DEF P, K
  <2>1. Len(Only(parts, K)) \in Nat
    BY <1>11, LenProperties
  <2> QED
    BY <1>4, <1>7, <1>9, <2>1
<1> QED
  BY <1>1, <1>3, <1>8, <1>11, <1>12

---------------------------------------------------------------------------
(***************************************************************************)
(* Types, and the calls of an answer.                                      *)
(***************************************************************************)
Kinds == {"text", "tool_call", "tool_progress", "tool_result", "unknown_result",
          "orphan_result", "done", "error", "handler_error"}

LEMMA Bounds == /\ MaxIterations \in Nat \ {0} /\ MaxCalls \in Nat /\ MaxFaults \in Nat
                /\ 0 \in 0 .. MaxIterations /\ 0 \in 0 .. MaxCalls
  BY ChatBoundsAssumption DEF Ids

\* What the steps do to the fields of a turn.
LEMMA EmittedFacts ==
  ASSUME NEW st \in Turn, NEW kind \in Kinds
  PROVE  /\ Emitted(st, kind) \in Turn
         /\ Emitted(st, kind).at = st.at /\ Emitted(st, kind).iter = st.iter
         /\ Emitted(st, kind).said = st.said /\ Emitted(st, kind).call = st.call
         /\ Emitted(st, kind).calls = st.calls /\ Emitted(st, kind).meant = st.meant
         /\ Emitted(st, kind).context = st.context /\ Emitted(st, kind).connected = st.connected
         /\ st.connected =>
              /\ Emitted(st, kind).live = st.live
              /\ Emitted(st, kind).frames =
                   Append(st.frames, [kind |-> kind, iter |-> st.iter, call |-> st.call])
         /\ ~ st.connected => Emitted(st, kind).frames = st.frames
<1>1. PICK f : f = [kind |-> kind, iter |-> st.iter, call |-> st.call]
  OBVIOUS
<1>2. f \in Frame /\ st.frames \in Seq(Frame)
  BY <1>1 DEF Frame, Kinds, Turn
<1>3. PICK g : g = Append(st.frames, f)
  OBVIOUS
<1>4. g \in Seq(Frame)
  BY <1>2, <1>3, AppendProperties
<1>5. CASE st.connected
  <2>1. Emitted(st, kind) = [st EXCEPT !.frames = g]
    BY <1>1, <1>3, <1>5 DEF Emitted
  <2> QED
    BY <1>1, <1>3, <1>4, <1>5, <2>1 DEF Turn
<1>6. CASE ~ st.connected
  <2>1. Emitted(st, kind) = [st EXCEPT !.live = FALSE]
    BY <1>6 DEF Emitted
  <2> QED
    BY <1>6, <2>1 DEF Turn
<1> QED
  BY <1>5, <1>6

LEMMA NotedFacts ==
  ASSUME NEW st \in Turn, NEW m \in Message, NEW n \in 0 .. MaxCalls
  PROVE  /\ Noted(st, m, n) \in Turn
         /\ Noted(st, m, n).at = st.at /\ Noted(st, m, n).iter = st.iter
         /\ Noted(st, m, n).said = st.said /\ Noted(st, m, n).call = st.call
         /\ Noted(st, m, n).calls = st.calls /\ Noted(st, m, n).meant = st.meant
         /\ Noted(st, m, n).frames = st.frames /\ Noted(st, m, n).connected = st.connected
         /\ Noted(st, m, n).live = st.live
         /\ Noted(st, m, n).context = Append(st.context, [msg |-> m, calls |-> n])
<1>1. PICK c : c = [msg |-> m, calls |-> n]
  OBVIOUS
<1>2. c \in Context /\ st.context \in Seq(Context)
  BY <1>1 DEF Context, Turn
<1>3. PICK g : g = Append(st.context, c)
  OBVIOUS
<1>4. g \in Seq(Context)
  BY <1>2, <1>3, AppendProperties
<1>5. Noted(st, m, n) = [st EXCEPT !.context = g]
  BY <1>1, <1>3 DEF Noted
<1> QED
  BY <1>1, <1>3, <1>4, <1>5 DEF Turn

LEMMA MovedFacts ==
  ASSUME NEW st \in Turn, NEW point \in Points
  PROVE  /\ Moved(st, point) \in Turn
         /\ Moved(st, point).at = point /\ Moved(st, point).iter = st.iter
         /\ Moved(st, point).said = st.said /\ Moved(st, point).call = st.call
         /\ Moved(st, point).calls = st.calls /\ Moved(st, point).meant = st.meant
         /\ Moved(st, point).frames = st.frames /\ Moved(st, point).connected = st.connected
         /\ Moved(st, point).live = st.live /\ Moved(st, point).context = st.context
  BY DEF Moved, Turn

LEMMA NoTurnTyped == NoTurn \in Turn
<1>1. <<>> \in Seq(Part) /\ <<>> \in Seq(Context) /\ <<>> \in Seq(Frame)
  BY EmptySeq
<1> QED
  BY <1>1, Bounds DEF NoTurn, Turn, Points

LEMMA EndedFacts ==
  ASSUME NEW st \in Turn
  PROVE  /\ Ended(st) \in Turn
         /\ Ended(st).at = "over" /\ Ended(st).calls = <<>> /\ Ended(st).meant = <<>>
         /\ Ended(st).frames = st.frames /\ Ended(st).connected = st.connected
<1>1. Ended(st) = [NoTurn EXCEPT !.at = "over", !.frames = st.frames, !.connected = st.connected]
  BY DEF Ended
<1>2. st.frames \in Seq(Frame) /\ st.connected \in BOOLEAN
  BY DEF Turn
<1>3. Ended(st) \in Turn
  BY <1>1, <1>2, NoTurnTyped DEF Turn, Points
<1> QED
  BY <1>1, <1>3 DEF NoTurn

LEMMA RowTyped ==
  ASSUME NEW t \in Turns, turn \in [Turns -> Turn], NEW role \in {"user", "assistant", "tool"}
  PROVE  Row(t, role) \in Message
<1>1. turn[t].iter \in 0 .. MaxIterations /\ turn[t].call \in 0 .. MaxCalls
  BY DEF Turn
<1> QED
  BY <1>1, Bounds DEF Row, Message

\* A step of one turn leaves the others alone.
LEMMA OthersStay ==
  ASSUME turn \in [Turns -> Turn], NEW t \in Turns, NEW new, Become(t, new)
  PROVE  /\ turn'[t] = new
         /\ \A u \in Turns : u # t => turn'[u] = turn[u]
         /\ new \in Turn => turn' \in [Turns -> Turn]
  BY DEF Become

LEMMA OneTurnMoves ==
  ASSUME turn \in [Turns -> Turn], NEW t \in Turns,
         Open(t) \/ TurnStep(t) \/ Disconnect(t) \/ Timeout(t) \/ Crash(t)
  PROVE  \A u \in Turns : u # t => turn'[u] = turn[u]
<1>1. \E new : Become(t, new)
  BY DEF TurnStep, Open, Check, Ask, History, StreamText, ModelFails, SaveText, Answer, CallTool, UnknownTool,
         Progress, RunTool, SaveTool, Finish, HandlerError, Disconnect, Timeout, Crash
<1> QED
  BY <1>1, OthersStay

\* How many tools an answer may ask for, and which of them is being served.
Positioned(st) ==
  /\ Len(st.calls) \in 0 .. MaxCalls
  /\ st.at \in {"idle", "check", "ask", "history", "model", "save"} => st.call = 0
  /\ st.at \in {"tool", "execute", "save_tool"} => st.call \in 1 .. Len(st.calls)
  /\ st.calls = st.meant
Placed(st) == st \in Turn /\ Positioned(st)

LEMMA AdvancedFacts ==
  ASSUME NEW st \in Turn
  PROVE  /\ Advanced(st).connected = st.connected
         /\ st.call < Len(st.calls) =>
              /\ Advanced(st).at = "tool" /\ Advanced(st).call = st.call + 1
              /\ Advanced(st).iter = st.iter /\ Advanced(st).said = st.said
              /\ Advanced(st).calls = st.calls /\ Advanced(st).meant = st.meant
              /\ Advanced(st).context = st.context /\ Advanced(st).frames = st.frames
              /\ Advanced(st).live = st.live
         /\ ~ (st.call < Len(st.calls)) /\ st.iter + 1 < MaxIterations =>
              /\ Advanced(st).at = "model" /\ Advanced(st).call = 0
              /\ Advanced(st).iter = st.iter + 1 /\ Advanced(st).said = FALSE
              /\ Advanced(st).calls = <<>> /\ Advanced(st).meant = <<>>
              /\ Advanced(st).context = st.context /\ Advanced(st).frames = st.frames
              /\ Advanced(st).live = st.live
         /\ ~ (st.call < Len(st.calls)) /\ ~ (st.iter + 1 < MaxIterations) =>
              Advanced(st) = Moved(Emitted(st, "error"), "failed")
<1>1. CASE st.call < Len(st.calls)
  <2>1. Advanced(st) = [st EXCEPT !.at = "tool", !.call = st.call + 1]
    BY <1>1 DEF Advanced
  <2> QED
    BY <1>1, <2>1 DEF Turn
<1>2. CASE ~ (st.call < Len(st.calls)) /\ st.iter + 1 < MaxIterations
  <2>1. Advanced(st) = [st EXCEPT !.at = "model", !.iter = st.iter + 1, !.said = FALSE, !.call = 0,
                                  !.calls = <<>>, !.meant = <<>>]
    BY <1>2 DEF Advanced
  <2>2. PICK empty : empty = <<>>
    OBVIOUS
  <2>3. PICK next : next = st.iter + 1
    OBVIOUS
  <2>4. PICK s2 : s2 = [st EXCEPT !.at = "model", !.iter = next, !.said = FALSE]
    OBVIOUS
  <2>5. Advanced(st) = [s2 EXCEPT !.call = 0, !.calls = empty, !.meant = empty]
    BY <2>1, <2>2, <2>3, <2>4
  <2>6. /\ DOMAIN s2 = DOMAIN st /\ s2.at = "model" /\ s2.iter = next /\ s2.said = FALSE
        /\ s2.context = st.context /\ s2.frames = st.frames /\ s2.connected = st.connected /\ s2.live = st.live
    BY <2>4 DEF Turn
  <2>7. {"call", "calls", "meant"} \subseteq DOMAIN st
    BY DEF Turn
  <2> QED
    BY <1>2, <2>2, <2>3, <2>5, <2>6, <2>7
<1>3. CASE ~ (st.call < Len(st.calls)) /\ ~ (st.iter + 1 < MaxIterations)
  <2>1. Advanced(st) = Moved(Emitted(st, "error"), "failed")
    BY <1>3 DEF Advanced
  <2>2. "error" \in Kinds /\ "failed" \in Points
    BY DEF Kinds, Points
  <2>3. Emitted(st, "error") \in Turn /\ Emitted(st, "error").connected = st.connected
    BY <2>2, EmittedFacts
  <2>4. Advanced(st).connected = st.connected
    BY <2>1, <2>2, <2>3, MovedFacts
  <2> QED
    BY <1>3, <2>1, <2>4
<1> QED
  BY <1>1, <1>2, <1>3

LEMMA AdvancedPlaced ==
  ASSUME NEW st \in Turn, Len(st.calls) \in 0 .. MaxCalls, st.calls = st.meant, st.call \in 1 .. Len(st.calls)
  PROVE  Placed(Advanced(st))
<1>0. MaxIterations \in Nat /\ MaxCalls \in Nat /\ Len(st.calls) \in Nat /\ st.iter \in Nat
  BY Bounds DEF Turn
<1>1. CASE st.call < Len(st.calls)
  <2>1. Advanced(st) = [st EXCEPT !.at = "tool", !.call = st.call + 1]
    BY <1>1 DEF Advanced
  <2>2. st.call + 1 \in 1 .. Len(st.calls) /\ st.call + 1 \in 0 .. MaxCalls
    BY <1>0, <1>1
  <2> QED
    BY <2>1, <2>2 DEF Placed, Positioned, Turn, Points
<1>2. CASE ~ (st.call < Len(st.calls)) /\ st.iter + 1 < MaxIterations
  <2>1. Advanced(st) = [st EXCEPT !.at = "model", !.iter = st.iter + 1, !.said = FALSE, !.call = 0,
                                  !.calls = <<>>, !.meant = <<>>]
    BY <1>2 DEF Advanced
  <2>2. st.iter + 1 \in 0 .. MaxIterations /\ 0 \in 0 .. MaxCalls
    BY <1>0, <1>2
  <2>3. <<>> \in Seq(Part) /\ Len(<<>>) = 0
    BY EmptySeq
  <2>4. PICK s2 : s2 = [st EXCEPT !.at = "model", !.iter = st.iter + 1, !.said = FALSE]
    OBVIOUS
  <2>5. PICK empty : empty = <<>>
    OBVIOUS
  <2>6. s2 \in Turn
    BY <2>2, <2>4 DEF Turn, Points
  <2>7. Advanced(st) = [s2 EXCEPT !.call = 0, !.calls = empty, !.meant = empty]
    BY <2>1, <2>4, <2>5
  <2>8. Advanced(st) \in Turn
    BY <2>2, <2>3, <2>5, <2>6, <2>7 DEF Turn
  <2>9. /\ Advanced(st).at = "model" /\ Advanced(st).call = 0
        /\ Advanced(st).calls = <<>> /\ Advanced(st).meant = <<>>
    BY <1>2, AdvancedFacts
  <2>10. Len(Advanced(st).calls) \in 0 .. MaxCalls
    BY <1>0, <2>3, <2>9
  <2> QED
    BY <2>8, <2>9, <2>10 DEF Placed, Positioned
<1>3. CASE ~ (st.call < Len(st.calls)) /\ ~ (st.iter + 1 < MaxIterations)
  <2>1. Advanced(st) = Moved(Emitted(st, "error"), "failed")
    BY <1>3 DEF Advanced
  <2>2. Emitted(st, "error") \in Turn /\ Emitted(st, "error").calls = st.calls /\ Emitted(st, "error").meant = st.meant
    BY EmittedFacts DEF Kinds
  <2>3. "failed" \in Points
    BY DEF Points
  <2> QED
    BY <2>1, <2>2, <2>3, MovedFacts DEF Placed, Positioned
<1> QED
  BY <1>1, <1>2, <1>3

LEMMA SaveTypes ==
  ASSUME NEW t, NEW role, Save(t, role), Row(t, role) \in Message, stored \in Seq(Message),
         faults \in 0 .. MaxFaults
  PROVE  stored' \in Seq(Message) /\ faults' \in 0 .. MaxFaults
<1>1. Append(stored, Row(t, role)) \in Seq(Message)
  BY AppendProperties
<1>2. NoFault \/ Fault => faults' \in 0 .. MaxFaults
  BY Bounds DEF Fault, NoFault
<1> QED
  BY <1>1, <1>2 DEF Save, NoFault

LEMMA ReplayTyped ==
  ASSUME stored \in Seq(Message)
  PROVE  /\ Replayed \in Seq(Message)
         /\ [i \in 1 .. Len(Replayed) |-> [msg |-> Replayed[i], calls |-> 0]] \in Seq(Context)
<1> DEFINE K == {m \in Message : m.role \in {"user", "assistant"}}
<1>1. Replayed \in Seq(Message \cap K)
  <2> HIDE DEF K
  <2>1. Only(stored, K) \in Seq(Message \cap K)
    BY OnlySelects
  <2> QED
    BY <2>1 DEF Replayed, K
<1>2. Replayed \in Seq(Message)
  <2>1. Message \cap K \subseteq Message
    OBVIOUS
  <2> HIDE DEF K
  <2> QED
    BY <1>1, <2>1, SeqMonotonic
<1>3. PICK r \in Seq(Message) : r = Replayed
  BY <1>2
<1>4. Len(r) \in Nat /\ \A i \in 1 .. Len(r) : r[i] \in Message
  BY LenProperties, ElementOfSeq
<1>5. [i \in 1 .. Len(r) |-> [msg |-> r[i], calls |-> 0]] \in [1 .. Len(r) -> Context]
  BY <1>4, Bounds DEF Context
<1>6. [i \in 1 .. Len(r) |-> [msg |-> r[i], calls |-> 0]] \in Seq(Context)
  BY <1>4, <1>5, ListOf
<1> QED
  BY <1>2, <1>3, <1>6

\* The answer, before its text is stored.
LEMMA AnswerFacts ==
  ASSUME turn \in [Turns -> Turn], NEW t \in Turns, NEW answer \in Answers, Answer(t, answer)
  PROVE  /\ turn'[t] \in Turn
         /\ turn'[t].at = "save" /\ turn'[t].call = 0 /\ turn'[t].calls = answer.heard
         /\ turn'[t].meant = answer.meant /\ turn'[t].iter = turn[t].iter /\ turn'[t].said = turn[t].said
         /\ turn'[t].frames = turn[t].frames /\ turn'[t].connected = turn[t].connected
         /\ turn'[t].live = turn[t].live
         /\ turn'[t].context = Append(turn[t].context, [msg |-> Row(t, "assistant"), calls |-> Len(answer.heard)])
<1>1. /\ answer.heard \in Seq(Part) /\ Len(answer.heard) \in 0 .. MaxCalls /\ answer.meant \in Seq(Part)
      /\ 0 \in 0 .. MaxCalls
  BY AnswersTyped, Bounds
<1>2. PICK noted : noted = Noted(turn[t], Row(t, "assistant"), Len(answer.heard))
  OBVIOUS
<1>3. /\ noted \in Turn /\ noted.iter = turn[t].iter /\ noted.said = turn[t].said
      /\ noted.frames = turn[t].frames /\ noted.connected = turn[t].connected /\ noted.live = turn[t].live
      /\ noted.context = Append(turn[t].context, [msg |-> Row(t, "assistant"), calls |-> Len(answer.heard)])
  <2>1. turn[t] \in Turn /\ Row(t, "assistant") \in Message
    BY RowTyped
  <2> QED
    BY <1>1, <1>2, <2>1, NotedFacts
<1>4. PICK heard, meant : heard = answer.heard /\ meant = answer.meant
  OBVIOUS
<1>5. PICK new : new = [noted EXCEPT !.at = "save", !.meant = meant, !.calls = heard, !.call = 0]
  OBVIOUS
<1>6. Become(t, new)
  BY <1>2, <1>4, <1>5 DEF Answer
<1>7. turn'[t] = new
  BY <1>6, OthersStay
<1>8. /\ new \in Turn /\ new.at = "save" /\ new.call = 0 /\ new.calls = heard /\ new.meant = meant
      /\ new.iter = noted.iter /\ new.said = noted.said /\ new.frames = noted.frames
      /\ new.connected = noted.connected /\ new.live = noted.live /\ new.context = noted.context
  BY <1>1, <1>3, <1>4, <1>5 DEF Turn, Points
<1> QED
  BY <1>3, <1>4, <1>7, <1>8

TurnInv == TurnTypeOK /\ \A t \in Turns : Positioned(turn[t])

\* What is done to a turn outside its loop.
LEMMA FreshPlaced ==
  ASSUME NEW st \in Turn, Positioned(st), NEW point \in {"check", "ask", "history", "finish", "failed"},
         point \in {"check", "ask", "history"} => st.call = 0
  PROVE  Placed(Moved(st, point))
<1>1. point \in Points
  BY DEF Points
<1> QED
  BY <1>1, MovedFacts DEF Placed, Positioned

LEMMA EmittedPlaced ==
  ASSUME NEW st \in Turn, Positioned(st), NEW kind \in Kinds
  PROVE  Placed(Emitted(st, kind))
  BY EmittedFacts DEF Placed, Positioned

LEMMA EndedPlaced ==
  ASSUME NEW st \in Turn
  PROVE  Placed(Ended(st))
<1>1. Len(<<>>) = 0 /\ 0 \in 0 .. MaxCalls
  BY EmptySeq, Bounds
<1> QED
  BY <1>1, EndedFacts DEF Placed, Positioned

LEMMA TurnStepInv ==
  ASSUME TurnInv, NEW t \in Turns, Open(t) \/ TurnStep(t) \/ Disconnect(t) \/ Timeout(t) \/ Crash(t)
  PROVE  TurnInv'
<1>0. /\ exists \in BOOLEAN /\ stored \in Seq(Message) /\ turn \in [Turns -> Turn] /\ faults \in 0 .. MaxFaults
      /\ turn[t] \in Turn /\ Positioned(turn[t]) /\ Placed(turn[t])
      /\ \A u \in Turns : Positioned(turn[u])
  BY DEF TurnInv, TurnTypeOK, Placed
<1>1. /\ NoFault => faults' \in 0 .. MaxFaults
      /\ Fault => faults' \in 0 .. MaxFaults
      /\ UNCHANGED faults => faults' \in 0 .. MaxFaults
  BY <1>0, Bounds DEF Fault, NoFault
<1>2. Row(t, "user") \in Message /\ Row(t, "assistant") \in Message /\ Row(t, "tool") \in Message
  BY <1>0, RowTyped
<1> DEFINE Rest == exists' \in BOOLEAN /\ stored' \in Seq(Message) /\ faults' \in 0 .. MaxFaults
<1>3. ASSUME Placed(turn'[t]), NEW new, Become(t, new), Rest PROVE TurnInv'
  <2>1. turn'[t] = new /\ \A u \in Turns : u # t => turn'[u] = turn[u]
    BY <1>0, <1>3, OthersStay
  <2>2. turn' \in [Turns -> Turn]
    BY <1>0, <1>3, <2>1, OthersStay DEF Placed
  <2>3. ASSUME NEW u \in Turns PROVE Positioned(turn'[u])
    BY <1>0, <1>3, <2>1 DEF Placed
  <2> QED
    BY <1>3, <2>2, <2>3 DEF TurnInv, TurnTypeOK
<1>4. ASSUME NEW new, Become(t, new), Placed(new), Rest PROVE TurnInv'
  <2>1. turn'[t] = new
    BY <1>0, <1>4, OthersStay
  <2> QED
    BY <1>3, <1>4, <2>1
<1> HIDE DEF Rest
<1>5. CASE Open(t)
  <2>1. Become(t, Moved(turn[t], "check")) /\ Rest
    BY <1>0, <1>1, <1>5 DEF Open, Rest
  <2>2. turn[t].call = 0
    BY <1>0, <1>5 DEF Positioned, Open, At
  <2> QED
    BY <1>0, <1>4, <2>1, <2>2, FreshPlaced
<1>6. CASE Check(t)
  <2>1. Rest
    BY <1>0, <1>1, <1>6 DEF Check, Rest
  <2>2. \E point \in {"ask", "failed"} : Become(t, Moved(turn[t], point))
    BY <1>6 DEF Check
  <2>3. turn[t].call = 0
    BY <1>0, <1>6 DEF Positioned, Check, At
  <2> QED
    BY <1>0, <1>4, <2>1, <2>2, <2>3, FreshPlaced
<1>7. CASE Ask(t)
  <2>1. Append(stored, Row(t, "user")) \in Seq(Message)
    BY <1>0, <1>2, AppendProperties
  <2>2. Rest
    BY <1>0, <1>1, <1>7, <2>1 DEF Ask, Rest
  <2>3. \E point \in {"history", "failed"} : Become(t, Moved(turn[t], point))
    BY <1>7 DEF Ask
  <2>4. turn[t].call = 0
    BY <1>0, <1>7 DEF Positioned, Ask, At
  <2> QED
    BY <1>0, <1>4, <2>2, <2>3, <2>4, FreshPlaced
<1>8. CASE History(t)
  <2>1. Rest
    BY <1>0, <1>1, <1>8 DEF History, Rest
  <2>2. CASE Become(t, Moved(turn[t], "failed"))
    BY <1>0, <1>4, <2>1, <2>2, FreshPlaced
  <2>3. PICK replay : replay = [i \in 1 .. Len(Replayed) |-> [msg |-> Replayed[i], calls |-> 0]]
    OBVIOUS
  <2>4. CASE Become(t, [turn[t] EXCEPT !.at = "model", !.context = replay])
    <3>1. replay \in Seq(Context)
      BY <1>0, <2>3, ReplayTyped
    <3>2. PICK new : new = [turn[t] EXCEPT !.at = "model", !.context = replay]
      OBVIOUS
    <3>3. /\ new \in Turn /\ new.at = "model" /\ new.call = turn[t].call
          /\ new.calls = turn[t].calls /\ new.meant = turn[t].meant
      BY <1>0, <3>1, <3>2 DEF Turn, Points
    <3>4. turn[t].call = 0
      BY <1>0, <1>8 DEF Positioned, History, At
    <3>5. Placed(new)
      BY <1>0, <3>3, <3>4 DEF Placed, Positioned
    <3> QED
      BY <1>4, <2>1, <2>4, <3>2, <3>5
  <2> QED
    BY <1>8, <2>2, <2>3, <2>4 DEF History
<1>9. CASE StreamText(t)
  <2>1. Rest
    BY <1>0, <1>1, <1>9 DEF StreamText, Rest
  <2>2. PICK e : e = Emitted(turn[t], "text")
    OBVIOUS
  <2>3. Placed(e)
    BY <1>0, <2>2, EmittedPlaced DEF Kinds
  <2>4. Placed([e EXCEPT !.said = TRUE])
    BY <2>3 DEF Placed, Positioned, Turn
  <2>5. Become(t, [e EXCEPT !.said = TRUE])
    BY <1>9, <2>2 DEF StreamText
  <2> QED
    BY <1>4, <2>1, <2>4, <2>5
<1>10. CASE ModelFails(t)
  <2>1. Rest /\ Become(t, Moved(Emitted(turn[t], "error"), "failed"))
    BY <1>0, <1>1, <1>10 DEF ModelFails, Rest
  <2>2. Placed(Emitted(turn[t], "error"))
    BY <1>0, EmittedPlaced DEF Kinds
  <2>3. Placed(Moved(Emitted(turn[t], "error"), "failed"))
    BY <2>2, FreshPlaced DEF Placed
  <2> QED
    BY <1>4, <2>1, <2>3
<1>11. CASE SaveText(t)
  <2>1. Rest
    <3>1. CASE turn[t].said
      <4>1. Save(t, "assistant") /\ UNCHANGED exists
        BY <1>11, <3>1 DEF SaveText
      <4> QED
        BY <1>0, <1>2, <4>1, SaveTypes DEF Rest
    <3>2. CASE ~ turn[t].said
      BY <1>0, <1>1, <1>11, <3>2 DEF SaveText, Rest
    <3> QED
      BY <3>1, <3>2
  <2>2. CASE turn[t].calls = <<>>
    <3>1. Become(t, Moved(turn[t], "finish"))
      BY <1>11, <2>2 DEF SaveText
    <3> QED
      BY <1>0, <1>4, <2>1, <3>1, FreshPlaced
  <2>3. CASE turn[t].calls # <<>>
    <3>1. Become(t, [turn[t] EXCEPT !.at = "tool", !.call = 1])
      BY <1>11, <2>3 DEF SaveText
    <3>2. Len(turn[t].calls) \in Nat \ {0} /\ Len(turn[t].calls) \in 0 .. MaxCalls
      BY <1>0, <2>3, EmptySeq DEF Turn, Positioned
    <3>3. 1 \in 1 .. Len(turn[t].calls) /\ 1 \in 0 .. MaxCalls
      BY <3>2, Bounds
    <3>4. Placed([turn[t] EXCEPT !.at = "tool", !.call = 1])
      BY <1>0, <3>3 DEF Placed, Positioned, Turn, Points
    <3> QED
      BY <1>4, <2>1, <3>1, <3>4
  <2> QED
    BY <2>2, <2>3
<1>12. ASSUME NEW answer \in Answers, Answer(t, answer) PROVE TurnInv'
  <2>1. Rest
    BY <1>0, <1>1, <1>12 DEF Answer, Rest
  <2>2. /\ turn'[t] \in Turn /\ turn'[t].at = "save" /\ turn'[t].call = 0
        /\ turn'[t].calls = answer.heard /\ turn'[t].meant = answer.meant
    BY <1>0, <1>12, AnswerFacts
  <2>3. Placed(turn'[t])
    BY <2>2, AnswersTyped DEF Placed, Positioned
  <2>4. \E new : Become(t, new)
    BY <1>12 DEF Answer
  <2> QED
    BY <1>3, <2>1, <2>3, <2>4
<1>13. Placed(CallTold(t)) /\ CallTold(t).at = turn[t].at /\ CallTold(t).call = turn[t].call /\ CallTold(t).calls = turn[t].calls
  BY <1>0, EmittedPlaced, EmittedFacts DEF CallTold, Kinds
<1>14. CASE CallTool(t)
  <2>1. Rest /\ Become(t, Moved(CallTold(t), "execute")) /\ At(t, "tool")
    BY <1>0, <1>1, <1>14 DEF CallTool, Rest
  <2>2. "execute" \in Points
    BY DEF Points
  <2>3. Placed(Moved(CallTold(t), "execute"))
    BY <1>13, <2>1, <2>2, MovedFacts DEF Placed, Positioned, At
  <2> QED
    BY <1>4, <2>1, <2>3
<1>15. CASE UnknownTool(t)
  <2>1. PICK e : e = Emitted(CallTold(t), "unknown_result")
    OBVIOUS
  <2>2. /\ Placed(e) /\ e.at = turn[t].at /\ e.call = turn[t].call /\ e.calls = turn[t].calls
    BY <1>13, <2>1, EmittedPlaced, EmittedFacts DEF Kinds, Placed
  <2>3. PICK n : n = Noted(e, Row(t, "tool"), 0)
    OBVIOUS
  <2>4. n \in Turn /\ n.call = turn[t].call /\ n.calls = e.calls /\ n.meant = e.meant
    BY <1>2, <2>2, <2>3, Bounds, NotedFacts DEF Placed
  <2>5. Rest /\ Become(t, Advanced(n)) /\ At(t, "tool")
    BY <1>0, <1>1, <1>15, <2>1, <2>3 DEF UnknownTool, Rest
  <2>6. Placed(Advanced(n))
    BY <1>0, <2>2, <2>4, <2>5, AdvancedPlaced DEF Placed, Positioned, At
  <2> QED
    BY <1>4, <2>5, <2>6
<1>16. CASE Progress(t)
  <2>1. Rest /\ Become(t, Emitted(turn[t], "tool_progress"))
    BY <1>0, <1>1, <1>16 DEF Progress, Rest
  <2> QED
    BY <1>0, <1>4, <2>1, EmittedPlaced DEF Kinds
<1>17. CASE RunTool(t)
  <2>1. PICK result \in {"tool_result", "orphan_result"} :
          Become(t, Moved(Noted(Emitted(turn[t], result), Row(t, "tool"), 0), "save_tool"))
    BY <1>17 DEF RunTool
  <2>2. Rest /\ At(t, "execute")
    BY <1>0, <1>1, <1>17 DEF RunTool, Rest
  <2>3. PICK e : e = Emitted(turn[t], result)
    OBVIOUS
  <2>4. /\ Placed(e) /\ e.at = turn[t].at /\ e.call = turn[t].call /\ e.calls = turn[t].calls
    <3>1. result \in Kinds
      BY DEF Kinds
    <3> QED
      BY <1>0, <2>3, <3>1, EmittedPlaced, EmittedFacts
  <2>5. PICK n : n = Noted(e, Row(t, "tool"), 0)
    OBVIOUS
  <2>6. n \in Turn /\ n.call = e.call /\ n.calls = e.calls /\ n.meant = e.meant
    BY <1>2, <2>4, <2>5, Bounds, NotedFacts DEF Placed
  <2>7. "save_tool" \in Points
    BY DEF Points
  <2>8. Placed(Moved(n, "save_tool"))
    BY <1>0, <2>2, <2>4, <2>6, <2>7, MovedFacts DEF Placed, Positioned, At
  <2> QED
    BY <1>4, <2>1, <2>2, <2>3, <2>5, <2>8
<1>18. CASE SaveTool(t)
  <2>1. Rest
    <3>1. CASE Parses(Asked(t).args)
      <4>1. Save(t, "tool") /\ UNCHANGED exists
        BY <1>18, <3>1 DEF SaveTool
      <4> QED
        BY <1>0, <1>2, <4>1, SaveTypes DEF Rest
    <3>2. CASE ~ Parses(Asked(t).args)
      BY <1>0, <1>1, <1>18, <3>2 DEF SaveTool, Rest
    <3> QED
      BY <3>1, <3>2
  <2>2. Become(t, Advanced(turn[t])) /\ At(t, "save_tool")
    BY <1>18 DEF SaveTool
  <2>3. Placed(Advanced(turn[t]))
    BY <1>0, <2>2, AdvancedPlaced DEF Positioned, At
  <2> QED
    BY <1>4, <2>1, <2>2, <2>3
<1>19. CASE Finish(t)
  <2>1. Rest /\ Become(t, Ended(Emitted(turn[t], "done")))
    BY <1>0, <1>1, <1>19 DEF Finish, Rest
  <2>2. Emitted(turn[t], "done") \in Turn
    BY <1>0, EmittedFacts DEF Kinds
  <2> QED
    BY <1>4, <2>1, <2>2, EndedPlaced
<1>20. CASE HandlerError(t)
  <2>1. Rest /\ Become(t, Ended(Emitted(turn[t], "handler_error")))
    BY <1>0, <1>1, <1>20 DEF HandlerError, Rest
  <2>2. Emitted(turn[t], "handler_error") \in Turn
    BY <1>0, EmittedFacts DEF Kinds
  <2> QED
    BY <1>4, <2>1, <2>2, EndedPlaced
<1>21. CASE Disconnect(t)
  <2>1. Rest /\ Become(t, [turn[t] EXCEPT !.connected = FALSE])
    BY <1>0, <1>1, <1>21 DEF Disconnect, Rest
  <2>2. Placed([turn[t] EXCEPT !.connected = FALSE])
    BY <1>0 DEF Placed, Positioned, Turn
  <2> QED
    BY <1>4, <2>1, <2>2
<1>22. CASE Timeout(t)
  <2>1. Rest /\ Become(t, [turn[t] EXCEPT !.live = FALSE])
    BY <1>0, <1>1, <1>22 DEF Timeout, Rest
  <2>2. Placed([turn[t] EXCEPT !.live = FALSE])
    BY <1>0 DEF Placed, Positioned, Turn
  <2> QED
    BY <1>4, <2>1, <2>2
<1>23. CASE Crash(t)
  <2>1. Rest /\ Become(t, Ended([turn[t] EXCEPT !.connected = FALSE]))
    BY <1>0, <1>1, <1>23 DEF Crash, Rest
  <2>2. [turn[t] EXCEPT !.connected = FALSE] \in Turn
    BY <1>0 DEF Turn
  <2> QED
    BY <1>4, <2>1, <2>2, EndedPlaced
<1> QED
  BY <1>5, <1>6, <1>7, <1>8, <1>9, <1>10, <1>11, <1>12, <1>14, <1>15, <1>16, <1>17, <1>18, <1>19, <1>20,
     <1>21, <1>22, <1>23 DEF TurnStep

LEMMA DeletionInv ==
  ASSUME TurnInv, DeleteConversation
  PROVE  TurnInv'
<1>1. <<>> \in Seq(Message)
  BY EmptySeq
<1> QED
  BY <1>1 DEF TurnInv, TurnTypeOK, DeleteConversation

\* Every turn is well typed and serves a call of the answer it is at, and that
\* answer holds the calls the model meant (service.go:181-251).
THEOREM TurnCorrect == Spec => []TurnInv
<1>1. Init => TurnInv
  <2>1. <<>> \in Seq(Message) /\ 0 \in 0 .. MaxFaults
    BY EmptySeq, Bounds
  <2>2. Positioned(NoTurn)
    <3>1. Len(<<>>) = 0 /\ 0 \in 0 .. MaxCalls
      BY EmptySeq, Bounds
    <3> QED
      BY <3>1 DEF Positioned, NoTurn
  <2> QED
    BY <2>1, <2>2, NoTurnTyped DEF Init, TurnInv, TurnTypeOK
<1>2. TurnInv /\ [Next]_vars => TurnInv'
  <2>1. TurnInv /\ UNCHANGED vars => TurnInv'
    BY DEF TurnInv, TurnTypeOK, vars
  <2> QED
    BY <2>1, TurnStepInv, DeletionInv DEF Next
<1> QED
  BY <1>1, <1>2, PTL DEF Spec

\* Every state is well typed: no turn asks for more tools or iterations than it
\* may (service.go:181-186), whatever the model says and in which fragments.
THEOREM TypeCorrect == Spec => []TurnTypeOK
<1>1. TurnInv => TurnTypeOK
  BY DEF TurnInv
<1> QED
  BY <1>1, TurnCorrect, PTL

\* The tools that run are the calls the model meant, for any calls and any
\* interleaving of their fragments (ai/chat.go:61-118).
THEOREM CallsAsMeantCorrect == Spec => []CallsAsMeant
<1>1. TurnInv => CallsAsMeant
  BY DEF TurnInv, Positioned, CallsAsMeant
<1> QED
  BY <1>1, TurnCorrect, PTL

---------------------------------------------------------------------------
(***************************************************************************)
(* The frames of a turn.                                                   *)
(***************************************************************************)
\* What a client that is still connected has heard last, at each point.
LastIn(f, K) == f # <<>> /\ f[Len(f)].kind \in K
Results == {"tool_result", "unknown_result", "orphan_result"}
Settled(f) == f = <<>> \/ LastIn(f, Results \cup {"text"})
Heeded(st) ==
  /\ st.at \in {"idle", "check", "ask", "history"} => st.frames = <<>>
  /\ st.at = "model" => IF st.said THEN Settled(st.frames)
                        ELSE st.frames = <<>> \/ LastIn(st.frames, Results)
  /\ st.at \in {"save", "tool", "finish"} => Settled(st.frames)
  /\ st.at = "save_tool" => LastIn(st.frames, Results)
  /\ st.at = "execute" => IF Parses(st.calls[st.call].args)
                            THEN LastIn(st.frames, {"tool_call", "tool_progress"})
                          ELSE Settled(st.frames)
  /\ st.at = "failed" => st.frames = <<>> \/ LastIn(st.frames, {"error"})
  /\ st.at = "over" => LastIn(st.frames, {"done", "handler_error"})
Grammatical(f) == \A i \in 1 .. Len(f) - 1 : f[i + 1].kind \in Follows[f[i].kind]
Orderly(st) == Grammatical(st.frames) /\ (st.connected => Heeded(st))

LEMMA FollowsFacts ==
  /\ \A k \in {"tool_call", "unknown_result", "orphan_result", "done", "error"} :
       \A l \in Results \cup {"text"} : k \in Follows[l]
  /\ \A l \in Results : "text" \in Follows[l]
  /\ "tool_progress" \in Follows["tool_call"] /\ "unknown_result" \in Follows["tool_call"]
  /\ \A l \in {"tool_call", "tool_progress"} : "tool_result" \in Follows[l]
  /\ "handler_error" \in Follows["error"]
<1>1. /\ Follows["text"] = Said \ {"text"}
      /\ Follows["tool_result"] = Said /\ Follows["unknown_result"] = Said /\ Follows["orphan_result"] = Said
      /\ Follows["tool_call"] = {"tool_progress", "tool_result", "unknown_result"}
      /\ Follows["tool_progress"] = {"tool_result"} /\ Follows["error"] = {"handler_error"}
  BY DEF Follows
<1>2. \A k \in {"tool_call", "unknown_result", "orphan_result", "done", "error"} : k \in Said \ {"text"}
  BY DEF Said
<1>3. "text" \in Said
  BY DEF Said
<1> QED
  BY <1>1, <1>2, <1>3 DEF Results

\* A frame that may follow the last one keeps the grammar.
LEMMA Tells ==
  ASSUME NEW st \in Turn, NEW kind \in Kinds, Grammatical(st.frames),
         st.connected => st.frames = <<>> \/ (\E K : LastIn(st.frames, K) /\ \A l \in K : kind \in Follows[l])
  PROVE  /\ Grammatical(Emitted(st, kind).frames)
         /\ st.connected => LastIn(Emitted(st, kind).frames, {kind})
<1>1. CASE ~ st.connected
  BY <1>1, EmittedFacts
<1>2. CASE st.connected
  <2>1. PICK f : f = [kind |-> kind, iter |-> st.iter, call |-> st.call]
    OBVIOUS
  <2>2. f \in Frame /\ f.kind = kind
    BY <2>1 DEF Turn, Frame, Kinds
  <2>3. PICK g \in Seq(Frame) : g = st.frames
    BY DEF Turn
  <2>4. PICK h : h = Append(g, f)
    OBVIOUS
  <2>5. /\ h # <<>> /\ Len(h) = Len(g) + 1 /\ h[Len(g) + 1] = f /\ Len(g) \in Nat
        /\ \A i \in 1 .. Len(g) : h[i] = g[i]
    BY <2>2, <2>4, AppendProperties, LenProperties
  <2>6. Emitted(st, kind).frames = h
    BY <1>2, <2>1, <2>3, <2>4, EmittedFacts
  <2>7. LastIn(h, {kind})
    BY <2>2, <2>5 DEF LastIn
  <2>8. ASSUME NEW i \in 1 .. Len(h) - 1 PROVE h[i + 1].kind \in Follows[h[i].kind]
    <3>1. CASE i < Len(g)
      <4>1. i \in 1 .. Len(g) - 1 /\ i \in 1 .. Len(g) /\ i + 1 \in 1 .. Len(g)
        BY <2>5, <3>1
      <4>2. g[i + 1].kind \in Follows[g[i].kind]
        BY <2>3, <4>1 DEF Grammatical
      <4> QED
        BY <2>5, <4>1, <4>2
    <3>2. CASE ~ (i < Len(g))
      <4>1. i = Len(g) /\ i \in 1 .. Len(g)
        BY <2>5, <3>2
      <4>2. g # <<>>
        BY <4>1, EmptySeq
      <4>3. kind \in Follows[g[Len(g)].kind]
        BY <1>2, <2>3, <4>2 DEF LastIn
      <4> QED
        BY <2>2, <2>5, <4>1, <4>3
    <3> QED
      BY <3>1, <3>2
  <2> QED
    BY <2>6, <2>7, <2>8 DEF Grammatical
<1> QED
  BY <1>1, <1>2

LEMMA SettledTells ==
  ASSUME NEW st \in Turn, NEW kind \in {"tool_call", "unknown_result", "orphan_result", "done", "error"},
         Grammatical(st.frames), st.connected => Settled(st.frames)
  PROVE  /\ Grammatical(Emitted(st, kind).frames)
         /\ st.connected => LastIn(Emitted(st, kind).frames, {kind})
<1>1. st.connected => st.frames = <<>> \/ (\E K : LastIn(st.frames, K) /\ \A l \in K : kind \in Follows[l])
  BY FollowsFacts DEF Settled
<1>2. kind \in Kinds
  BY DEF Kinds
<1> QED
  BY <1>1, <1>2, Tells

LEMMA AdvancedOrderly ==
  ASSUME NEW st \in Turn, Grammatical(st.frames),
         st.connected => st.frames = <<>> \/ LastIn(st.frames, Results),
         st.at \in {"tool", "save_tool"}
  PROVE  Orderly(Advanced(st))
<1>0. st.connected => Settled(st.frames)
  BY DEF Settled, LastIn
<1>1. CASE st.call < Len(st.calls)
  BY <1>0, <1>1, AdvancedFacts DEF Orderly, Heeded
<1>2. CASE ~ (st.call < Len(st.calls)) /\ st.iter + 1 < MaxIterations
  BY <1>2, AdvancedFacts DEF Orderly, Heeded
<1>3. CASE ~ (st.call < Len(st.calls)) /\ ~ (st.iter + 1 < MaxIterations)
  <2>1. PICK e : e = Emitted(st, "error")
    OBVIOUS
  <2>2. /\ e \in Turn /\ Grammatical(e.frames) /\ e.connected = st.connected
        /\ st.connected => LastIn(e.frames, {"error"})
    BY <1>0, <2>1, SettledTells, EmittedFacts DEF Kinds
  <2>3. "failed" \in Points
    BY DEF Points
  <2>4. /\ Advanced(st).at = "failed" /\ Advanced(st).frames = e.frames
        /\ Advanced(st).connected = st.connected
    <3>1. Advanced(st) = Moved(e, "failed")
      BY <1>3, <2>1, AdvancedFacts
    <3>2. PICK m : m = Moved(e, "failed")
      OBVIOUS
    <3>3. m.at = "failed" /\ m.frames = e.frames /\ m.connected = e.connected
      BY <2>2, <2>3, <3>2, MovedFacts
    <3> QED
      BY <2>2, <3>1, <3>2, <3>3
  <2> QED
    BY <2>2, <2>4 DEF Orderly, Heeded
<1> QED
  BY <1>1, <1>2, <1>3

LEMMA MovedOrderly ==
  ASSUME NEW st \in Turn, Orderly(st), NEW point \in {"ask", "check", "history", "failed"},
         st.at \in {"idle", "check", "ask", "history"}
  PROVE  Orderly(Moved(st, point))
<1>1. point \in Points
  BY DEF Points
<1> QED
  BY <1>1, MovedFacts DEF Orderly, Heeded

LEMMA EndedOrderly ==
  ASSUME NEW st \in Turn, Grammatical(st.frames), st.connected => LastIn(st.frames, {"done", "handler_error"})
  PROVE  Orderly(Ended(st))
  BY EndedFacts DEF Orderly, Heeded

LEMMA OrderlyStep ==
  ASSUME TurnInv, NEW t \in Turns, Orderly(turn[t]),
         Open(t) \/ TurnStep(t) \/ Disconnect(t) \/ Timeout(t) \/ Crash(t)
  PROVE  Orderly(turn'[t])
<1>0. /\ turn \in [Turns -> Turn] /\ turn[t] \in Turn /\ Positioned(turn[t])
      /\ Grammatical(turn[t].frames) /\ (turn[t].connected => Heeded(turn[t]))
  BY DEF TurnInv, TurnTypeOK, Orderly
<1>1. ASSUME NEW new, Become(t, new), Orderly(new) PROVE Orderly(turn'[t])
  BY <1>0, <1>1, OthersStay
<1>2. CASE Open(t)
  BY <1>0, <1>1, <1>2, MovedOrderly DEF Open, At
<1>3. CASE Check(t)
  BY <1>0, <1>1, <1>3, MovedOrderly DEF Check, At
<1>4. CASE Ask(t)
  BY <1>0, <1>1, <1>4, MovedOrderly DEF Ask, At
<1>5. CASE History(t)
  <2>1. CASE Become(t, Moved(turn[t], "failed"))
    BY <1>0, <1>1, <1>5, <2>1, MovedOrderly DEF History, At
  <2>2. PICK replay : replay = [i \in 1 .. Len(Replayed) |-> [msg |-> Replayed[i], calls |-> 0]]
    OBVIOUS
  <2>3. CASE Become(t, [turn[t] EXCEPT !.at = "model", !.context = replay])
    <3>1. PICK new : new = [turn[t] EXCEPT !.at = "model", !.context = replay]
      OBVIOUS
    <3>2. new.at = "model" /\ new.frames = turn[t].frames /\ new.connected = turn[t].connected
      BY <1>0, <3>1 DEF Turn
    <3>3. turn[t].connected => turn[t].frames = <<>>
      BY <1>0, <1>5 DEF History, At, Heeded
    <3>4. Orderly(new)
      BY <1>0, <3>2, <3>3 DEF Orderly, Heeded, Settled
    <3> QED
      BY <1>1, <2>3, <3>1, <3>4
  <2> QED
    BY <1>5, <2>1, <2>2, <2>3 DEF History
<1>6. CASE StreamText(t)
  <2>1. /\ turn[t].at = "model" /\ (turn[t].connected => turn[t].frames = <<>> \/ LastIn(turn[t].frames, Results))
    BY <1>0, <1>6 DEF StreamText, At, Heeded
  <2>2. PICK e : e = Emitted(turn[t], "text")
    OBVIOUS
  <2>3. "text" \in Kinds
    BY DEF Kinds
  <2>4. /\ Grammatical(e.frames) /\ (turn[t].connected => LastIn(e.frames, {"text"}))
    BY <1>0, <2>1, <2>2, <2>3, Tells, FollowsFacts
  <2>5. e \in Turn /\ e.at = "model" /\ e.connected = turn[t].connected
    BY <1>0, <2>1, <2>2, <2>3, EmittedFacts
  <2>6. PICK new : new = [e EXCEPT !.said = TRUE]
    OBVIOUS
  <2>7. new.at = "model" /\ new.said = TRUE /\ new.frames = e.frames /\ new.connected = e.connected
    BY <2>5, <2>6 DEF Turn
  <2>8. Orderly(new)
    BY <2>4, <2>5, <2>7 DEF Orderly, Heeded, Settled, LastIn
  <2>9. Become(t, new)
    BY <1>6, <2>2, <2>6 DEF StreamText
  <2> QED
    BY <1>1, <2>8, <2>9
<1>7. CASE ModelFails(t)
  <2>1. turn[t].connected => Settled(turn[t].frames)
    BY <1>0, <1>7 DEF ModelFails, At, Heeded, Settled, LastIn
  <2>2. PICK e : e = Emitted(turn[t], "error")
    OBVIOUS
  <2>3. /\ e \in Turn /\ Grammatical(e.frames) /\ e.connected = turn[t].connected
        /\ (turn[t].connected => LastIn(e.frames, {"error"}))
    BY <1>0, <2>1, <2>2, SettledTells, EmittedFacts DEF Kinds
  <2>4. PICK m : m = Moved(e, "failed")
    OBVIOUS
  <2>5. m.at = "failed" /\ m.frames = e.frames /\ m.connected = e.connected
    BY <2>3, <2>4, MovedFacts DEF Points
  <2>6. Orderly(m)
    BY <2>3, <2>5 DEF Orderly, Heeded
  <2>7. Become(t, m)
    BY <1>7, <2>2, <2>4 DEF ModelFails
  <2> QED
    BY <1>1, <2>6, <2>7
<1>8. CASE SaveText(t)
  <2>1. turn[t].connected => Settled(turn[t].frames)
    BY <1>0, <1>8 DEF SaveText, At, Heeded
  <2>2. CASE turn[t].calls = <<>>
    <3>1. Become(t, Moved(turn[t], "finish"))
      BY <1>8, <2>2 DEF SaveText
    <3>2. "finish" \in Points
      BY DEF Points
    <3>3. Orderly(Moved(turn[t], "finish"))
      BY <1>0, <2>1, <3>2, MovedFacts DEF Orderly, Heeded
    <3> QED
      BY <1>1, <3>1, <3>3
  <2>3. CASE turn[t].calls # <<>>
    <3>1. PICK new : new = [turn[t] EXCEPT !.at = "tool", !.call = 1]
      OBVIOUS
    <3>2. Become(t, new)
      BY <1>8, <2>3, <3>1 DEF SaveText
    <3>3. new.at = "tool" /\ new.frames = turn[t].frames /\ new.connected = turn[t].connected
      BY <1>0, <3>1 DEF Turn
    <3>4. Orderly(new)
      BY <1>0, <2>1, <3>3 DEF Orderly, Heeded
    <3> QED
      BY <1>1, <3>2, <3>4
  <2> QED
    BY <2>2, <2>3
<1>9. ASSUME NEW answer \in Answers, Answer(t, answer) PROVE Orderly(turn'[t])
  <2>1. turn[t].connected => Settled(turn[t].frames)
    BY <1>0, <1>9 DEF Answer, At, Heeded, Settled, LastIn
  <2>2. /\ turn'[t].at = "save" /\ turn'[t].frames = turn[t].frames /\ turn'[t].connected = turn[t].connected
    BY <1>0, <1>9, AnswerFacts
  <2> QED
    BY <1>0, <2>1, <2>2 DEF Orderly, Heeded
<1>10. /\ CallTold(t) \in Turn /\ CallTold(t).at = turn[t].at /\ CallTold(t).call = turn[t].call
       /\ CallTold(t).calls = turn[t].calls /\ CallTold(t).connected = turn[t].connected
       /\ ~ Parses(Asked(t).args) => CallTold(t).frames = turn[t].frames
  BY <1>0, EmittedFacts DEF CallTold, Kinds
<1>11. ASSUME At(t, "tool")
       PROVE  /\ Grammatical(CallTold(t).frames)
              /\ turn[t].connected =>
                   IF Parses(Asked(t).args) THEN LastIn(CallTold(t).frames, {"tool_call"})
                   ELSE Settled(CallTold(t).frames)
  <2>1. turn[t].connected => Settled(turn[t].frames)
    BY <1>0, <1>11 DEF At, Heeded
  <2>2. CASE Parses(Asked(t).args)
    <3>1. CallTold(t) = Emitted(turn[t], "tool_call")
      BY <2>2 DEF CallTold
    <3> QED
      BY <1>0, <2>1, <2>2, <3>1, SettledTells
  <2>3. CASE ~ Parses(Asked(t).args)
    BY <1>0, <1>10, <2>1, <2>3
  <2> QED
    BY <2>2, <2>3
<1>12. CASE CallTool(t)
  <2>1. PICK m : m = Moved(CallTold(t), "execute")
    OBVIOUS
  <2>2. Become(t, m) /\ At(t, "tool")
    BY <1>12, <2>1 DEF CallTool
  <2>3. /\ m.at = "execute" /\ m.frames = CallTold(t).frames /\ m.connected = turn[t].connected
        /\ m.calls = turn[t].calls /\ m.call = turn[t].call
    BY <1>10, <2>1, MovedFacts DEF Points
  <2>4. m.calls[m.call] = Asked(t)
    BY <2>3 DEF Asked
  <2>5. Orderly(m)
    BY <1>11, <2>2, <2>3, <2>4 DEF Orderly, Heeded, LastIn
  <2> QED
    BY <1>1, <2>2, <2>5
<1>13. CASE UnknownTool(t)
  <2>1. PICK c : c = CallTold(t)
    OBVIOUS
  <2>2. At(t, "tool") /\ Become(t, Advanced(Noted(Emitted(c, "unknown_result"), Row(t, "tool"), 0)))
    BY <1>13, <2>1 DEF UnknownTool
  <2>3. PICK e : e = Emitted(c, "unknown_result")
    OBVIOUS
  <2>4. "unknown_result" \in Kinds
    BY DEF Kinds
  <2>5. c.connected => c.frames = <<>> \/ (\E K : LastIn(c.frames, K) /\ \A l \in K : "unknown_result" \in Follows[l])
    BY <1>10, <1>11, <2>1, <2>2, FollowsFacts DEF Settled
  <2>6. Grammatical(e.frames) /\ (c.connected => LastIn(e.frames, {"unknown_result"}))
    BY <1>10, <1>11, <2>1, <2>2, <2>3, <2>4, <2>5, Tells
  <2>7. e \in Turn /\ e.at = turn[t].at /\ e.connected = c.connected
    BY <1>10, <2>1, <2>3, <2>4, EmittedFacts
  <2>8. Row(t, "tool") \in Message /\ 0 \in 0 .. MaxCalls
    BY <1>0, RowTyped, Bounds
  <2>9. PICK n : n = Noted(e, Row(t, "tool"), 0)
    OBVIOUS
  <2>10. n \in Turn /\ n.at = "tool" /\ n.connected = e.connected /\ n.frames = e.frames
    BY <2>2, <2>7, <2>8, <2>9, NotedFacts DEF At
  <2>11. Orderly(Advanced(n))
    BY <2>6, <2>7, <2>10, AdvancedOrderly DEF LastIn, Results
  <2> QED
    BY <1>1, <2>2, <2>3, <2>9, <2>11
<1>14. CASE Progress(t)
  <2>1. PICK e : e = Emitted(turn[t], "tool_progress")
    OBVIOUS
  <2>2. /\ Become(t, e) /\ turn[t].at = "execute" /\ Parses(Asked(t).args) /\ LastIn(turn[t].frames, {"tool_call"})
    BY <1>14, <2>1 DEF Progress, At, LastIn
  <2>3. "tool_progress" \in Kinds
    BY DEF Kinds
  <2>4. \A l \in {"tool_call"} : "tool_progress" \in Follows[l]
    BY FollowsFacts
  <2>5. Grammatical(e.frames) /\ (turn[t].connected => LastIn(e.frames, {"tool_progress"}))
    BY <1>0, <2>1, <2>2, <2>3, <2>4, Tells
  <2>6. /\ e.at = "execute" /\ e.connected = turn[t].connected /\ e.calls = turn[t].calls /\ e.call = turn[t].call
    BY <1>0, <2>1, <2>2, <2>3, EmittedFacts
  <2>7. Orderly(e)
    BY <2>2, <2>5, <2>6 DEF Orderly, Heeded, LastIn, Asked
  <2> QED
    BY <1>1, <2>2, <2>7
<1>15. CASE RunTool(t)
  <2>1. PICK result : /\ result = IF Parses(Asked(t).args) THEN "tool_result" ELSE "orphan_result"
                      /\ Become(t, Moved(Noted(Emitted(turn[t], result), Row(t, "tool"), 0), "save_tool"))
    BY <1>15 DEF RunTool
  <2>2. PICK e : e = Emitted(turn[t], result)
    OBVIOUS
  <2>3. result \in Kinds /\ result \in Results
    BY <2>1 DEF Kinds, Results
  <2>4. turn[t].connected =>
          turn[t].frames = <<>> \/ (\E K : LastIn(turn[t].frames, K) /\ \A l \in K : result \in Follows[l])
    <3>1. turn[t].connected => IF Parses(Asked(t).args) THEN LastIn(turn[t].frames, {"tool_call", "tool_progress"})
                               ELSE Settled(turn[t].frames)
      BY <1>0, <1>15 DEF RunTool, At, Heeded, Asked
    <3>2. CASE Parses(Asked(t).args)
      BY <2>1, <3>1, <3>2, FollowsFacts
    <3>3. CASE ~ Parses(Asked(t).args)
      BY <2>1, <3>1, <3>3, FollowsFacts DEF Settled
    <3> QED
      BY <3>2, <3>3
  <2>5. Grammatical(e.frames) /\ (turn[t].connected => LastIn(e.frames, {result}))
    BY <1>0, <2>2, <2>3, <2>4, Tells
  <2>6. e \in Turn /\ e.connected = turn[t].connected
    BY <1>0, <2>2, <2>3, EmittedFacts
  <2>7. Row(t, "tool") \in Message /\ 0 \in 0 .. MaxCalls
    BY <1>0, RowTyped, Bounds
  <2>8. PICK n : n = Noted(e, Row(t, "tool"), 0)
    OBVIOUS
  <2>9. n \in Turn /\ n.connected = e.connected /\ n.frames = e.frames
    BY <2>6, <2>7, <2>8, NotedFacts
  <2>10. PICK m : m = Moved(n, "save_tool")
    OBVIOUS
  <2>11. m.at = "save_tool" /\ m.frames = e.frames /\ m.connected = e.connected
    BY <2>9, <2>10, MovedFacts DEF Points
  <2>12. Orderly(m)
    BY <2>3, <2>5, <2>6, <2>11 DEF Orderly, Heeded, LastIn
  <2> QED
    BY <1>1, <2>1, <2>2, <2>8, <2>10, <2>12
<1>16. CASE SaveTool(t)
  <2>1. Become(t, Advanced(turn[t])) /\ turn[t].at = "save_tool"
    BY <1>16 DEF SaveTool, At
  <2>2. turn[t].connected => LastIn(turn[t].frames, Results)
    BY <1>0, <2>1 DEF Heeded
  <2> QED
    BY <1>0, <1>1, <2>1, <2>2, AdvancedOrderly
<1>17. CASE Finish(t)
  <2>1. PICK e : e = Emitted(turn[t], "done")
    OBVIOUS
  <2>2. Become(t, Ended(e)) /\ turn[t].at = "finish"
    BY <1>17, <2>1 DEF Finish, At
  <2>3. /\ e \in Turn /\ Grammatical(e.frames) /\ e.connected = turn[t].connected
        /\ (turn[t].connected => LastIn(e.frames, {"done"}))
    BY <1>0, <2>1, <2>2, SettledTells, EmittedFacts DEF Kinds, Heeded
  <2>4. Orderly(Ended(e))
    BY <2>3, EndedOrderly DEF LastIn
  <2> QED
    BY <1>1, <2>2, <2>4
<1>18. CASE HandlerError(t)
  <2>1. PICK e : e = Emitted(turn[t], "handler_error")
    OBVIOUS
  <2>2. Become(t, Ended(e)) /\ turn[t].at = "failed"
    BY <1>18, <2>1 DEF HandlerError, At
  <2>3. turn[t].connected =>
          turn[t].frames = <<>> \/ (\E K : LastIn(turn[t].frames, K) /\ \A l \in K : "handler_error" \in Follows[l])
    BY <1>0, <2>2, FollowsFacts DEF Heeded
  <2>4. "handler_error" \in Kinds
    BY DEF Kinds
  <2>5. /\ e \in Turn /\ Grammatical(e.frames) /\ e.connected = turn[t].connected
        /\ (turn[t].connected => LastIn(e.frames, {"handler_error"}))
    BY <1>0, <2>1, <2>3, <2>4, Tells, EmittedFacts
  <2>6. Orderly(Ended(e))
    BY <2>5, EndedOrderly DEF LastIn
  <2> QED
    BY <1>1, <2>2, <2>6
<1>19. CASE Disconnect(t)
  <2>1. PICK new : new = [turn[t] EXCEPT !.connected = FALSE]
    OBVIOUS
  <2>2. Become(t, new)
    BY <1>19, <2>1 DEF Disconnect
  <2>3. Orderly(new)
    BY <1>0, <2>1 DEF Orderly, Turn
  <2> QED
    BY <1>1, <2>2, <2>3
<1>20. CASE Timeout(t)
  <2>1. PICK new : new = [turn[t] EXCEPT !.live = FALSE]
    OBVIOUS
  <2>2. Become(t, new)
    BY <1>20, <2>1 DEF Timeout
  <2>3. /\ new.frames = turn[t].frames /\ new.connected = turn[t].connected /\ new.at = turn[t].at
        /\ new.said = turn[t].said /\ new.calls = turn[t].calls /\ new.call = turn[t].call
    BY <1>0, <2>1 DEF Turn
  <2>4. Orderly(new)
    BY <1>0, <2>3 DEF Orderly, Heeded
  <2> QED
    BY <1>1, <2>2, <2>4
<1>21. CASE Crash(t)
  <2>1. PICK cut : cut = [turn[t] EXCEPT !.connected = FALSE]
    OBVIOUS
  <2>2. Become(t, Ended(cut))
    BY <1>21, <2>1 DEF Crash
  <2>3. cut \in Turn /\ cut.frames = turn[t].frames /\ ~ cut.connected
    BY <1>0, <2>1 DEF Turn
  <2>4. Orderly(Ended(cut))
    BY <1>0, <2>3, EndedOrderly
  <2> QED
    BY <1>1, <2>2, <2>4
<1> QED
  BY <1>2, <1>3, <1>4, <1>5, <1>6, <1>7, <1>8, <1>9, <1>12, <1>13, <1>14, <1>15, <1>16, <1>17, <1>18, <1>19,
     <1>20, <1>21 DEF TurnStep

AllOrderly == \A t \in Turns : Orderly(turn[t])

\* The inductive invariant of the frames.
THEOREM OrderlyCorrect == Spec => []AllOrderly
<1>1. Init => AllOrderly
  <2>1. Grammatical(<<>>)
    <3>1. Len(<<>>) = 0
      BY EmptySeq
    <3> QED
      BY <3>1 DEF Grammatical
  <2> QED
    BY <2>1 DEF Init, AllOrderly, Orderly, Heeded, NoTurn
<1>2. TurnInv /\ AllOrderly /\ [Next]_vars => AllOrderly'
  <2> SUFFICES ASSUME TurnInv, AllOrderly, [Next]_vars PROVE AllOrderly'
    OBVIOUS
  <2>1. turn \in [Turns -> Turn]
    BY DEF TurnInv, TurnTypeOK
  <2>2. CASE UNCHANGED turn
    BY <2>2 DEF AllOrderly
  <2>3. ASSUME NEW t \in Turns, Open(t) \/ TurnStep(t) \/ Disconnect(t) \/ Timeout(t) \/ Crash(t)
        PROVE  AllOrderly'
    <3>1. Orderly(turn'[t])
      BY <2>3, OrderlyStep DEF AllOrderly
    <3>2. \A u \in Turns : u # t => turn'[u] = turn[u]
      BY <2>1, <2>3, OneTurnMoves
    <3> QED
      BY <3>1, <3>2 DEF AllOrderly
  <2> QED
    BY <2>2, <2>3 DEF Next, DeleteConversation, vars
<1> QED
  BY <1>1, <1>2, TurnCorrect, PTL DEF Spec

\* Whatever fails and whenever the client goes away, the frames it got keep the
\* grammar it parses, and one that stays is told how its turn ended
\* (service.go:181-251 and the error frame of handlers/chat.go:179).
THEOREM FramesInOrderCorrect == Spec => []FramesInOrder
<1>1. AllOrderly => FramesInOrder
  BY DEF AllOrderly, FramesInOrder, Orderly, Grammatical, Heeded, At, LastIn
<1> QED
  BY <1>1, OrderlyCorrect, PTL

---------------------------------------------------------------------------
(***************************************************************************)
(* The context the model is sent.                                          *)
(***************************************************************************)
Matches(cx, i, k) == i + k <= Len(cx) /\ cx[i + k].msg = [cx[i].msg EXCEPT !.role = "tool", !.call = k]
Backed(cx) == \A i \in 1 .. Len(cx) : cx[i].msg.role = "tool" => \E h \in 1 .. i - 1 : i - h <= cx[h].calls
Whole(cx) == Backed(cx) /\ \A i \in 1 .. Len(cx) : \A k \in 1 .. cx[i].calls : Matches(cx, i, k)

\* A context that ends in the answer m, which asked for l tools, and in what the
\* first n of them returned.
Owed(cx, m, l, n) ==
  /\ Len(cx) - n \in 1 .. Len(cx) /\ n <= l
  /\ cx[Len(cx) - n] = [msg |-> m, calls |-> l]
  /\ \A i \in 1 .. Len(cx) : \A k \in 1 .. cx[i].calls : i # Len(cx) - n \/ k <= n => Matches(cx, i, k)
  /\ Backed(cx)
Asking(t, st) == [turn |-> t, role |-> "assistant", iter |-> st.iter, call |-> 0]
Owing(t, st, n) == Owed(st.context, Asking(t, st), Len(st.calls), n)
Coherent(t, st) ==
  /\ st.at = "model" => Whole(st.context)
  /\ st.at = "save" => Owing(t, st, 0)
  /\ st.at \in {"tool", "execute"} => Owing(t, st, st.call - 1)
  /\ st.at = "save_tool" => Owing(t, st, st.call)

LEMMA ContextFields ==
  ASSUME NEW cx \in Seq(Context)
  PROVE  /\ Len(cx) \in Nat
         /\ \A i \in 1 .. Len(cx) : cx[i] \in Context /\ cx[i].calls \in Nat /\ cx[i].msg \in Message
<1>1. Len(cx) \in Nat /\ \A i \in 1 .. Len(cx) : cx[i] \in Context
  BY LenProperties, ElementOfSeq
<1>2. \A c \in Context : c.calls \in Nat /\ c.msg \in Message
  BY Bounds DEF Context
<1> QED
  BY <1>1, <1>2

LEMMA AppendKeeps ==
  ASSUME NEW cx \in Seq(Context), NEW c \in Context
  PROVE  /\ Append(cx, c) \in Seq(Context) /\ Len(Append(cx, c)) = Len(cx) + 1
         /\ Append(cx, c)[Len(cx) + 1] = c
         /\ \A i \in 1 .. Len(cx) : Append(cx, c)[i] = cx[i]
         /\ \A i \in 1 .. Len(cx) : \A k \in 1 .. cx[i].calls : Matches(cx, i, k) => Matches(Append(cx, c), i, k)
<1>1. PICK g : g = Append(cx, c)
  OBVIOUS
<1>2. /\ g \in Seq(Context) /\ Len(g) = Len(cx) + 1 /\ g[Len(cx) + 1] = c
      /\ \A i \in 1 .. Len(cx) : g[i] = cx[i]
  BY <1>1, AppendProperties
<1>3. ASSUME NEW i \in 1 .. Len(cx), NEW k \in 1 .. cx[i].calls, Matches(cx, i, k)
      PROVE  Matches(g, i, k)
  <2>1. k \in Nat /\ k >= 1 /\ Len(cx) \in Nat
    BY ContextFields
  <2>2. i + k \in 1 .. Len(cx) /\ i + k <= Len(g)
    BY <1>2, <1>3, <2>1 DEF Matches
  <2>3. g[i + k] = cx[i + k] /\ g[i] = cx[i]
    BY <1>2, <2>2
  <2> QED
    BY <1>3, <2>2, <2>3 DEF Matches
<1> QED
  BY <1>1, <1>2, <1>3

LEMMA BackedAppend ==
  ASSUME NEW cx \in Seq(Context), Backed(cx), NEW c \in Context,
         c.msg.role = "tool" => \E h \in 1 .. Len(cx) : Len(cx) + 1 - h <= cx[h].calls
  PROVE  Backed(Append(cx, c))
<1>1. PICK g : g = Append(cx, c)
  OBVIOUS
<1>2. /\ Len(g) = Len(cx) + 1 /\ g[Len(cx) + 1] = c /\ Len(cx) \in Nat
      /\ \A i \in 1 .. Len(cx) : g[i] = cx[i]
  BY <1>1, AppendKeeps, ContextFields
<1>3. ASSUME NEW i \in 1 .. Len(g), g[i].msg.role = "tool"
      PROVE  \E h \in 1 .. i - 1 : i - h <= g[h].calls
  <2>1. CASE i \in 1 .. Len(cx)
    <3>1. PICK h \in 1 .. i - 1 : i - h <= cx[h].calls
      BY <1>2, <1>3, <2>1 DEF Backed
    <3>2. h \in 1 .. Len(cx)
      BY <1>2, <2>1, <3>1
    <3> QED
      BY <1>2, <3>1, <3>2
  <2>2. CASE i \notin 1 .. Len(cx)
    <3>1. i = Len(cx) + 1
      BY <1>2, <2>2
    <3>2. PICK h \in 1 .. Len(cx) : Len(cx) + 1 - h <= cx[h].calls
      BY <1>2, <1>3, <3>1
    <3>3. h \in 1 .. i - 1 /\ g[h] = cx[h]
      BY <1>2, <3>1
    <3> QED
      BY <3>1, <3>2, <3>3
  <2> QED
    BY <2>1, <2>2
<1> QED
  BY <1>1, <1>3 DEF Backed

\* An answer owes the results of all its calls; each result pays one; then the
\* context is whole again.
LEMMA AnswerOwes ==
  ASSUME NEW cx \in Seq(Context), Whole(cx), NEW m \in Message, m.role # "tool", NEW l \in 0 .. MaxCalls
  PROVE  Owed(Append(cx, [msg |-> m, calls |-> l]), m, l, 0)
<1>1. PICK c : c = [msg |-> m, calls |-> l]
  OBVIOUS
<1>2. c \in Context /\ c.msg = m
  BY <1>1 DEF Context
<1>3. PICK g : g = Append(cx, c)
  OBVIOUS
<1>4. /\ Len(g) = Len(cx) + 1 /\ g[Len(cx) + 1] = c /\ Len(cx) \in Nat
      /\ \A i \in 1 .. Len(cx) : g[i] = cx[i]
      /\ \A i \in 1 .. Len(cx) : \A k \in 1 .. cx[i].calls : Matches(cx, i, k) => Matches(g, i, k)
  BY <1>2, <1>3, AppendKeeps, ContextFields
<1>5. Backed(g)
  BY <1>2, <1>3, BackedAppend DEF Whole
<1>6. Len(g) - 0 \in 1 .. Len(g) /\ Len(g) - 0 = Len(cx) + 1 /\ 0 <= l
  BY <1>4, Bounds
<1>7. g[Len(g) - 0] = c
  BY <1>4, <1>6
<1>8. ASSUME NEW i \in 1 .. Len(g), NEW k \in 1 .. g[i].calls, i # Len(g) - 0 \/ k <= 0
      PROVE  Matches(g, i, k)
  <2>1. i \in 1 .. Len(cx)
    BY <1>4, <1>6, <1>8
  <2>2. g[i] = cx[i]
    BY <1>4, <2>1
  <2> QED
    BY <1>4, <2>1, <2>2 DEF Whole
<1> QED
  BY <1>1, <1>3, <1>5, <1>6, <1>7, <1>8 DEF Owed

LEMMA ResultPays ==
  ASSUME NEW cx \in Seq(Context), NEW m \in Message, NEW l \in 0 .. MaxCalls, NEW n \in Nat, n < l,
         Owed(cx, m, l, n)
  PROVE  Owed(Append(cx, [msg |-> [m EXCEPT !.role = "tool", !.call = n + 1], calls |-> 0]), m, l, n + 1)
<1>1. PICK r : r = [m EXCEPT !.role = "tool", !.call = n + 1]
  OBVIOUS
<1>2. n + 1 \in 0 .. MaxCalls /\ 0 \in 0 .. MaxCalls /\ l \in Nat
  BY Bounds
<1>3. r \in Message /\ r.role = "tool"
  BY <1>1, <1>2 DEF Message
<1>4. PICK c : c = [msg |-> r, calls |-> 0]
  OBVIOUS
<1>5. c \in Context /\ c.msg = r /\ c.calls = 0
  BY <1>2, <1>3, <1>4 DEF Context
<1>6. PICK g : g = Append(cx, c)
  OBVIOUS
<1>7. /\ Len(g) = Len(cx) + 1 /\ g[Len(cx) + 1] = c /\ Len(cx) \in Nat
      /\ \A i \in 1 .. Len(cx) : g[i] = cx[i]
      /\ \A i \in 1 .. Len(cx) : \A k \in 1 .. cx[i].calls : Matches(cx, i, k) => Matches(g, i, k)
  BY <1>5, <1>6, AppendKeeps, ContextFields
<1>8. PICK h : h = Len(cx) - n
  OBVIOUS
<1>9. /\ h \in 1 .. Len(cx) /\ cx[h] = [msg |-> m, calls |-> l] /\ Backed(cx)
      /\ \A i \in 1 .. Len(cx) : \A k \in 1 .. cx[i].calls : i # h \/ k <= n => Matches(cx, i, k)
  BY <1>8 DEF Owed
<1>10. /\ Len(g) - (n + 1) = h /\ h + (n + 1) = Len(g) /\ Len(cx) + 1 - h = n + 1 /\ h \in 1 .. Len(g)
       /\ n + 1 <= l
  BY <1>2, <1>7, <1>8, <1>9
<1>11. g[h] = cx[h] /\ g[h].msg = m /\ g[h].calls = l
  BY <1>7, <1>9
<1>12. Backed(g)
  <2>1. Len(cx) + 1 - h <= cx[h].calls
    BY <1>7, <1>10, <1>11
  <2> QED
    BY <1>5, <1>6, <1>9, <2>1, BackedAppend
<1>13. Matches(g, h, n + 1)
  <2>1. h + (n + 1) <= Len(g)
    BY <1>7, <1>10
  <2>2. g[h + (n + 1)].msg = r
    BY <1>5, <1>7, <1>10
  <2>3. r = [g[h].msg EXCEPT !.role = "tool", !.call = n + 1]
    BY <1>1, <1>11
  <2> QED
    BY <2>1, <2>2, <2>3, Zenon DEF Matches
<1>14. ASSUME NEW i \in 1 .. Len(g), NEW k \in 1 .. g[i].calls, i # h \/ k <= n + 1
       PROVE  Matches(g, i, k)
  <2>1. CASE i \in 1 .. Len(cx)
    <3>1. g[i] = cx[i] /\ k \in 1 .. cx[i].calls /\ k \in Nat
      BY <1>7, <2>1, ContextFields
    <3>2. CASE i # h \/ k <= n
      BY <1>7, <1>9, <2>1, <3>1, <3>2
    <3>3. CASE i = h /\ k = n + 1
      BY <1>13, <3>3
    <3>4. i = h => k <= n \/ k = n + 1
      BY <1>14, <3>1
    <3> QED
      BY <3>2, <3>3, <3>4
  <2>2. CASE i \notin 1 .. Len(cx)
    <3>1. i = Len(cx) + 1
      BY <1>7, <2>2
    <3>2. g[i].calls = 0
      BY <1>5, <1>7, <3>1
    <3> QED
      BY <3>2
  <2> QED
    BY <2>1, <2>2
<1>15. Owed(g, m, l, n + 1)
  BY <1>9, <1>10, <1>11, <1>12, <1>14 DEF Owed
<1> QED
  BY <1>1, <1>4, <1>6, <1>15

LEMMA PaidIsWhole ==
  ASSUME NEW cx \in Seq(Context), NEW m, NEW l \in Nat, Owed(cx, m, l, l)
  PROVE  Whole(cx)
<1>1. ASSUME NEW i \in 1 .. Len(cx), NEW k \in 1 .. cx[i].calls PROVE Matches(cx, i, k)
  <2>1. i = Len(cx) - l => cx[i].calls = l
    BY DEF Owed
  <2>2. i # Len(cx) - l \/ k <= l
    BY <2>1
  <2> QED
    BY <2>2 DEF Owed
<1> QED
  BY <1>1 DEF Whole, Owed

LEMMA ReplayWhole ==
  ASSUME stored \in Seq(Message)
  PROVE  /\ Whole([i \in 1 .. Len(Replayed) |-> [msg |-> Replayed[i], calls |-> 0]])
         /\ \A t \in Turns : (\E i \in 1 .. Len(stored) : stored[i].turn = t /\ stored[i].role = "user")
              => \E i \in 1 .. Len(Replayed) : Replayed[i].turn = t /\ Replayed[i].role = "user"
<1>1. PICK K : K = {m \in Message : m.role \in {"user", "assistant"}}
  OBVIOUS
<1>2. PICK r : r = Replayed
  OBVIOUS
<1>3. r = Only(stored, K)
  BY <1>1, <1>2 DEF Replayed
<1>4. /\ r \in Seq(Message \cap K)
      /\ \A n \in 1 .. Len(stored) : stored[n] \in K => \E i \in 1 .. Len(r) : r[i] = stored[n]
  BY <1>3, OnlySelects
<1>5. Len(r) \in Nat /\ \A i \in 1 .. Len(r) : r[i] \in K
  BY <1>4, LenProperties, ElementOfSeq
<1>6. PICK c : c = [i \in 1 .. Len(r) |-> [msg |-> r[i], calls |-> 0]]
  OBVIOUS
<1>7. c \in Seq({c[i] : i \in 1 .. Len(r)}) /\ Len(c) = Len(r)
  <2>1. PICK S : S = {c[i] : i \in 1 .. Len(r)}
    OBVIOUS
  <2>2. c \in [1 .. Len(r) -> S]
    BY <1>6, <2>1
  <2> QED
    BY <1>5, <2>1, <2>2, ListOf
<1>8. \A i \in 1 .. Len(c) : c[i].calls = 0 /\ c[i].msg = r[i] /\ c[i].msg.role # "tool"
  BY <1>1, <1>5, <1>6, <1>7
<1>9. Whole(c)
  BY <1>8 DEF Whole, Backed
<1>10. \A n \in 1 .. Len(stored) : stored[n].role = "user" => stored[n] \in K
  BY <1>1, ElementOfSeq
<1>11. ASSUME NEW t \in Turns, NEW n \in 1 .. Len(stored), stored[n].turn = t, stored[n].role = "user"
       PROVE  \E i \in 1 .. Len(r) : r[i].turn = t /\ r[i].role = "user"
  BY <1>4, <1>10, <1>11
<1> QED
  BY <1>2, <1>6, <1>9, <1>11

InLoop == {"model", "save", "tool", "execute", "save_tool"}
Grown(a, b) == b = a \/ \E c \in Context : b = Append(a, c)
\* A step inside the loop only ever adds to the context.
Continues(st, new) == new.at \in InLoop => st.at \in InLoop /\ Grown(st.context, new.context)

LEMMA OutsideLoop ==
  ASSUME NEW t, NEW st, NEW new, new.at \notin InLoop
  PROVE  Coherent(t, new) /\ Continues(st, new)
  BY DEF Coherent, Continues, InLoop

LEMMA AdvancedCoherent ==
  ASSUME NEW t \in Turns, NEW st \in Turn, st.call \in 1 .. Len(st.calls), Owing(t, st, st.call)
  PROVE  Coherent(t, Advanced(st)) /\ (Advanced(st).at \in InLoop => Advanced(st).context = st.context)
<1>0. Len(st.calls) \in Nat /\ st.call \in Nat
  BY LenProperties DEF Turn
<1>1. PICK new : new = Advanced(st)
  OBVIOUS
<1>2. CASE st.call < Len(st.calls)
  <2>1. /\ new.at = "tool" /\ new.call = st.call + 1 /\ new.context = st.context
        /\ new.iter = st.iter /\ new.calls = st.calls
    BY <1>1, <1>2, AdvancedFacts
  <2>2. new.call - 1 = st.call
    BY <1>0, <2>1
  <2>3. Owing(t, new, st.call)
    BY <2>1 DEF Owing, Asking
  <2> QED
    BY <1>1, <2>1, <2>2, <2>3 DEF Coherent
<1>3. CASE ~ (st.call < Len(st.calls)) /\ st.iter + 1 < MaxIterations
  <2>1. new.at = "model" /\ new.context = st.context
    BY <1>1, <1>3, AdvancedFacts
  <2>2. st.call = Len(st.calls)
    BY <1>0, <1>3
  <2>3. Whole(st.context)
    <3>1. st.context \in Seq(Context)
      BY DEF Turn
    <3>2. Owed(st.context, Asking(t, st), Len(st.calls), Len(st.calls))
      BY <2>2 DEF Owing
    <3> QED
      BY <1>0, <3>1, <3>2, PaidIsWhole
  <2> QED
    BY <1>1, <2>1, <2>3 DEF Coherent
<1>4. CASE ~ (st.call < Len(st.calls)) /\ ~ (st.iter + 1 < MaxIterations)
  <2>1. new = Moved(Emitted(st, "error"), "failed")
    BY <1>1, <1>4, AdvancedFacts
  <2>2. Emitted(st, "error") \in Turn
    BY EmittedFacts DEF Kinds
  <2>3. new.at = "failed"
    BY <2>1, <2>2, MovedFacts DEF Points
  <2> QED
    BY <1>1, <2>3 DEF Coherent, InLoop
<1> QED
  BY <1>2, <1>3, <1>4

\* A tool's result is the one the context waits for.
LEMMA NotedPays ==
  ASSUME turn \in [Turns -> Turn], NEW t \in Turns, Positioned(turn[t]),
         turn[t].at \in {"tool", "execute"}, Coherent(t, turn[t]),
         NEW e \in Turn, e.iter = turn[t].iter, e.call = turn[t].call, e.calls = turn[t].calls,
         e.context = turn[t].context,
         NEW n, n = Noted(e, Row(t, "tool"), 0)
  PROVE  /\ n \in Turn /\ n.call \in 1 .. Len(n.calls) /\ Owing(t, n, n.call)
         /\ n.call = turn[t].call /\ n.calls = turn[t].calls
         /\ n.iter = turn[t].iter /\ Grown(turn[t].context, n.context)
<1>0. /\ turn[t] \in Turn /\ turn[t].call \in 1 .. Len(turn[t].calls)
      /\ Len(turn[t].calls) \in 0 .. MaxCalls /\ MaxCalls \in Nat /\ turn[t].context \in Seq(Context)
  BY Bounds DEF Positioned, Turn
<1>1. Row(t, "tool") \in Message /\ 0 \in 0 .. MaxCalls
  BY RowTyped, Bounds
<1>2. /\ n \in Turn /\ n.call = e.call /\ n.calls = e.calls /\ n.iter = e.iter
      /\ n.context = Append(e.context, [msg |-> Row(t, "tool"), calls |-> 0])
  BY <1>1, NotedFacts
<1>3. PICK k \in Nat : k = turn[t].call - 1 /\ k + 1 = turn[t].call /\ k < Len(turn[t].calls)
  BY <1>0
<1>4. Owed(turn[t].context, Asking(t, turn[t]), Len(turn[t].calls), k)
  BY <1>3 DEF Coherent, Owing
<1>5. Asking(t, turn[t]) \in Message
  BY <1>0, Bounds DEF Asking, Message, Turn
<1>6. Row(t, "tool") = [Asking(t, turn[t]) EXCEPT !.role = "tool", !.call = k + 1]
  <2>1. PICK i : i = turn[t].iter
    OBVIOUS
  <2>2. PICK c : c = turn[t].call /\ c = k + 1
    BY <1>3
  <2>3. Row(t, "tool") = [turn |-> t, role |-> "tool", iter |-> i, call |-> c]
    BY <2>1, <2>2 DEF Row
  <2>4. Asking(t, turn[t]) = [turn |-> t, role |-> "assistant", iter |-> i, call |-> 0]
    BY <2>1 DEF Asking
  <2>5. [Asking(t, turn[t]) EXCEPT !.role = "tool", !.call = c] = [turn |-> t, role |-> "tool", iter |-> i, call |-> c]
    <3>1. PICK a : a = Asking(t, turn[t])
      OBVIOUS
    <3>2. PICK b : b = [a EXCEPT !.role = "tool"]
      OBVIOUS
    <3>3. b = [turn |-> t, role |-> "tool", iter |-> i, call |-> 0]
      BY <2>4, <3>1, <3>2
    <3>4. [b EXCEPT !.call = c] = [turn |-> t, role |-> "tool", iter |-> i, call |-> c]
      BY <3>3
    <3> QED
      BY <3>1, <3>2, <3>4
  <2> QED
    BY <2>2, <2>3, <2>5
<1>7. Owed(n.context, Asking(t, turn[t]), Len(turn[t].calls), k + 1)
  <2>1. PICK cx \in Seq(Context), m \in Message, l \in 0 .. MaxCalls :
          cx = turn[t].context /\ m = Asking(t, turn[t]) /\ l = Len(turn[t].calls)
    BY <1>0, <1>5
  <2>2. Owed(Append(cx, [msg |-> [m EXCEPT !.role = "tool", !.call = k + 1], calls |-> 0]), m, l, k + 1)
    BY <1>3, <1>4, <2>1, ResultPays
  <2>3. PICK r : r = [m EXCEPT !.role = "tool", !.call = k + 1]
    OBVIOUS
  <2>4. r = Row(t, "tool")
    BY <1>6, <2>1, <2>3
  <2>5. n.context = Append(cx, [msg |-> r, calls |-> 0])
    BY <1>2, <2>1, <2>4
  <2> QED
    BY <2>1, <2>2, <2>3, <2>5
<1>8. Asking(t, n) = Asking(t, turn[t])
  BY <1>2 DEF Asking
<1>9. Owing(t, n, n.call)
  BY <1>2, <1>3, <1>7, <1>8 DEF Owing
<1>10. [msg |-> Row(t, "tool"), calls |-> 0] \in Context
  BY <1>1 DEF Context
<1> QED
  BY <1>0, <1>2, <1>9, <1>10 DEF Grown

\* Steps that leave the context, the answer and its calls alone.
LEMMA SameContext ==
  ASSUME NEW t \in Turns, NEW st, NEW new, Coherent(t, st),
         new.context = st.context, new.calls = st.calls, new.call = st.call, new.iter = st.iter,
         new.at = st.at \/ (st.at = "tool" /\ new.at = "execute")
  PROVE  Coherent(t, new) /\ Continues(st, new)
<1>1. \A n : Owing(t, st, n) => Owing(t, new, n)
  BY DEF Owing, Asking
<1> QED
  BY <1>1 DEF Coherent, Continues, InLoop, Grown

LEMMA CoherentStep ==
  ASSUME TurnInv, NEW t \in Turns, Coherent(t, turn[t]),
         Open(t) \/ TurnStep(t) \/ Disconnect(t) \/ Timeout(t) \/ Crash(t)
  PROVE  /\ Coherent(t, turn'[t])
         /\ History(t) \/ Continues(turn[t], turn'[t])
<1>0. turn \in [Turns -> Turn] /\ turn[t] \in Turn /\ Positioned(turn[t]) /\ stored \in Seq(Message)
  BY DEF TurnInv, TurnTypeOK
<1>1. ASSUME NEW new, Become(t, new), Coherent(t, new) /\ Continues(turn[t], new)
      PROVE  Coherent(t, turn'[t]) /\ Continues(turn[t], turn'[t])
  <2>1. turn'[t] = new
    BY <1>0, <1>1, OthersStay
  <2> QED
    BY <1>1, <2>1
<1>2. ASSUME NEW new, Become(t, new), new.at \notin InLoop
      PROVE  Coherent(t, turn'[t]) /\ Continues(turn[t], turn'[t])
  BY <1>1, <1>2, OutsideLoop
<1>3. ASSUME NEW st \in Turn, NEW point \in {"check", "ask", "history", "finish", "failed"}, Become(t, Moved(st, point))
      PROVE  Coherent(t, turn'[t]) /\ Continues(turn[t], turn'[t])
  <2>1. Moved(st, point).at = point
    BY <1>3, MovedFacts DEF Points
  <2>2. Moved(st, point).at \notin InLoop
    BY <2>1 DEF InLoop
  <2> QED
    BY <1>2, <1>3, <2>2
<1>4. ASSUME NEW st \in Turn, Become(t, Ended(st))
      PROVE  Coherent(t, turn'[t]) /\ Continues(turn[t], turn'[t])
  <2>1. Ended(st).at = "over"
    BY EndedFacts
  <2>2. Ended(st).at \notin InLoop
    BY <2>1 DEF InLoop
  <2> QED
    BY <1>2, <1>4, <2>2
<1>5. CASE Open(t) \/ Check(t) \/ Ask(t)
  BY <1>0, <1>3, <1>5 DEF Open, Check, Ask
<1>6. CASE History(t)
  <2>1. CASE Become(t, Moved(turn[t], "failed"))
    BY <1>0, <1>3, <2>1
  <2>2. PICK replay : replay = [i \in 1 .. Len(Replayed) |-> [msg |-> Replayed[i], calls |-> 0]]
    OBVIOUS
  <2>3. CASE Become(t, [turn[t] EXCEPT !.at = "model", !.context = replay])
    <3>1. PICK new : new = [turn[t] EXCEPT !.at = "model", !.context = replay]
      OBVIOUS
    <3>2. new.at = "model" /\ new.context = replay
      BY <1>0, <3>1 DEF Turn
    <3>3. Whole(replay)
      BY <1>0, <2>2, ReplayWhole
    <3>4. Coherent(t, new)
      BY <3>2, <3>3 DEF Coherent
    <3>5. turn'[t] = new
      BY <1>0, <2>3, <3>1, OthersStay
    <3> QED
      BY <1>6, <3>4, <3>5
  <2> QED
    BY <1>6, <2>1, <2>2, <2>3 DEF History
<1>7. CASE StreamText(t)
  <2>1. PICK e : e = Emitted(turn[t], "text")
    OBVIOUS
  <2>2. /\ e \in Turn /\ e.at = turn[t].at /\ e.context = turn[t].context /\ e.calls = turn[t].calls
        /\ e.call = turn[t].call /\ e.iter = turn[t].iter
    BY <1>0, <2>1, EmittedFacts DEF Kinds
  <2>3. PICK new : new = [e EXCEPT !.said = TRUE]
    OBVIOUS
  <2>4. /\ new.at = e.at /\ new.context = e.context /\ new.calls = e.calls
        /\ new.call = e.call /\ new.iter = e.iter
    BY <2>2, <2>3 DEF Turn
  <2>5. Become(t, new)
    BY <1>7, <2>1, <2>3 DEF StreamText
  <2>6. Coherent(t, new) /\ Continues(turn[t], new)
    BY <2>2, <2>4, SameContext
  <2> QED
    BY <1>1, <2>5, <2>6
<1>8. CASE ModelFails(t)
  <2>1. Become(t, Moved(Emitted(turn[t], "error"), "failed"))
    BY <1>8 DEF ModelFails
  <2>2. Emitted(turn[t], "error") \in Turn
    BY <1>0, EmittedFacts DEF Kinds
  <2> QED
    BY <1>3, <2>1, <2>2
<1>9. CASE SaveText(t)
  <2>1. CASE turn[t].calls = <<>>
    <3>1. Become(t, Moved(turn[t], "finish"))
      BY <1>9, <2>1 DEF SaveText
    <3> QED
      BY <1>0, <1>3, <3>1
  <2>2. CASE turn[t].calls # <<>>
    <3>1. PICK new : new = [turn[t] EXCEPT !.at = "tool", !.call = 1]
      OBVIOUS
    <3>2. Become(t, new) /\ turn[t].at = "save"
      BY <1>9, <2>2, <3>1 DEF SaveText, At
    <3>3. /\ new.at = "tool" /\ new.call - 1 = 0 /\ new.context = turn[t].context
          /\ new.calls = turn[t].calls /\ new.iter = turn[t].iter
      BY <1>0, <3>1 DEF Turn
    <3>4. Owing(t, new, 0)
      BY <3>2, <3>3 DEF Coherent, Owing, Asking
    <3>5. Coherent(t, new) /\ Continues(turn[t], new)
      BY <3>2, <3>3, <3>4 DEF Coherent, Continues, InLoop, Grown
    <3> QED
      BY <1>1, <3>2, <3>5
  <2> QED
    BY <2>1, <2>2
<1>10. ASSUME NEW answer \in Answers, Answer(t, answer)
       PROVE  Coherent(t, turn'[t]) /\ Continues(turn[t], turn'[t])
  <2>1. PICK new : new = turn'[t]
    OBVIOUS
  <2>2. /\ new.at = "save" /\ new.calls = answer.heard /\ new.iter = turn[t].iter
        /\ new.context = Append(turn[t].context, [msg |-> Row(t, "assistant"), calls |-> Len(answer.heard)])
    BY <1>0, <1>10, <2>1, AnswerFacts
  <2>3. turn[t].at = "model" /\ Whole(turn[t].context) /\ turn[t].context \in Seq(Context)
    BY <1>0, <1>10 DEF Answer, At, Coherent, Turn
  <2>4. Row(t, "assistant") \in Message /\ Row(t, "assistant") = Asking(t, new) /\ Asking(t, new).role # "tool"
    BY <1>0, <2>2, RowTyped DEF Row, Asking
  <2>5. Len(answer.heard) \in 0 .. MaxCalls
    BY AnswersTyped
  <2>6. Owing(t, new, 0)
    BY <2>2, <2>3, <2>4, <2>5, AnswerOwes DEF Owing
  <2>7. [msg |-> Row(t, "assistant"), calls |-> Len(answer.heard)] \in Context
    BY <2>4, <2>5 DEF Context
  <2>8. Grown(turn[t].context, new.context)
    BY <2>2, <2>7 DEF Grown
  <2> QED
    BY <2>1, <2>2, <2>3, <2>6, <2>8 DEF Coherent, Continues, InLoop
<1>11. /\ CallTold(t) \in Turn /\ CallTold(t).at = turn[t].at /\ CallTold(t).call = turn[t].call
       /\ CallTold(t).calls = turn[t].calls /\ CallTold(t).iter = turn[t].iter
       /\ CallTold(t).context = turn[t].context
  BY <1>0, EmittedFacts DEF CallTold, Kinds
<1>12. CASE CallTool(t)
  <2>1. PICK new : new = Moved(CallTold(t), "execute")
    OBVIOUS
  <2>2. Become(t, new) /\ turn[t].at = "tool"
    BY <1>12, <2>1 DEF CallTool, At
  <2>3. /\ new.at = "execute" /\ new.context = turn[t].context /\ new.calls = turn[t].calls
        /\ new.call = turn[t].call /\ new.iter = turn[t].iter
    BY <1>11, <2>1, MovedFacts DEF Points
  <2>4. Coherent(t, new) /\ Continues(turn[t], new)
    BY <2>2, <2>3, SameContext
  <2> QED
    BY <1>1, <2>2, <2>4
<1>13. CASE UnknownTool(t)
  <2>1. PICK e : e = Emitted(CallTold(t), "unknown_result")
    OBVIOUS
  <2>2. /\ e \in Turn /\ e.at = turn[t].at /\ e.call = turn[t].call /\ e.calls = turn[t].calls
        /\ e.iter = turn[t].iter /\ e.context = turn[t].context
    BY <1>11, <2>1, EmittedFacts DEF Kinds
  <2>3. PICK n : n = Noted(e, Row(t, "tool"), 0)
    OBVIOUS
  <2>4. Become(t, Advanced(n)) /\ turn[t].at = "tool"
    BY <1>13, <2>1, <2>3 DEF UnknownTool, At
  <2>5. /\ n \in Turn /\ n.call \in 1 .. Len(n.calls) /\ Owing(t, n, n.call)
        /\ n.calls = turn[t].calls /\ Grown(turn[t].context, n.context)
    BY <1>0, <2>2, <2>3, <2>4, NotedPays
  <2>7. PICK new : new = Advanced(n)
    OBVIOUS
  <2>8. Coherent(t, new) /\ (new.at \in InLoop => new.context = n.context)
    BY <2>5, <2>7, AdvancedCoherent
  <2>9. Continues(turn[t], new)
    BY <2>4, <2>5, <2>8 DEF Continues, InLoop
  <2> QED
    BY <1>1, <2>4, <2>7, <2>8, <2>9
<1>14. CASE Progress(t)
  <2>1. PICK e : e = Emitted(turn[t], "tool_progress")
    OBVIOUS
  <2>2. Become(t, e)
    BY <1>14, <2>1 DEF Progress
  <2>3. /\ e.at = turn[t].at /\ e.context = turn[t].context /\ e.calls = turn[t].calls
        /\ e.call = turn[t].call /\ e.iter = turn[t].iter
    BY <1>0, <2>1, EmittedFacts DEF Kinds
  <2>4. Coherent(t, e) /\ Continues(turn[t], e)
    BY <2>3, SameContext
  <2> QED
    BY <1>1, <2>2, <2>4
<1>15. CASE RunTool(t)
  <2>1. PICK result : /\ result = IF Parses(Asked(t).args) THEN "tool_result" ELSE "orphan_result"
                      /\ Become(t, Moved(Noted(Emitted(turn[t], result), Row(t, "tool"), 0), "save_tool"))
    BY <1>15 DEF RunTool
  <2>2. PICK e : e = Emitted(turn[t], result)
    OBVIOUS
  <2>3. result \in Kinds
    BY <2>1 DEF Kinds
  <2>4. /\ e \in Turn /\ e.call = turn[t].call /\ e.calls = turn[t].calls
        /\ e.iter = turn[t].iter /\ e.context = turn[t].context
    BY <1>0, <2>2, <2>3, EmittedFacts
  <2>5. PICK n : n = Noted(e, Row(t, "tool"), 0)
    OBVIOUS
  <2>6. turn[t].at = "execute"
    BY <1>15 DEF RunTool, At
  <2>7. n \in Turn /\ Owing(t, n, n.call) /\ Grown(turn[t].context, n.context)
    BY <1>0, <2>4, <2>5, <2>6, NotedPays
  <2>8. PICK new : new = Moved(n, "save_tool")
    OBVIOUS
  <2>9. /\ new.at = "save_tool" /\ new.context = n.context /\ new.calls = n.calls
        /\ new.call = n.call /\ new.iter = n.iter
    BY <2>7, <2>8, MovedFacts DEF Points
  <2>10. Owing(t, new, new.call)
    BY <2>7, <2>9 DEF Owing, Asking
  <2>11. Coherent(t, new) /\ Continues(turn[t], new)
    BY <2>6, <2>7, <2>9, <2>10 DEF Coherent, Continues, InLoop
  <2> QED
    BY <1>1, <2>1, <2>2, <2>5, <2>8, <2>11
<1>16. CASE SaveTool(t)
  <2>1. PICK new : new = Advanced(turn[t])
    OBVIOUS
  <2>2. Become(t, new) /\ turn[t].at = "save_tool"
    BY <1>16, <2>1 DEF SaveTool, At
  <2>3. turn[t].call \in 1 .. Len(turn[t].calls) /\ Owing(t, turn[t], turn[t].call)
    BY <1>0, <2>2 DEF Positioned, Coherent
  <2>4. Coherent(t, new) /\ (new.at \in InLoop => new.context = turn[t].context)
    BY <1>0, <2>1, <2>3, AdvancedCoherent
  <2>5. Continues(turn[t], new)
    BY <2>2, <2>4 DEF Continues, InLoop, Grown
  <2> QED
    BY <1>1, <2>2, <2>4, <2>5
<1>17. CASE Finish(t)
  <2>1. Become(t, Ended(Emitted(turn[t], "done"))) /\ Emitted(turn[t], "done") \in Turn
    BY <1>0, <1>17, EmittedFacts DEF Finish, Kinds
  <2> QED
    BY <1>4, <2>1
<1>18. CASE HandlerError(t)
  <2>1. Become(t, Ended(Emitted(turn[t], "handler_error"))) /\ Emitted(turn[t], "handler_error") \in Turn
    BY <1>0, <1>18, EmittedFacts DEF HandlerError, Kinds
  <2> QED
    BY <1>4, <2>1
<1>19. CASE Disconnect(t) \/ Timeout(t)
  <2>1. PICK new \in {[turn[t] EXCEPT !.connected = FALSE], [turn[t] EXCEPT !.live = FALSE]} : Become(t, new)
    BY <1>19 DEF Disconnect, Timeout
  <2>2. /\ new.at = turn[t].at /\ new.context = turn[t].context /\ new.calls = turn[t].calls
        /\ new.call = turn[t].call /\ new.iter = turn[t].iter
    BY <1>0 DEF Turn
  <2>3. Coherent(t, new) /\ Continues(turn[t], new)
    BY <2>2, SameContext
  <2> QED
    BY <1>1, <2>1, <2>3
<1>20. CASE Crash(t)
  <2>1. PICK cut : cut = [turn[t] EXCEPT !.connected = FALSE]
    OBVIOUS
  <2>2. Become(t, Ended(cut)) /\ cut \in Turn
    BY <1>0, <1>20, <2>1 DEF Crash, Turn
  <2> QED
    BY <1>4, <2>2
<1> QED
  BY <1>5, <1>6, <1>7, <1>8, <1>9, <1>10, <1>12, <1>13, <1>14, <1>15, <1>16, <1>17, <1>18, <1>19, <1>20
     DEF TurnStep

AllCoherent == \A t \in Turns : Coherent(t, turn[t])

\* The inductive invariant of the contexts.
THEOREM CoherentCorrect == Spec => []AllCoherent
<1>1. Init => AllCoherent
  BY DEF Init, AllCoherent, Coherent, NoTurn
<1>2. TurnInv /\ AllCoherent /\ [Next]_vars => AllCoherent'
  <2> SUFFICES ASSUME TurnInv, AllCoherent, [Next]_vars PROVE AllCoherent'
    OBVIOUS
  <2>1. turn \in [Turns -> Turn]
    BY DEF TurnInv, TurnTypeOK
  <2>2. CASE UNCHANGED turn
    BY <2>2 DEF AllCoherent
  <2>3. ASSUME NEW t \in Turns, Open(t) \/ TurnStep(t) \/ Disconnect(t) \/ Timeout(t) \/ Crash(t)
        PROVE  AllCoherent'
    <3>1. Coherent(t, turn'[t])
      BY <2>3, CoherentStep DEF AllCoherent
    <3>2. \A u \in Turns : u # t => turn'[u] = turn[u]
      BY <2>1, <2>3, OneTurnMoves
    <3> QED
      BY <3>1, <3>2 DEF AllCoherent
  <2> QED
    BY <2>2, <2>3 DEF Next, DeleteConversation, vars
<1> QED
  BY <1>1, <1>2, TurnCorrect, PTL DEF Spec

\* Whatever is asked, and whichever writes fail, the context sent to the model
\* answers every tool call it holds, in order, and holds no other tool message
\* (service.go:181-248 and buildHistory, 257-276).
THEOREM ContextWellFormedCorrect == Spec => []ContextWellFormed
<1>1. AllCoherent => ContextWellFormed
  BY DEF AllCoherent, Coherent, ContextWellFormed, At, Whole, Backed, Matches
<1> QED
  BY <1>1, CoherentCorrect, PTL

---------------------------------------------------------------------------
(***************************************************************************)
(* The question of a turn, among the turns of others.                      *)
(***************************************************************************)
\* Where a step of a turn takes it.
LEMMA Reaches ==
  ASSUME TurnInv, NEW t \in Turns
  PROVE  /\ Open(t) => turn'[t].at = "check"
         /\ Check(t) => turn'[t].at \in {"ask", "failed"}
         /\ History(t) => turn'[t].at \in {"model", "failed"}
         /\ ModelFails(t) => turn'[t].at = "failed"
         /\ SaveText(t) => turn'[t].at \in {"tool", "finish"}
         /\ \A answer \in Answers : Answer(t, answer) => turn'[t].at = "save"
         /\ CallTool(t) => turn'[t].at = "execute"
         /\ UnknownTool(t) \/ SaveTool(t) => turn'[t].at \in {"tool", "model", "failed"}
         /\ RunTool(t) => turn'[t].at = "save_tool"
         /\ Finish(t) \/ HandlerError(t) \/ Crash(t) => turn'[t].at = "over"
         /\ StreamText(t) \/ Progress(t) \/ Disconnect(t) \/ Timeout(t) => turn'[t].at = turn[t].at
<1>0. turn \in [Turns -> Turn] /\ turn[t] \in Turn /\ Positioned(turn[t])
  BY DEF TurnInv, TurnTypeOK
<1>1. ASSUME NEW new, Become(t, new) PROVE turn'[t] = new
  BY <1>0, <1>1, OthersStay
<1>2. ASSUME NEW st \in Turn, NEW point \in Points, Become(t, Moved(st, point)) PROVE turn'[t].at = point
  BY <1>1, <1>2, MovedFacts
<1>3. ASSUME NEW st \in Turn, Become(t, Ended(st)) PROVE turn'[t].at = "over"
  BY <1>1, <1>3, EndedFacts
<1>4. ASSUME NEW st \in Turn, Become(t, Advanced(st)) PROVE turn'[t].at \in {"tool", "model", "failed"}
  <2>1. turn'[t] = Advanced(st)
    BY <1>1, <1>4
  <2>2. Emitted(st, "error") \in Turn /\ "failed" \in Points
    BY EmittedFacts DEF Kinds, Points
  <2>3. Moved(Emitted(st, "error"), "failed").at = "failed"
    BY <2>2, MovedFacts
  <2> QED
    BY <2>1, <2>3, AdvancedFacts
<1>5. Emitted(turn[t], "done") \in Turn /\ Emitted(turn[t], "error") \in Turn /\ Emitted(turn[t], "handler_error") \in Turn
  BY <1>0, EmittedFacts DEF Kinds
<1>6. {"check", "ask", "failed", "finish", "execute", "save_tool"} \subseteq Points
  BY DEF Points
<1>7. Open(t) => turn'[t].at = "check"
  BY <1>0, <1>2, <1>6 DEF Open
<1>8. Check(t) => turn'[t].at \in {"ask", "failed"}
  BY <1>0, <1>2, <1>6 DEF Check
<1>9. ASSUME History(t) PROVE turn'[t].at \in {"model", "failed"}
  <2>1. PICK replay : Become(t, [turn[t] EXCEPT !.at = "model", !.context = replay]) \/ Become(t, Moved(turn[t], "failed"))
    BY <1>9 DEF History
  <2>2. [turn[t] EXCEPT !.at = "model", !.context = replay].at = "model"
    BY <1>0 DEF Turn
  <2> QED
    BY <1>0, <1>1, <1>2, <1>6, <2>1, <2>2
<1>10. ModelFails(t) => turn'[t].at = "failed"
  BY <1>2, <1>5, <1>6 DEF ModelFails
<1>11. ASSUME SaveText(t) PROVE turn'[t].at \in {"tool", "finish"}
  <2>1. Become(t, [turn[t] EXCEPT !.at = "tool", !.call = 1]) \/ Become(t, Moved(turn[t], "finish"))
    BY <1>11 DEF SaveText
  <2>2. [turn[t] EXCEPT !.at = "tool", !.call = 1].at = "tool"
    BY <1>0 DEF Turn
  <2> QED
    BY <1>0, <1>1, <1>2, <1>6, <2>1, <2>2
<1>12. \A answer \in Answers : Answer(t, answer) => turn'[t].at = "save"
  BY <1>0, AnswerFacts
<1>13. CallTold(t) \in Turn
  BY <1>0, EmittedFacts DEF CallTold, Kinds
<1>14. CallTool(t) => turn'[t].at = "execute"
  BY <1>2, <1>6, <1>13 DEF CallTool
<1>15. Row(t, "tool") \in Message /\ 0 \in 0 .. MaxCalls
  BY <1>0, RowTyped, Bounds
<1>16. ASSUME UnknownTool(t) PROVE turn'[t].at \in {"tool", "model", "failed"}
  <2>1. Emitted(CallTold(t), "unknown_result") \in Turn
    BY <1>13, EmittedFacts DEF Kinds
  <2>2. Noted(Emitted(CallTold(t), "unknown_result"), Row(t, "tool"), 0) \in Turn
    BY <1>15, <2>1, NotedFacts
  <2> QED
    BY <1>4, <1>16, <2>2 DEF UnknownTool
<1>17. SaveTool(t) => turn'[t].at \in {"tool", "model", "failed"}
  BY <1>0, <1>4 DEF SaveTool
<1>18. ASSUME RunTool(t) PROVE turn'[t].at = "save_tool"
  <2>1. PICK result \in {"tool_result", "orphan_result"} :
          Become(t, Moved(Noted(Emitted(turn[t], result), Row(t, "tool"), 0), "save_tool"))
    BY <1>18 DEF RunTool
  <2>2. Emitted(turn[t], result) \in Turn
    <3>1. result \in Kinds
      BY DEF Kinds
    <3> QED
      BY <1>0, <3>1, EmittedFacts
  <2>3. Noted(Emitted(turn[t], result), Row(t, "tool"), 0) \in Turn
    BY <1>15, <2>2, NotedFacts
  <2> QED
    BY <1>2, <1>6, <2>1, <2>3
<1>19. Finish(t) \/ HandlerError(t) => turn'[t].at = "over"
  BY <1>3, <1>5 DEF Finish, HandlerError
<1>20. ASSUME Crash(t) PROVE turn'[t].at = "over"
  <2>1. [turn[t] EXCEPT !.connected = FALSE] \in Turn
    BY <1>0 DEF Turn
  <2> QED
    BY <1>3, <1>20, <2>1 DEF Crash
<1>21. ASSUME StreamText(t) PROVE turn'[t].at = turn[t].at
  <2>1. PICK e : e = Emitted(turn[t], "text")
    OBVIOUS
  <2>2. e \in Turn /\ e.at = turn[t].at
    BY <1>0, <2>1, EmittedFacts DEF Kinds
  <2>3. turn'[t] = [e EXCEPT !.said = TRUE]
    BY <1>1, <1>21, <2>1 DEF StreamText
  <2> QED
    BY <2>2, <2>3 DEF Turn
<1>22. ASSUME Progress(t) PROVE turn'[t].at = turn[t].at
  <2>1. PICK e : e = Emitted(turn[t], "tool_progress")
    OBVIOUS
  <2>2. turn'[t] = e
    BY <1>1, <1>22, <2>1 DEF Progress
  <2>3. e.at = turn[t].at
    BY <1>0, <2>1, EmittedFacts DEF Kinds
  <2> QED
    BY <2>2, <2>3
<1>23. ASSUME Disconnect(t) \/ Timeout(t) PROVE turn'[t].at = turn[t].at
  <2>1. \/ turn'[t] = [turn[t] EXCEPT !.connected = FALSE]
        \/ turn'[t] = [turn[t] EXCEPT !.live = FALSE]
    BY <1>1, <1>23 DEF Disconnect, Timeout
  <2> QED
    BY <1>0, <2>1 DEF Turn
<1> QED
  BY <1>7, <1>8, <1>9, <1>10, <1>11, <1>12, <1>14, <1>16, <1>17, <1>18, <1>19, <1>20, <1>21, <1>22, <1>23

\* A turn stores rows of its own, and at the end.
LEMMA StoresOwn ==
  ASSUME TurnInv, NEW t \in Turns, Open(t) \/ TurnStep(t) \/ Disconnect(t) \/ Timeout(t) \/ Crash(t)
  PROVE  /\ exists' = exists
         /\ stored' = stored \/ \E role \in {"user", "assistant", "tool"} : stored' = Append(stored, Row(t, role))
<1>1. \A role : Save(t, role) => stored' = stored \/ stored' = Append(stored, Row(t, role))
  BY DEF Save
<1>2. CASE SaveText(t)
  BY <1>1, <1>2 DEF SaveText
<1>3. CASE SaveTool(t)
  BY <1>1, <1>3 DEF SaveTool
<1>4. CASE Ask(t)
  BY <1>4 DEF Ask
<1>5. CASE UNCHANGED <<exists, stored>>
  BY <1>5
<1>6. \/ SaveText(t) \/ SaveTool(t) \/ Ask(t)
      \/ UNCHANGED <<exists, stored>>
  BY DEF Open, TurnStep, Check, History, StreamText, ModelFails, Answer, CallTool, UnknownTool,
         Progress, RunTool, Finish, HandlerError, Disconnect, Timeout, Crash
<1> QED
  BY <1>2, <1>3, <1>4, <1>5, <1>6

\* Faults are counted.
LEMMA FaultsCount ==
  ASSUME NEW t \in Turns, Open(t) \/ TurnStep(t) \/ Disconnect(t) \/ Timeout(t) \/ Crash(t)
  PROVE  faults' = faults \/ faults' = faults + 1
<1>1. \A role : Save(t, role) => UNCHANGED faults \/ Fault
  BY DEF Save, NoFault
<1>2. UNCHANGED faults \/ Fault
  BY <1>1 DEF Open, TurnStep, Check, Ask, History, StreamText, ModelFails, SaveText, Answer, CallTool,
              UnknownTool, Progress, RunTool, SaveTool, Finish, HandlerError, Disconnect, Timeout, Crash, NoFault
<1> QED
  BY <1>2 DEF Fault

Stores(t) == \E i \in 1 .. Len(stored) : stored[i].turn = t /\ stored[i].role = "user"
Asks(t, cx) == \E i \in 1 .. Len(cx) : cx[i].msg.turn = t /\ cx[i].msg.role = "user"
Wondering(t) == exists => /\ At(t, "history") => Stores(t)
                          /\ turn[t].at \in InLoop => Asks(t, turn[t].context)

LEMMA WonderingStep ==
  ASSUME TurnInv, AllCoherent, \A u \in Turns : Wondering(u), NEW t \in Turns,
         Open(t) \/ TurnStep(t) \/ Disconnect(t) \/ Timeout(t) \/ Crash(t),
         NEW u \in Turns, exists'
  PROVE  /\ turn'[u].at = "history" => \E i \in 1 .. Len(stored') : stored'[i].turn = u /\ stored'[i].role = "user"
         /\ turn'[u].at \in InLoop => Asks(u, turn'[u].context)
<1>0. /\ turn \in [Turns -> Turn] /\ turn[t] \in Turn /\ stored \in Seq(Message)
      /\ \A v \in Turns : Coherent(v, turn[v])
  BY DEF TurnInv, TurnTypeOK, AllCoherent
<1>1. exists
  BY StoresOwn
<1>2. \A role \in {"user", "assistant", "tool"} : Row(t, role) \in Message
  BY <1>0, RowTyped
<1>3. ASSUME NEW role \in {"user", "assistant", "tool"}, stored' = Append(stored, Row(t, role))
      PROVE  /\ Len(stored') = Len(stored) + 1 /\ stored'[Len(stored) + 1] = Row(t, role) /\ Len(stored) \in Nat
             /\ \A i \in 1 .. Len(stored) : stored'[i] = stored[i]
  BY <1>0, <1>2, <1>3, AppendProperties, LenProperties
<1>4. \A v : Stores(v) => \E i \in 1 .. Len(stored') : stored'[i].turn = v /\ stored'[i].role = "user"
  <2> SUFFICES ASSUME NEW v, NEW i \in 1 .. Len(stored), stored[i].turn = v, stored[i].role = "user"
               PROVE  \E j \in 1 .. Len(stored') : stored'[j].turn = v /\ stored'[j].role = "user"
    BY DEF Stores
  <2>1. CASE stored' = stored
    BY <2>1
  <2>2. ASSUME NEW role \in {"user", "assistant", "tool"}, stored' = Append(stored, Row(t, role))
        PROVE  \E j \in 1 .. Len(stored') : stored'[j].turn = v /\ stored'[j].role = "user"
    <3>1. i \in 1 .. Len(stored') /\ stored'[i] = stored[i]
      BY <1>3, <2>2
    <3> QED
      BY <3>1
  <2> QED
    BY <2>1, <2>2, StoresOwn
<1>5. CASE u # t
  <2>1. turn'[u] = turn[u]
    BY <1>0, <1>5, OneTurnMoves
  <2> QED
    BY <1>1, <1>4, <2>1 DEF Wondering, At
<1>6. CASE u = t
  <2>1. ASSUME turn'[t].at = "history"
        PROVE  \E i \in 1 .. Len(stored') : stored'[i].turn = t /\ stored'[i].role = "user"
    <3>1. CASE Ask(t)
      <4>1. stored' = Append(stored, Row(t, "user"))
        <5>1. CASE Become(t, Moved(turn[t], "failed"))
          <6>1. Moved(turn[t], "failed").at = "failed"
            BY <1>0, MovedFacts DEF Points
          <6> QED
            BY <1>0, <2>1, <5>1, <6>1, OthersStay
        <5> QED
          BY <3>1, <5>1 DEF Ask
      <4>2. Len(stored) + 1 \in 1 .. Len(stored') /\ stored'[Len(stored) + 1] = Row(t, "user")
        BY <1>3, <4>1
      <4>3. Row(t, "user").turn = t /\ Row(t, "user").role = "user"
        BY DEF Row
      <4> QED
        BY <4>2, <4>3
    <3>2. CASE ~ Ask(t)
      <4>1. turn[t].at = "history"
        BY <2>1, <3>2, Reaches DEF TurnStep
      <4> QED
        BY <1>1, <1>4, <4>1 DEF Wondering, At
    <3> QED
      BY <3>1, <3>2
  <2>2. ASSUME turn'[t].at \in InLoop PROVE Asks(t, turn'[t].context)
    <3>1. CASE History(t)
      <4>1. PICK replay : replay = [i \in 1 .. Len(Replayed) |-> [msg |-> Replayed[i], calls |-> 0]]
        OBVIOUS
      <4>2. turn'[t] = [turn[t] EXCEPT !.at = "model", !.context = replay]
        <5>1. CASE Become(t, Moved(turn[t], "failed"))
          <6>1. Moved(turn[t], "failed").at = "failed"
            BY <1>0, MovedFacts DEF Points
          <6> QED
            BY <1>0, <2>2, <5>1, <6>1, OthersStay DEF InLoop
        <5> QED
          BY <1>0, <3>1, <4>1, <5>1, OthersStay DEF History
      <4>3. turn'[t].context = replay
        BY <1>0, <4>2 DEF Turn
      <4>4. Stores(t)
        BY <1>1, <3>1 DEF Wondering, History
      <4>5. PICK j \in 1 .. Len(Replayed) : Replayed[j].turn = t /\ Replayed[j].role = "user"
        BY <1>0, <4>4, ReplayWhole DEF Stores
      <4>6. Len(replay) = Len(Replayed)
        <5>1. PICK r \in Seq(Message) : r = Replayed
          BY <1>0, ReplayTyped
        <5>2. Len(r) \in Nat
          BY LenProperties
        <5>3. PICK S : S = {replay[i] : i \in 1 .. Len(r)}
          OBVIOUS
        <5>4. replay \in [1 .. Len(r) -> S]
          BY <4>1, <5>1, <5>3
        <5> QED
          BY <5>1, <5>2, <5>4, ListOf
      <4>7. j \in 1 .. Len(replay) /\ replay[j].msg = Replayed[j]
        BY <4>1, <4>6
      <4> QED
        BY <4>3, <4>5, <4>7 DEF Asks
    <3>2. CASE ~ History(t)
      <4>1. turn[t].at \in InLoop /\ Grown(turn[t].context, turn'[t].context)
        BY <1>0, <2>2, <3>2, CoherentStep DEF Continues
      <4>2. Asks(t, turn[t].context)
        BY <1>1, <4>1 DEF Wondering
      <4>3. turn[t].context \in Seq(Context)
        BY <1>0 DEF Turn
      <4>4. ASSUME NEW c \in Context, turn'[t].context = Append(turn[t].context, c)
            PROVE  Asks(t, turn'[t].context)
        <5>1. PICK i \in 1 .. Len(turn[t].context) :
                turn[t].context[i].msg.turn = t /\ turn[t].context[i].msg.role = "user"
          BY <4>2 DEF Asks
        <5>2. PICK cx \in Seq(Context) : cx = turn[t].context
          BY <4>3
        <5>3. PICK g : g = Append(cx, c)
          OBVIOUS
        <5>4. Len(g) = Len(cx) + 1 /\ Len(cx) \in Nat /\ \A k \in 1 .. Len(cx) : g[k] = cx[k]
          BY <5>3, AppendKeeps, ContextFields
        <5>5. i \in 1 .. Len(g) /\ g[i] = cx[i]
          BY <5>2, <5>4
        <5> QED
          BY <4>4, <5>1, <5>2, <5>3, <5>5 DEF Asks
      <4> QED
        BY <4>1, <4>2, <4>4 DEF Grown
    <3> QED
      BY <3>1, <3>2
  <2> QED
    BY <1>6, <2>1, <2>2
<1> QED
  BY <1>5, <1>6

AllWondering == \A t \in Turns : Wondering(t)

\* The context holds the question of its turn, for any number of turns of one
\* conversation that write at the same time (service.go:153-163: the user's row is
\* stored before the history is read).
THEOREM QuestionAskedCorrect == Spec => []QuestionAsked
<1>1. Init => AllWondering
  BY DEF Init, AllWondering, Wondering, At, NoTurn, InLoop
<1>2. TurnInv /\ AllCoherent /\ AllWondering /\ [Next]_vars => AllWondering'
  <2> SUFFICES ASSUME TurnInv, AllCoherent, AllWondering, [Next]_vars PROVE AllWondering'
    OBVIOUS
  <2>1. CASE UNCHANGED vars
    BY <2>1 DEF AllWondering, Wondering, At, Stores, vars
  <2>2. CASE DeleteConversation
    BY <2>2 DEF AllWondering, Wondering, DeleteConversation
  <2>3. ASSUME NEW t \in Turns, Open(t) \/ TurnStep(t) \/ Disconnect(t) \/ Timeout(t) \/ Crash(t)
        PROVE  AllWondering'
    <3>1. ASSUME NEW u \in Turns, exists'
          PROVE  /\ turn'[u].at = "history" =>
                      \E i \in 1 .. Len(stored') : stored'[i].turn = u /\ stored'[i].role = "user"
                 /\ turn'[u].at \in InLoop => Asks(u, turn'[u].context)
      BY <2>3, <3>1, WonderingStep DEF AllWondering
    <3> QED
      BY <3>1 DEF AllWondering, Wondering, At, Stores
  <2> QED
    BY <2>1, <2>2, <2>3 DEF Next
<1>3. AllWondering => QuestionAsked
  BY DEF AllWondering, Wondering, QuestionAsked, Asks, InLoop, At
<1> QED
  BY <1>1, <1>2, <1>3, TurnCorrect, CoherentCorrect, PTL DEF Spec

---------------------------------------------------------------------------
(***************************************************************************)
(* What was streamed and what was stored.                                  *)
(***************************************************************************)
Shown(t, f) ==
  LET shown == Only(f, {g \in Frame : g.kind \in {"text", "tool_result"}})
  IN [i \in 1 .. Len(shown) |->
        [turn |-> t, role |-> IF shown[i].kind = "text" THEN "assistant" ELSE "tool",
         iter |-> shown[i].iter, call |-> shown[i].call]]
OwnRows(t) == {m \in Message : m.turn = t /\ m.role # "user"}
Returned(t, st) == [turn |-> t, role |-> "tool", iter |-> st.iter, call |-> st.call]

LEMMA ShownAppend ==
  ASSUME NEW t, NEW f \in Seq(Frame), NEW g \in Frame
  PROVE  /\ g.kind \notin {"text", "tool_result"} => Shown(t, Append(f, g)) = Shown(t, f)
         /\ g.kind \in {"text", "tool_result"} =>
              Shown(t, Append(f, g)) =
                Append(Shown(t, f), [turn |-> t, role |-> IF g.kind = "text" THEN "assistant" ELSE "tool",
                                     iter |-> g.iter, call |-> g.call])
<1>1. PICK K : K = {h \in Frame : h.kind \in {"text", "tool_result"}}
  OBVIOUS
<1>2. PICK s : s = Only(f, K)
  OBVIOUS
<1>3. PICK r : r = Only(Append(f, g), K)
  OBVIOUS
<1>4. /\ g.kind \notin {"text", "tool_result"} => r = s
      /\ g.kind \in {"text", "tool_result"} => r = Append(s, g)
  <2>1. g \in K <=> g.kind \in {"text", "tool_result"}
    BY <1>1
  <2> QED
    BY <1>2, <1>3, <2>1, OnlyAppend
<1>5. s \in Seq(Frame) /\ Len(s) \in Nat
  <2>1. s \in Seq(Frame \cap K)
    BY <1>2, OnlySelects
  <2>2. s \in Seq(Frame)
    BY <2>1, SeqMonotonic
  <2> QED
    BY <2>2, LenProperties
<1> DEFINE Out(h) == [turn |-> t, role |-> IF h.kind = "text" THEN "assistant" ELSE "tool",
                      iter |-> h.iter, call |-> h.call]
<1>6. /\ Shown(t, f) = [i \in 1 .. Len(s) |-> Out(s[i])]
      /\ Shown(t, Append(f, g)) = [i \in 1 .. Len(r) |-> Out(r[i])]
  BY <1>1, <1>2, <1>3 DEF Shown
<1> HIDE DEF Out
<1>7. CASE g.kind \notin {"text", "tool_result"}
  BY <1>4, <1>6, <1>7
<1>8. CASE g.kind \in {"text", "tool_result"}
  <2>1. r = Append(s, g)
    BY <1>4, <1>8
  <2>2. /\ Len(r) = Len(s) + 1 /\ r[Len(s) + 1] = g
        /\ \A i \in 1 .. Len(s) : r[i] = s[i]
    BY <1>5, <2>1, AppendProperties
  <2>3. PICK a : a = [i \in 1 .. Len(s) |-> Out(s[i])]
    OBVIOUS
  <2>4. PICK S : S = {Out(s[i]) : i \in 1 .. Len(s)} \cup {Out(g)}
    OBVIOUS
  <2>5. a \in Seq(S) /\ Len(a) = Len(s)
    <3>1. a \in [1 .. Len(s) -> S]
      BY <2>3, <2>4
    <3> QED
      BY <1>5, <3>1, ListOf
  <2>6. PICK b : b = Append(a, Out(g))
    OBVIOUS
  <2>7. /\ b \in Seq(S) /\ Len(b) = Len(s) + 1 /\ b[Len(s) + 1] = Out(g)
        /\ \A i \in 1 .. Len(s) : b[i] = a[i]
    <3>1. Out(g) \in S
      BY <2>4
    <3> QED
      BY <2>5, <2>6, <3>1, AppendProperties
  <2>8. PICK m \in Nat : m = Len(s) + 1
    BY <1>5
  <2>9. \A i \in 1 .. m : b[i] = Out(r[i])
    <3>1. \A i \in 1 .. m : i \in 1 .. Len(s) \/ i = Len(s) + 1
      BY <1>5, <2>8
    <3>2. \A i \in 1 .. Len(s) : b[i] = Out(s[i])
      BY <2>3, <2>7
    <3> QED
      BY <2>2, <2>7, <3>1, <3>2
  <2>10. b = [i \in 1 .. m |-> Out(r[i])]
    <3>1. DOMAIN b = 1 .. m
      BY <2>7, <2>8, LenProperties
    <3>2. b = [i \in DOMAIN b |-> b[i]]
      BY <2>7, LenProperties
    <3> QED
      BY <2>9, <3>1, <3>2, Zenon
  <2>11. Shown(t, Append(f, g)) = b
    BY <1>6, <2>2, <2>8, <2>10
  <2>12. Shown(t, f) = a
    BY <1>6, <2>3
  <2> QED
    BY <1>8, <2>6, <2>11, <2>12 DEF Out
<1> QED
  BY <1>7, <1>8

\* What a frame adds to what was shown.
LEMMA EmittedShown ==
  ASSUME NEW t, NEW st \in Turn, NEW kind \in Kinds, st.connected
  PROVE  /\ kind \notin {"text", "tool_result"} => Shown(t, Emitted(st, kind).frames) = Shown(t, st.frames)
         /\ kind = "text" /\ st.call = 0 =>
              Shown(t, Emitted(st, kind).frames) = Append(Shown(t, st.frames), Asking(t, st))
         /\ kind = "tool_result" =>
              Shown(t, Emitted(st, kind).frames) = Append(Shown(t, st.frames), Returned(t, st))
<1>1. PICK g : g = [kind |-> kind, iter |-> st.iter, call |-> st.call]
  OBVIOUS
<1>2. g \in Frame /\ g.kind = kind /\ g.iter = st.iter /\ g.call = st.call
  BY <1>1 DEF Frame, Kinds, Turn
<1>3. PICK f \in Seq(Frame) : f = st.frames
  BY DEF Turn
<1>4. Emitted(st, kind).frames = Append(f, g)
  BY <1>1, <1>3, EmittedFacts
<1>5. PICK i, c : i = st.iter /\ c = st.call
  OBVIOUS
<1>6. CASE kind \notin {"text", "tool_result"}
  <2>1. Shown(t, Append(f, g)) = Shown(t, f)
    BY <1>2, <1>6, ShownAppend
  <2> QED
    BY <1>3, <1>4, <1>6, <2>1
<1>7. CASE kind = "text"
  <2>1. Shown(t, Append(f, g)) = Append(Shown(t, f), [turn |-> t, role |-> "assistant", iter |-> i, call |-> c])
    BY <1>2, <1>5, <1>7, ShownAppend
  <2>2. c = 0 => Asking(t, st) = [turn |-> t, role |-> "assistant", iter |-> i, call |-> c]
    BY <1>5 DEF Asking
  <2> QED
    BY <1>3, <1>4, <1>5, <1>7, <2>1, <2>2
<1>8. CASE kind = "tool_result"
  <2>1. Shown(t, Append(f, g)) = Append(Shown(t, f), [turn |-> t, role |-> "tool", iter |-> i, call |-> c])
    BY <1>2, <1>5, <1>8, ShownAppend
  <2>2. Returned(t, st) = [turn |-> t, role |-> "tool", iter |-> i, call |-> c]
    BY <1>5 DEF Returned
  <2> QED
    BY <1>3, <1>4, <1>8, <2>1, <2>2
<1> QED
  BY <1>6, <1>7, <1>8

\* What is stored of a turn when nothing failed, given what was streamed.
Mirrors(t, st, kept) ==
  /\ st.connected /\ (st.at # "over" => st.live)
  /\ st.at \in {"idle", "check", "ask", "history"} => st.frames = <<>> /\ ~ st.said /\ kept = <<>>
  /\ st.at \in {"model", "save"} /\ st.said => Shown(t, st.frames) = Append(kept, Asking(t, st))
  /\ st.at \in {"model", "save"} /\ ~ st.said => Shown(t, st.frames) = kept
  /\ st.at \in {"tool", "execute", "finish"} => Shown(t, st.frames) = kept
  /\ st.at = "save_tool" /\ Parses(st.calls[st.call].args) => Shown(t, st.frames) = Append(kept, Returned(t, st))
  /\ st.at = "save_tool" /\ ~ Parses(st.calls[st.call].args) => Shown(t, st.frames) = kept
  /\ st.at = "over" /\ LastIn(st.frames, {"done"}) => Shown(t, st.frames) = kept
AllMirrored == faults = 0 /\ exists => \A t \in Turns : Mirrors(t, turn[t], Kept(t))

LEMMA AdvancedMirrors ==
  ASSUME NEW t, NEW st \in Turn, NEW kept, st.connected, st.live, Shown(t, st.frames) = kept
  PROVE  Mirrors(t, Advanced(st), kept)
<1>1. PICK new : new = Advanced(st)
  OBVIOUS
<1>2. CASE st.call < Len(st.calls)
  <2>1. new.at = "tool" /\ new.frames = st.frames /\ new.live = st.live /\ new.connected = st.connected
    BY <1>1, <1>2, AdvancedFacts
  <2> QED
    BY <1>1, <2>1 DEF Mirrors
<1>3. CASE ~ (st.call < Len(st.calls)) /\ st.iter + 1 < MaxIterations
  <2>1. /\ new.at = "model" /\ new.said = FALSE /\ new.frames = st.frames /\ new.live = st.live
        /\ new.connected = st.connected
    BY <1>1, <1>3, AdvancedFacts
  <2> QED
    BY <1>1, <2>1 DEF Mirrors
<1>4. CASE ~ (st.call < Len(st.calls)) /\ ~ (st.iter + 1 < MaxIterations)
  <2>1. PICK e : e = Emitted(st, "error")
    OBVIOUS
  <2>2. e \in Turn /\ e.connected = st.connected /\ e.live = st.live
    BY <2>1, EmittedFacts DEF Kinds
  <2>3. new = Moved(e, "failed")
    BY <1>1, <1>4, <2>1, AdvancedFacts
  <2>4. new.at = "failed" /\ new.connected = e.connected /\ new.live = e.live
    BY <2>2, <2>3, MovedFacts DEF Points
  <2> QED
    BY <1>1, <2>2, <2>4 DEF Mirrors
<1> QED
  BY <1>2, <1>3, <1>4

\* What a row adds to what is kept of a turn.
LEMMA KeptAppend ==
  ASSUME stored \in Seq(Message), NEW m \in Message, stored' = Append(stored, m), NEW u
  PROVE  /\ m \in OwnRows(u) => Kept(u)' = Append(Kept(u), m)
         /\ m \notin OwnRows(u) => Kept(u)' = Kept(u)
<1>1. PICK K : K = OwnRows(u)
  OBVIOUS
<1>2. Kept(u) = Only(stored, K)
  BY <1>1 DEF Kept, OwnRows
<1>3. Kept(u)' = Only(stored', K)
  BY <1>1 DEF Kept, OwnRows
<1> QED
  BY <1>1, <1>2, <1>3, OnlyAppend

\* While the conversation is there and nothing failed, every write succeeds.
LEMMA SavedWhole ==
  ASSUME NEW t \in Turns, TurnInv, NEW role \in {"user", "assistant", "tool"},
         exists, turn[t].live, Save(t, role), faults' = 0
  PROVE  stored' = Append(stored, Row(t, role))
<1>1. faults \in Nat
  BY Bounds DEF TurnInv, TurnTypeOK
<1>2. ~ Fault
  BY <1>1 DEF Fault
<1> QED
  BY <1>2 DEF Save

LEMMA MirrorsStep ==
  ASSUME TurnInv, NEW t \in Turns, Orderly(turn[t]), exists, exists', faults = 0, faults' = 0,
         Mirrors(t, turn[t], Kept(t)),
         Open(t) \/ TurnStep(t) \/ Disconnect(t) \/ Timeout(t) \/ Crash(t)
  PROVE  Mirrors(t, turn'[t], Kept(t)')
<1>0. /\ turn \in [Turns -> Turn] /\ turn[t] \in Turn /\ Positioned(turn[t]) /\ stored \in Seq(Message)
      /\ turn[t].connected /\ (turn[t].at # "over" => turn[t].live)
  BY DEF TurnInv, TurnTypeOK, Mirrors
<1>1. ~ Fault
  BY DEF Fault
<1>2. ASSUME NEW new, Become(t, new) PROVE turn'[t] = new
  BY <1>0, <1>2, OthersStay
<1>3. UNCHANGED stored => Kept(t)' = Kept(t)
  BY DEF Kept
<1>4. /\ Row(t, "user") \in Message /\ Row(t, "assistant") \in Message /\ Row(t, "tool") \in Message
      /\ Row(t, "user") \notin OwnRows(t)
      /\ Row(t, "assistant") \in OwnRows(t) /\ Row(t, "tool") \in OwnRows(t)
  BY <1>0, RowTyped DEF OwnRows, Row
<1>5. Row(t, "assistant") = Asking(t, turn[t]) /\ Row(t, "tool") = Returned(t, turn[t])
  BY DEF Row, Asking, Returned
<1>6. PICK kept : kept = Kept(t)
  OBVIOUS
<1>7. Mirrors(t, turn[t], kept)
  BY <1>6
<1>8. CASE Open(t)
  <2>1. PICK new : new = Moved(turn[t], "check")
    OBVIOUS
  <2>2. turn'[t] = new /\ Kept(t)' = kept /\ turn[t].at = "idle"
    BY <1>2, <1>3, <1>6, <1>8, <2>1 DEF Open, At
  <2>3. /\ new.at = "check" /\ new.frames = turn[t].frames /\ new.said = turn[t].said
        /\ new.live = turn[t].live /\ new.connected = turn[t].connected
    BY <1>0, <2>1, MovedFacts DEF Points
  <2> QED
    BY <1>7, <2>2, <2>3 DEF Mirrors
<1>9. CASE Check(t)
  <2>1. turn[t].at = "check"
    BY <1>9 DEF Check, At
  <2>2. PICK new : new = Moved(turn[t], "ask")
    OBVIOUS
  <2>3. turn'[t] = new /\ Kept(t)' = kept
    BY <1>0, <1>1, <1>2, <1>3, <1>6, <1>9, <2>1, <2>2 DEF Check
  <2>4. /\ new.at = "ask" /\ new.frames = turn[t].frames /\ new.said = turn[t].said
        /\ new.live = turn[t].live /\ new.connected = turn[t].connected
    BY <1>0, <2>2, MovedFacts DEF Points
  <2> QED
    BY <1>7, <2>1, <2>3, <2>4 DEF Mirrors
<1>10. CASE Ask(t)
  <2>1. turn[t].at = "ask"
    BY <1>10 DEF Ask, At
  <2>2. PICK new : new = Moved(turn[t], "history")
    OBVIOUS
  <2>3. turn'[t] = new /\ stored' = Append(stored, Row(t, "user"))
    BY <1>0, <1>1, <1>2, <1>10, <2>1, <2>2 DEF Ask
  <2>4. Kept(t)' = kept
    BY <1>0, <1>4, <1>6, <2>3, KeptAppend
  <2>5. /\ new.at = "history" /\ new.frames = turn[t].frames /\ new.said = turn[t].said
        /\ new.live = turn[t].live /\ new.connected = turn[t].connected
    BY <1>0, <2>2, MovedFacts DEF Points
  <2> QED
    BY <1>7, <2>1, <2>3, <2>4, <2>5 DEF Mirrors
<1>11. CASE History(t)
  <2>1. turn[t].at = "history" /\ turn[t].frames = <<>> /\ ~ turn[t].said /\ kept = <<>>
    BY <1>7, <1>11 DEF History, At, Mirrors
  <2>2. PICK replay : replay = [i \in 1 .. Len(Replayed) |-> [msg |-> Replayed[i], calls |-> 0]]
    OBVIOUS
  <2>3. PICK new : new = [turn[t] EXCEPT !.at = "model", !.context = replay]
    OBVIOUS
  <2>4. turn'[t] = new /\ Kept(t)' = kept
    BY <1>0, <1>1, <1>2, <1>3, <1>6, <1>11, <2>1, <2>2, <2>3 DEF History
  <2>5. /\ new.at = "model" /\ new.frames = turn[t].frames /\ new.said = turn[t].said
        /\ new.live = turn[t].live /\ new.connected = turn[t].connected
    BY <1>0, <2>3 DEF Turn
  <2>6. Shown(t, <<>>) = <<>>
    <3>1. Only(<<>>, {g \in Frame : g.kind \in {"text", "tool_result"}}) = <<>> /\ Len(<<>>) = 0
      BY OnlyEmpty, EmptySeq
    <3>2. \A x : [i \in 1 .. 0 |-> x[i]] = <<>>
      OBVIOUS
    <3> QED
      BY <3>1, <3>2 DEF Shown
  <2> QED
    BY <1>0, <2>1, <2>4, <2>5, <2>6 DEF Mirrors
<1>12. CASE StreamText(t)
  <2>1. turn[t].at = "model" /\ ~ turn[t].said /\ turn[t].call = 0 /\ Shown(t, turn[t].frames) = kept
    BY <1>0, <1>7, <1>12 DEF StreamText, At, Mirrors, Positioned
  <2>2. PICK e : e = Emitted(turn[t], "text")
    OBVIOUS
  <2>3. "text" \in Kinds
    BY DEF Kinds
  <2>4. /\ e \in Turn /\ e.at = turn[t].at /\ e.live = turn[t].live /\ e.connected = turn[t].connected
        /\ e.iter = turn[t].iter
    BY <1>0, <2>2, <2>3, EmittedFacts
  <2>5. Shown(t, e.frames) = Append(kept, Asking(t, turn[t]))
    BY <1>0, <2>1, <2>2, <2>3, EmittedShown
  <2>6. PICK new : new = [e EXCEPT !.said = TRUE]
    OBVIOUS
  <2>7. turn'[t] = new /\ Kept(t)' = kept
    BY <1>2, <1>3, <1>6, <1>12, <2>2, <2>6 DEF StreamText
  <2>8. /\ new.at = "model" /\ new.frames = e.frames /\ new.said = TRUE
        /\ new.live = turn[t].live /\ new.connected = turn[t].connected /\ new.iter = turn[t].iter
    BY <2>1, <2>4, <2>6 DEF Turn
  <2>9. Asking(t, new) = Asking(t, turn[t])
    BY <2>8 DEF Asking
  <2> QED
    BY <1>0, <2>1, <2>5, <2>7, <2>8, <2>9 DEF Mirrors
<1>13. CASE ModelFails(t)
  <2>1. turn[t].at = "model"
    BY <1>13 DEF ModelFails, At
  <2>2. PICK e : e = Emitted(turn[t], "error")
    OBVIOUS
  <2>3. e \in Turn /\ e.live = turn[t].live /\ e.connected = turn[t].connected
    BY <1>0, <2>2, EmittedFacts DEF Kinds
  <2>4. PICK new : new = Moved(e, "failed")
    OBVIOUS
  <2>5. new.at = "failed" /\ new.live = e.live /\ new.connected = e.connected
    BY <2>3, <2>4, MovedFacts DEF Points
  <2>6. turn'[t] = new
    BY <1>2, <1>13, <2>2, <2>4 DEF ModelFails
  <2> QED
    BY <1>0, <2>1, <2>3, <2>5, <2>6 DEF Mirrors
<1>14. CASE SaveText(t)
  <2>1. turn[t].at = "save"
    BY <1>14 DEF SaveText, At
  <2>2. Shown(t, turn[t].frames) = Kept(t)'
    <3>1. CASE turn[t].said
      <4>1. stored' = Append(stored, Row(t, "assistant"))
        BY <1>0, <1>14, <2>1, <3>1, SavedWhole DEF SaveText
      <4>2. Kept(t)' = Append(kept, Row(t, "assistant"))
        BY <1>0, <1>4, <1>6, <4>1, KeptAppend
      <4>3. Shown(t, turn[t].frames) = Append(kept, Asking(t, turn[t]))
        BY <1>7, <2>1, <3>1 DEF Mirrors
      <4> QED
        BY <1>5, <4>2, <4>3
    <3>2. CASE ~ turn[t].said
      <4>1. Kept(t)' = kept
        BY <1>3, <1>6, <1>14, <3>2 DEF SaveText
      <4>2. Shown(t, turn[t].frames) = kept
        BY <1>7, <2>1, <3>2 DEF Mirrors
      <4> QED
        BY <4>1, <4>2
    <3> QED
      BY <3>1, <3>2
  <2>3. PICK new \in {Moved(turn[t], "finish"), [turn[t] EXCEPT !.at = "tool", !.call = 1]} : turn'[t] = new
    BY <1>2, <1>14 DEF SaveText
  <2>4. /\ new.at \in {"finish", "tool"} /\ new.frames = turn[t].frames /\ new.live = turn[t].live
        /\ new.connected = turn[t].connected
    <3>1. CASE new = Moved(turn[t], "finish")
      BY <1>0, <3>1, MovedFacts DEF Points
    <3>2. CASE new = [turn[t] EXCEPT !.at = "tool", !.call = 1]
      BY <1>0, <3>2 DEF Turn
    <3> QED
      BY <2>3, <3>1, <3>2
  <2> QED
    BY <1>0, <2>1, <2>2, <2>3, <2>4 DEF Mirrors
<1>15. ASSUME NEW answer \in Answers, Answer(t, answer) PROVE Mirrors(t, turn'[t], Kept(t)')
  <2>1. turn[t].at = "model" /\ Kept(t)' = kept
    BY <1>3, <1>6, <1>15 DEF Answer, At
  <2>2. PICK new : new = turn'[t]
    OBVIOUS
  <2>3. /\ new.at = "save" /\ new.frames = turn[t].frames /\ new.live = turn[t].live /\ new.said = turn[t].said
        /\ new.connected = turn[t].connected /\ new.iter = turn[t].iter
    BY <1>0, <1>15, <2>2, AnswerFacts
  <2>4. Asking(t, new) = Asking(t, turn[t])
    BY <2>3 DEF Asking
  <2> QED
    BY <1>0, <1>7, <2>1, <2>2, <2>3, <2>4 DEF Mirrors
<1>16. ASSUME turn[t].at = "tool"
       PROVE  /\ CallTold(t) \in Turn /\ CallTold(t).call = turn[t].call
              /\ CallTold(t).live = turn[t].live
              /\ CallTold(t).connected = turn[t].connected
              /\ Shown(t, CallTold(t).frames) = kept
  <2>1. Shown(t, turn[t].frames) = kept
    BY <1>7, <1>16 DEF Mirrors
  <2>2. "tool_call" \in Kinds
    BY DEF Kinds
  <2>3. CASE Parses(Asked(t).args)
    <3>1. PICK e : e = Emitted(turn[t], "tool_call")
      OBVIOUS
    <3>2. CallTold(t) = e
      BY <2>3, <3>1 DEF CallTold
    <3>3. /\ e \in Turn /\ e.call = turn[t].call
          /\ e.live = turn[t].live /\ e.connected = turn[t].connected
      BY <1>0, <2>2, <3>1, EmittedFacts
    <3>4. Shown(t, e.frames) = kept
      BY <1>0, <2>1, <2>2, <3>1, EmittedShown
    <3> QED
      BY <3>2, <3>3, <3>4
  <2>4. CASE ~ Parses(Asked(t).args)
    BY <1>0, <2>1, <2>4 DEF CallTold
  <2> QED
    BY <2>3, <2>4
<1>17. CASE CallTool(t)
  <2>1. turn[t].at = "tool" /\ Kept(t)' = kept
    BY <1>3, <1>6, <1>17 DEF CallTool, At
  <2>2. PICK c : c = CallTold(t)
    OBVIOUS
  <2>3. PICK new : new = Moved(c, "execute")
    OBVIOUS
  <2>4. turn'[t] = new
    BY <1>2, <1>17, <2>2, <2>3 DEF CallTool
  <2>5. new.at = "execute" /\ new.frames = c.frames /\ new.live = c.live /\ new.connected = c.connected
    BY <1>16, <2>1, <2>2, <2>3, MovedFacts DEF Points
  <2> QED
    BY <1>0, <1>16, <2>1, <2>2, <2>4, <2>5 DEF Mirrors
<1>18. CASE UnknownTool(t)
  <2>1. turn[t].at = "tool" /\ Kept(t)' = kept
    BY <1>3, <1>6, <1>18 DEF UnknownTool, At
  <2>2. PICK c : c = CallTold(t)
    OBVIOUS
  <2>3. c \in Turn /\ c.live /\ c.connected /\ Shown(t, c.frames) = kept
    BY <1>0, <1>16, <2>1, <2>2
  <2>4. PICK e : e = Emitted(c, "unknown_result")
    OBVIOUS
  <2>5. "unknown_result" \in Kinds
    BY DEF Kinds
  <2>6. e \in Turn /\ e.live /\ e.connected
    BY <2>3, <2>4, <2>5, EmittedFacts
  <2>7. Shown(t, e.frames) = kept
    BY <2>3, <2>4, <2>5, EmittedShown
  <2>8. PICK n : n = Noted(e, Row(t, "tool"), 0)
    OBVIOUS
  <2>9. n \in Turn /\ n.live /\ n.connected /\ n.frames = e.frames
    BY <1>4, <2>6, <2>8, Bounds, NotedFacts
  <2>10. turn'[t] = Advanced(n)
    BY <1>2, <1>18, <2>2, <2>4, <2>8 DEF UnknownTool
  <2>11. Mirrors(t, Advanced(n), kept)
    BY <2>7, <2>9, AdvancedMirrors
  <2> QED
    BY <2>1, <2>10, <2>11
<1>19. CASE Progress(t)
  <2>1. turn[t].at = "execute" /\ Kept(t)' = kept /\ Shown(t, turn[t].frames) = kept
    BY <1>3, <1>6, <1>7, <1>19 DEF Progress, At, Mirrors
  <2>2. PICK e : e = Emitted(turn[t], "tool_progress")
    OBVIOUS
  <2>3. "tool_progress" \in Kinds
    BY DEF Kinds
  <2>4. e.at = "execute" /\ e.live /\ e.connected
    BY <1>0, <2>1, <2>2, <2>3, EmittedFacts
  <2>5. Shown(t, e.frames) = kept
    BY <1>0, <2>1, <2>2, <2>3, EmittedShown
  <2>6. turn'[t] = e
    BY <1>2, <1>19, <2>2 DEF Progress
  <2> QED
    BY <2>1, <2>4, <2>5, <2>6 DEF Mirrors
<1>20. CASE RunTool(t)
  <2>1. turn[t].at = "execute" /\ Kept(t)' = kept /\ Shown(t, turn[t].frames) = kept
    BY <1>3, <1>6, <1>7, <1>20 DEF RunTool, At, Mirrors
  <2>2. PICK result : /\ result = IF Parses(Asked(t).args) THEN "tool_result" ELSE "orphan_result"
                      /\ Become(t, Moved(Noted(Emitted(turn[t], result), Row(t, "tool"), 0), "save_tool"))
    BY <1>20 DEF RunTool
  <2>3. PICK e : e = Emitted(turn[t], result)
    OBVIOUS
  <2>4. result \in Kinds
    BY <2>2 DEF Kinds
  <2>5. /\ e \in Turn /\ e.live /\ e.connected /\ e.calls = turn[t].calls /\ e.call = turn[t].call
        /\ e.iter = turn[t].iter
    BY <1>0, <2>1, <2>3, <2>4, EmittedFacts
  <2>6. PICK n : n = Noted(e, Row(t, "tool"), 0)
    OBVIOUS
  <2>7. /\ n \in Turn /\ n.live /\ n.connected /\ n.frames = e.frames /\ n.calls = e.calls
        /\ n.call = e.call /\ n.iter = e.iter
    BY <1>4, <2>5, <2>6, Bounds, NotedFacts
  <2>8. PICK new : new = Moved(n, "save_tool")
    OBVIOUS
  <2>9. /\ new.at = "save_tool" /\ new.live /\ new.connected /\ new.frames = e.frames
        /\ new.calls = turn[t].calls /\ new.call = turn[t].call /\ new.iter = turn[t].iter
    BY <2>5, <2>7, <2>8, MovedFacts DEF Points
  <2>10. turn'[t] = new
    BY <1>2, <2>2, <2>3, <2>6, <2>8
  <2>11. new.calls[new.call] = Asked(t)
    BY <2>9 DEF Asked
  <2>12. CASE Parses(Asked(t).args)
    <3>1. Shown(t, e.frames) = Append(kept, Returned(t, turn[t]))
      BY <1>0, <2>1, <2>2, <2>3, <2>4, <2>12, EmittedShown
    <3>2. Returned(t, new) = Returned(t, turn[t])
      BY <2>9 DEF Returned
    <3> QED
      BY <2>1, <2>9, <2>10, <2>11, <2>12, <3>1, <3>2 DEF Mirrors
  <2>13. CASE ~ Parses(Asked(t).args)
    <3>1. Shown(t, e.frames) = kept
      BY <1>0, <2>1, <2>2, <2>3, <2>4, <2>13, EmittedShown
    <3> QED
      BY <2>1, <2>9, <2>10, <2>11, <2>13, <3>1 DEF Mirrors
  <2> QED
    BY <2>12, <2>13
<1>21. CASE SaveTool(t)
  <2>1. turn[t].at = "save_tool" /\ turn'[t] = Advanced(turn[t])
    BY <1>2, <1>21 DEF SaveTool, At
  <2>2. Shown(t, turn[t].frames) = Kept(t)'
    <3>1. CASE Parses(Asked(t).args)
      <4>1. stored' = Append(stored, Row(t, "tool"))
        BY <1>0, <1>21, <2>1, <3>1, SavedWhole DEF SaveTool
      <4>2. Kept(t)' = Append(kept, Row(t, "tool"))
        BY <1>0, <1>4, <1>6, <4>1, KeptAppend
      <4>3. Shown(t, turn[t].frames) = Append(kept, Returned(t, turn[t]))
        BY <1>7, <2>1, <3>1 DEF Mirrors, Asked
      <4> QED
        BY <1>5, <4>2, <4>3
    <3>2. CASE ~ Parses(Asked(t).args)
      <4>1. Kept(t)' = kept
        BY <1>3, <1>6, <1>21, <3>2 DEF SaveTool
      <4>2. Shown(t, turn[t].frames) = kept
        BY <1>7, <2>1, <3>2 DEF Mirrors, Asked
      <4> QED
        BY <4>1, <4>2
    <3> QED
      BY <3>1, <3>2
  <2> QED
    BY <1>0, <2>1, <2>2, AdvancedMirrors
<1>22. CASE Finish(t)
  <2>1. turn[t].at = "finish" /\ Kept(t)' = kept /\ Shown(t, turn[t].frames) = kept
    BY <1>3, <1>6, <1>7, <1>22 DEF Finish, At, Mirrors
  <2>2. PICK e : e = Emitted(turn[t], "done")
    OBVIOUS
  <2>3. "done" \in Kinds
    BY DEF Kinds
  <2>4. e \in Turn /\ e.connected
    BY <1>0, <2>2, <2>3, EmittedFacts
  <2>5. Shown(t, e.frames) = kept
    BY <1>0, <2>1, <2>2, <2>3, EmittedShown
  <2>6. PICK new : new = Ended(e)
    OBVIOUS
  <2>7. new.at = "over" /\ new.frames = e.frames /\ new.connected
    BY <2>4, <2>6, EndedFacts
  <2>8. turn'[t] = new
    BY <1>2, <1>22, <2>2, <2>6 DEF Finish
  <2> QED
    BY <2>1, <2>5, <2>7, <2>8 DEF Mirrors
<1>23. CASE HandlerError(t)
  <2>1. PICK e : e = Emitted(turn[t], "handler_error")
    OBVIOUS
  <2>2. turn[t].at = "failed"
    BY <1>23 DEF HandlerError, At
  <2>3. "handler_error" \in Kinds
    BY DEF Kinds
  <2>4. e \in Turn /\ e.connected
    BY <1>0, <2>1, <2>3, EmittedFacts
  <2>5. LastIn(e.frames, {"handler_error"})
    <3>1. turn[t].frames = <<>> \/ (\E K : LastIn(turn[t].frames, K) /\ \A l \in K : "handler_error" \in Follows[l])
      BY <1>0, <2>2, FollowsFacts DEF Orderly, Heeded
    <3> QED
      BY <1>0, <2>1, <2>3, <3>1, Tells DEF Orderly
  <2>6. PICK new : new = Ended(e)
    OBVIOUS
  <2>7. new.at = "over" /\ new.frames = e.frames /\ new.connected
    BY <2>4, <2>6, EndedFacts
  <2>8. turn'[t] = new
    BY <1>2, <1>23, <2>1, <2>6 DEF HandlerError
  <2>9. ~ LastIn(new.frames, {"done"})
    BY <2>5, <2>7 DEF LastIn
  <2> QED
    BY <2>7, <2>8, <2>9 DEF Mirrors
<1>24. ~ Disconnect(t) /\ ~ Timeout(t) /\ ~ Crash(t)
  BY <1>1 DEF Disconnect, Timeout, Crash
<1> QED
  BY <1>8, <1>9, <1>10, <1>11, <1>12, <1>13, <1>14, <1>15, <1>17, <1>18, <1>19, <1>20, <1>21, <1>22, <1>23,
     <1>24 DEF TurnStep

\* What is read back of a turn that ended well is what its client saw, however
\* the turns of the conversation interleave (service.go:181-248).
THEOREM ReloadShowsStreamCorrect == Spec => []ReloadShowsStream
<1>1. Init => AllMirrored
  <2>1. ASSUME NEW t \in Turns, Init PROVE Mirrors(t, turn[t], Kept(t))
    <3>1. Kept(t) = <<>>
      BY <2>1, OnlyEmpty DEF Init, Kept
    <3>2. turn[t] = NoTurn
      BY <2>1 DEF Init
    <3> QED
      BY <3>1, <3>2 DEF Mirrors, NoTurn
  <2> QED
    BY <2>1 DEF AllMirrored
<1>2. TurnInv /\ AllOrderly /\ AllMirrored /\ [Next]_vars => AllMirrored'
  <2> SUFFICES ASSUME TurnInv, AllOrderly, AllMirrored, [Next]_vars, faults' = 0, exists', NEW u \in Turns
               PROVE  Mirrors(u, turn'[u], Kept(u)')
    BY DEF AllMirrored
  <2>1. CASE UNCHANGED vars
    <3>1. Kept(u)' = Kept(u) /\ turn'[u] = turn[u] /\ faults = 0 /\ exists
      BY <2>1 DEF vars, Kept
    <3> QED
      BY <3>1 DEF AllMirrored
  <2>2. CASE DeleteConversation
    BY <2>2 DEF DeleteConversation
  <2>3. ASSUME NEW t \in Turns, Open(t) \/ TurnStep(t) \/ Disconnect(t) \/ Timeout(t) \/ Crash(t)
        PROVE  Mirrors(u, turn'[u], Kept(u)')
    <3>1. exists /\ turn \in [Turns -> Turn] /\ stored \in Seq(Message) /\ turn[t] \in Turn
      BY <2>3, StoresOwn DEF TurnInv, TurnTypeOK
    <3>2. faults = 0
      <4>1. faults \in Nat
        BY Bounds DEF TurnInv, TurnTypeOK
      <4>2. faults' = faults \/ faults' = faults + 1
        BY <2>3, FaultsCount
      <4> QED
        BY <4>1, <4>2
    <3>3. \A v \in Turns : Mirrors(v, turn[v], Kept(v))
      BY <3>1, <3>2 DEF AllMirrored
    <3>4. CASE u = t
      BY <2>3, <3>1, <3>2, <3>3, <3>4, MirrorsStep DEF AllOrderly
    <3>5. CASE u # t
      <4>1. turn'[u] = turn[u]
        BY <2>3, <3>1, <3>5, OneTurnMoves
      <4>2. Kept(u)' = Kept(u)
        <5>1. CASE stored' = stored
          BY <5>1 DEF Kept
        <5>2. ASSUME NEW role \in {"user", "assistant", "tool"}, stored' = Append(stored, Row(t, role))
              PROVE  Kept(u)' = Kept(u)
          <6>1. Row(t, role) \in Message /\ Row(t, role) \notin OwnRows(u)
            BY <3>1, <3>5, RowTyped DEF OwnRows, Row
          <6> QED
            BY <3>1, <5>2, <6>1, KeptAppend
        <5> QED
          BY <2>3, <5>1, <5>2, StoresOwn
      <4> QED
        BY <3>3, <4>1, <4>2
    <3> QED
      BY <3>4, <3>5
  <2> QED
    BY <2>1, <2>2, <2>3 DEF Next
<1>3. TurnInv /\ AllOrderly /\ AllMirrored => ReloadShowsStream
  <2> SUFFICES ASSUME AllOrderly, AllMirrored, faults = 0, exists, NEW t \in Turns, At(t, "over"),
                      turn[t].frames[Len(turn[t].frames)].kind = "done"
               PROVE  Kept(t) = Streamed(t)
    BY DEF ReloadShowsStream
  <2>1. Mirrors(t, turn[t], Kept(t)) /\ turn[t].at = "over"
    BY DEF AllMirrored, At
  <2>2. turn[t].frames # <<>>
    BY <2>1 DEF Mirrors, AllOrderly, Orderly, Heeded, LastIn
  <2>3. Shown(t, turn[t].frames) = Kept(t)
    BY <2>1, <2>2 DEF Mirrors, LastIn
  <2>4. Shown(t, turn[t].frames) = Streamed(t)
    BY DEF Shown, Streamed
  <2> QED
    BY <2>3, <2>4
<1> QED
  BY <1>1, <1>2, <1>3, TurnCorrect, OrderlyCorrect, PTL DEF Spec
=============================================================================
