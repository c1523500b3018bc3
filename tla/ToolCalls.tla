------------------------------ MODULE ToolCalls ------------------------------
(***************************************************************************)
(* StreamChat's assembly of tool calls.  The model's stream carries a call *)
(* as fragments: a head with its id and name, then pieces of its           *)
(* arguments; the fragments of several calls may interleave and are told   *)
(* apart by their index, which a stream with a single call may leave out.  *)
(***************************************************************************)
EXTENDS Naturals, Sequences, FiniteSets

\* The elements of a sequence that are in a set, in order; before that, those of
\* each of its prefixes.
Filtered(s, K) ==
  LET upTo[n \in 0 .. Len(s)] ==
        IF n = 0 THEN <<>>
        ELSE IF s[n] \in K THEN Append(upTo[n - 1], s[n]) ELSE upTo[n - 1]
  IN upTo
Only(s, K) == Filtered(s, K)[Len(s)]

\* JSON arguments, as the pieces they arrive in; a stream that is cut short
\* leaves arguments that do not parse.
Pieces == {"open", "close"}
WholeArgs == <<"open", "close">>
CutArgs == <<"open">>
Parses(args) == args = WholeArgs

Names == {"known", "unknown", ""}  \* a registered tool, none, or no name at all
Call == [name : Names, args : {WholeArgs, CutArgs}]

\* A call as StreamChat returns it.
Ids == <<"id1", "id2", "id3">>
Part == [id : {Ids[k] : k \in 1 .. Len(Ids)}, name : Names \ {""}, args : {WholeArgs, CutArgs}]

NoIndex == 99
Fragment(index, id, name, args) == [index |-> index, id |-> id, name |-> name, args |-> args]

---------------------------------------------------------------------------
(***************************************************************************)
(* The receiver: parts keyed by index, in order of first appearance.       *)
(***************************************************************************)
Indexes == 0 .. Len(Ids) - 1
IndexOf(f) == IF f.index = NoIndex THEN 0 ELSE f.index

\* Before the first fragment.  An index that is not in order has no part yet.
Silence == [order |-> <<>>, parts |-> [i \in Indexes |-> [id |-> "", name |-> "", args |-> <<>>]]]

MutOrdered(order, i) == Append(Only(order, Indexes \ {i}), i)
Ordered(order, i) ==
  IF \E n \in 1 .. Len(order) : order[n] = i THEN order ELSE Append(order, i)

LastSaid(old, new) == IF new # "" THEN new ELSE old

\* What one fragment adds.
Received(st, f) ==
  [order |-> Ordered(st.order, IndexOf(f)),
   parts |-> [st.parts EXCEPT ![IndexOf(f)] =
                [id |-> LastSaid(@.id, f.id), name |-> LastSaid(@.name, f.name),
                 args |-> @.args \o f.args]]]

\* The state after each prefix of a stream.
Heard(stream) ==
  LET upTo[n \in 0 .. Len(stream)] ==
        IF n = 0 THEN Silence ELSE Received(upTo[n - 1], stream[n])
  IN upTo

\* A part that never got a name is dropped.
Named(parts) ==
  Only(parts, [id : {Ids[k] : k \in 1 .. Len(Ids)} \cup {""}, name : Names \ {""}, args : Seq(Pieces)])

Assemble(stream) ==
  LET end == Heard(stream)[Len(stream)] IN
  Named([k \in 1 .. Len(end.order) |-> end.parts[end.order[k]]])

---------------------------------------------------------------------------
(***************************************************************************)
(* The sender: every stream that carries the calls meant.  A call's own    *)
(* fragments are in order, and heads come in the order of the calls.       *)
(***************************************************************************)
Fragments(calls, k) ==
  [c \in 1 .. Len(calls[k].args) + 1 |->
     IF c = 1 THEN Fragment(k - 1, Ids[k], calls[k].name, <<>>)
     ELSE Fragment(k - 1, "", "", <<calls[k].args[c - 1]>>)]

\* Whose fragment comes when: every schedule that has the right number of
\* turns for each call and starts the calls in order.
Longest == Len(WholeArgs) + 1
Taken(s, k, n) == Cardinality({i \in 1 .. n : s[i] = k})
Schedules(calls) ==
  {s \in UNION {[1 .. n -> 1 .. Len(calls)] : n \in 0 .. Longest * Len(calls)} :
     /\ \A k \in 1 .. Len(calls) : Taken(s, k, Len(s)) = Len(Fragments(calls, k))
     /\ \A n \in 1 .. Len(s) : s[n] > 1 => Taken(s, s[n] - 1, n) > 0}

Interleaved(calls, s) == [n \in 1 .. Len(s) |-> Fragments(calls, s[n])[Taken(s, s[n], n)]]
Unnumbered(calls) == [n \in 1 .. Len(Fragments(calls, 1)) |->
                        [Fragments(calls, 1)[n] EXCEPT !.index = NoIndex]]
Streams(calls) ==
  {Interleaved(calls, s) : s \in Schedules(calls)}
    \cup (IF Len(calls) = 1 THEN {Unnumbered(calls)} ELSE {})

\* What a receiver should make of the calls meant.
Meant(calls) ==
  Named([k \in 1 .. Len(calls) |->
           [id |-> Ids[k], name |-> calls[k].name, args |-> calls[k].args]])
=============================================================================
