----------------------------- MODULE MCChatTurn -----------------------------
EXTENDS ChatTurn, TLC

\* Turns are interchangeable.
Symmetry == Permutations(Turns)

\* One call of each sort: run, not registered, cut short, and without a name.
OneOfEachSort ==
  {[name |-> "known", args |-> WholeArgs], [name |-> "unknown", args |-> WholeArgs],
   [name |-> "known", args |-> CutArgs], [name |-> "", args |-> WholeArgs]}
NamedSorts == {intent \in OneOfEachSort : intent.name # ""}
=============================================================================
