------------------------------ MODULE MCJobsApi ------------------------------
EXTENDS JobsApi

\* A chat turn from a public address, a request to the tracker from a private
\* one, and a request without a user.
ThreeCalls == {[ip |-> "ip1", user |-> "u1", route |-> "send"],
               [ip |-> NoId, user |-> "u1", route |-> "jobs"],
               [ip |-> "ip1", user |-> NoId, route |-> "history"]}
ThreeKeys == {<<"ip", "ip1">>, <<"user", "u1">>, <<"chat", "u1">>}
SmallLimits == [ip |-> 2, user |-> 1, chat |-> 1, search |-> 1]
=============================================================================
