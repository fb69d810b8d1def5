---------------------------- MODULE MCPolicyAgent ----------------------------
(* Instances of PolicyAgent for TLC.                                       *)
EXTENDS PolicyAgentRefinement

CONSTANTS app1, app2

\* An id whose reason contains a colon.
ColonId == {[who |-> <<"mail">>, why |-> <<"sync", "imap">>]}

EitherPolicy == {{"InterruptSession"}, {"ChangeScreenSettings"}}
=============================================================================
