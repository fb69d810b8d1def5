------------------------ MODULE PolicyAgentRefinement ------------------------
(***************************************************************************)
(* PolicyAgent implements InhibitionPromise: the policies that the actions *)
(* were last told of by unavailablePoliciesChanged are the forbidden ones. *)
(***************************************************************************)
EXTENDS PolicyAgent

Promise == INSTANCE InhibitionPromise WITH
               issued       <- 1 .. lastCookie,
               terms        <- request,
               scheduled    <- pending,
               standing     <- requested,
               lockerActive <- screenLockerActive,
               forbidden    <- notifiedPolicies

\* The agent keeps the promise stated in InhibitionPromise: at any time the
\* actions respect the policies of exactly the standing, unblocked requests.
ImplementsPromise == Promise!PromiseSpec
=============================================================================
