--------------------------- MODULE ActionContract ---------------------------
(***************************************************************************)
(* The action contract (action/) in use: requests off the wire, and the    *)
(* way from a text of the model to a request: parse_proposal, authorize,   *)
(* build_request_from_authorized.                                          *)
(***************************************************************************)
EXTENDS ActionSchema

CONSTANTS
  Texts,          \* what the model may answer: prose, or a text that is JSON
  Wires,          \* what request_from_dict may be given from outside
  TurnIds,        \* what a caller may pass as turn_id
  MaxRequests     \* bound on the requests in existence

VARIABLES
  proposal,       \* what parse_proposal made of the last text
  authorized,     \* the AuthorizedAction in hand
  requests,       \* every ActionRequest built so far
  raised          \* the exception the last call ended with, or "none"

vars == <<proposal, authorized, requests, raised>>
-----------------------------------------------------------------------------
ParseProposal(text) ==
  /\ raised' = ParseError(text)
  /\ proposal' = IF ParseError(text) = "none" THEN ProposalIn(text) ELSE proposal
  /\ UNCHANGED <<authorized, requests>>

Authorize ==
  /\ proposal # Nothing
  /\ LET error == CheckParameters(proposal.capability, proposal.parameters)
     IN  /\ raised' = error
         /\ authorized' =
              IF error = "none"
                THEN [capability |-> proposal.capability,
                      parameters |-> Parameters(proposal.capability, proposal.parameters)]
                ELSE authorized
  /\ UNCHANGED <<proposal, requests>>

BuildRequest(turn) ==
  /\ authorized # Nothing /\ Cardinality(requests) < MaxRequests
  /\ \E id, key \in FreshIds :
       LET r == Built(authorized, id, key, turn, 0)
       IN  /\ raised' = CheckRequest(r)
           /\ requests' = IF CheckRequest(r) = "none" THEN requests \cup {r} ELSE requests
  /\ UNCHANGED <<proposal, authorized>>

RequestFromDict(d) ==
  /\ Cardinality(requests) < MaxRequests
  /\ raised' = RequestError(d)
  /\ requests' = IF RequestError(d) = "none" THEN requests \cup {RequestIn(d)} ELSE requests
  /\ UNCHANGED <<proposal, authorized>>
-----------------------------------------------------------------------------
Init ==
  /\ proposal = Nothing
  /\ authorized = Nothing
  /\ requests = {}
  /\ raised = "none"

Next ==
  \/ \E text \in Texts : ParseProposal(text)
  \/ Authorize
  \/ \E turn \in TurnIds : BuildRequest(turn)
  \/ \E d \in Wires : RequestFromDict(d)

Spec == Init /\ [][Next]_vars
=============================================================================
