---------------------------- MODULE MCResponses ----------------------------
(* The instance of Responses: nothing is added to it.                      *)
EXTENDS Responses

=============================================================================
