---------------------------- MODULE ActivityErrors ---------------------------
(***************************************************************************)
(* What becomes of an error between the call that failed and the workflow  *)
(* that runs the activity. Only an error with a type ends an activity: the *)
(* catch block of the workflow decides by the type what it does. An error  *)
(* without one is retried by Temporal for ever.                            *)
(***************************************************************************)

EXTENDS Orchestrator

\* An error of BaseError's kinds has a type, any other has none.
ErrorType == {"internal", "external"}
Untyped == "untyped"

\* What a request to a provider is refused with. "unscoped" is an access token
\* without all scopes, an error this code makes; it has no response.
Refusal == {"invalid_grant", "unauthorized", "forbidden", "not_found", "unscoped", "other"}

\* The user's mistakes are external errors; what else there is passes through.
UserError(refusal, mistakes) == IF refusal \in mistakes THEN "external" ELSE Untyped

handleAuthApiError(refusal) == UserError(refusal, {"invalid_grant"})

\* An error without a response makes the handler itself throw a TypeError.
handleGoogleAuthError(refusal) == UserError(refusal, {"invalid_grant", "forbidden"})

\* MicrosoftService.getAccessToken and GoogleService.getAccessToken. The second
\* throws its own error for missing scopes into its own catch block.
MicrosoftTokenErrors == {handleAuthApiError(r) : r \in Refusal \ {"unscoped"}}
GoogleTokenErrors == {handleGoogleAuthError(r) : r \in Refusal}

\* A processor's answer has a type, a connection that fails has none.
processorApiWrapper(answer) == IF answer \in ErrorType THEN answer ELSE Untyped
ProcessorErrors(types) == {processorApiWrapper(t) : t \in types \cup {Untyped}}

UnacceptableActivityError(retry, type) == [shouldActivityRetry |-> retry, type |-> type]

processorWrapper(error) ==
  IF error \in ErrorType
  THEN UnacceptableActivityError(FALSE, error)
  ELSE UnacceptableActivityError(TRUE, Untyped)

\* activityWrapper: the failures that Temporal does not retry. What they are
\* is found again in the details of the failure.
NonRetryable(failures) == {f \in failures : ~f.shouldActivityRetry}
Ending(errors) == {f.type : f \in NonRetryable({processorWrapper(e) : e \in errors})}

\* An activity that no worker has ends with none of its errors; one that is not
\* tried for ever ends with any.
EndingOf(activity, options, errors) ==
  IF activity \notin WorkerActivities THEN {}
  ELSE Ending(errors) \cup (IF TriesForEver(options[activity]) THEN {} ELSE {Untyped})
ExcelEnding(activity, errors) == EndingOf(activity, ExcelOptions, errors)
GoogleEnding(activity, errors) == EndingOf(activity, GoogleOptions, errors)

\* Per step of a workflow, the types of the errors that end it. The downloads
\* need an access token first. The loader blames nobody but itself.
ExcelErrors ==
  [download |-> ExcelEnding("downloadExcel", MicrosoftTokenErrors \cup ProcessorErrors(ErrorType)),
   compare |-> ExcelEnding("compareExcel", ProcessorErrors(ErrorType)),
   load |-> ExcelEnding("loadExcel", ProcessorErrors({"internal"}))]

GoogleErrors ==
  [download |-> GoogleEnding("downloadGoogleSheets", GoogleTokenErrors \cup ProcessorErrors(ErrorType)),
   ingest |-> GoogleEnding("ingestGoogleSheets", GoogleTokenErrors \cup ProcessorErrors(ErrorType)),
   compare |-> GoogleEnding("compareGoogleSheets", ProcessorErrors(ErrorType)),
   load |-> GoogleEnding("loadGoogleSheets", ProcessorErrors({"internal"}))]
=============================================================================
