--------------------------- MODULE MCCallPipeline ---------------------------
(* Deployments of the call pipeline, for TLC.                              *)
EXTENDS CallPipeline

CONSTANTS alice, bob, host

Deployment(transport, limit, retries, url_ok, operator) ==
  [transport |-> transport, rate_limit |-> limit, retry_attempts |-> retries,
   url_ok |-> url_ok, operator |-> operator]

\* Both transports, with retries and without, with and without a credential on
\* the host; and the deployments no call of which can leave: a limit of zero
\* and a URL that does not parse.
AllConfigs ==
  {Deployment("Http", 2, 2, TRUE, host),
   Deployment("Stdio", 2, 1, TRUE, host),
   Deployment("Stdio", 2, 0, TRUE, NoCredential),
   Deployment("Http", 0, 1, TRUE, host),
   Deployment("Stdio", 2, 0, FALSE, host)}

\* A deployment that sets the limit and leaves nothing else out.
HttpConfigs == {Deployment("Http", 2, 0, TRUE, host)}
=============================================================================
