----------------------------- MODULE Connectors -----------------------------
(***************************************************************************)
(* One provider attempt of the closed driver set: what may happen on the   *)
(* wire and what the drivers of msgriver-connectors report about it.       *)
(*                                                                         *)
(* An exchange is [reply, effect]: what the driver observed, and whether   *)
(* the provider published the message.  The provider is external; its part *)
(* of the contract is what the drivers rely on: an attempt that sent no    *)
(* request bytes, or that was answered 4xx, published nothing; a 2xx       *)
(* answer means it published; anything else may mean either.               *)
(***************************************************************************)

NoBytesSent ==
  { "invalid",      \* the request fails the driver's local validation
    "unresolved",   \* no address for the configured host (whatsapp)
    "unconnected" } \* connect or socket set-up failed

Rejections == { "429", "auth", "4xx" }  \* auth: 401, 403, 404

Successes ==
  { "ok",           \* 200 with a well-formed acknowledgement id
    "ok_no_ack",    \* 200 whose body carries no valid acknowledgement id
    "2xx",          \* another 2xx, with an acknowledgement id
    "2xx_no_ack" }  \* another 2xx, without one

Unknowns ==
  { "cut",          \* the write failed, timed out, or no complete answer came
    "other" }       \* an answer outside 2xx and 4xx, or none that parses

Replies == NoBytesSent \cup Rejections \cup Successes \cup Unknowns

Exchanges ==
  [reply : NoBytesSent \cup Rejections, effect : {FALSE}]
    \cup [reply : Successes, effect : {TRUE}]
    \cup [reply : Unknowns, effect : BOOLEAN]

Outcomes ==
  { "Accepted", "RateLimited", "Transient", "Permanent", "AuthOrConfig",
    "Ambiguous", "DriverError" }

-----------------------------------------------------------------------------
\* The part of the classification both drivers share.
\* Mutant: a request that got no complete answer counts as not sent.
CutIsTransient(reply) ==
  CASE reply = "invalid" -> "DriverError"
    [] reply \in {"unconnected", "cut"} -> "Transient"
    [] reply = "429" -> "RateLimited"
    [] reply = "auth" -> "AuthOrConfig"
    [] reply = "4xx" -> "Permanent"
    [] OTHER -> "Ambiguous"

CommonOutcome(reply) ==
  CASE reply = "invalid" -> "DriverError"
    [] reply = "unconnected" -> "Transient"
    [] reply = "429" -> "RateLimited"
    [] reply = "auth" -> "AuthOrConfig"
    [] reply = "4xx" -> "Permanent"
    [] OTHER -> "Ambiguous"

\* ntfy connects to the loopback address without a name lookup, takes every
\* 2xx as success and reports a missing acknowledgement id as DriverError.
NtfyOutcome(reply) ==
  CASE reply \in {"ok", "2xx"} -> "Accepted"
    [] reply \in {"ok_no_ack", "2xx_no_ack"} -> "DriverError"
    [] OTHER -> CommonOutcome(reply)

\* whatsapp takes only 200 as success; without an id it stays Ambiguous.
\* Mutants: a missing acknowledgement id is a DriverError, as for ntfy; any
\* answer that is not a rejection counts as success.
MissingAckIsError(reply) ==
  CASE reply = "ok" -> "Accepted"
    [] reply \in {"unresolved", "ok_no_ack"} -> "DriverError"
    [] OTHER -> CommonOutcome(reply)
NotRejectedIsAccepted(reply) ==
  CASE reply \in {"ok", "other"} -> "Accepted"
    [] reply = "unresolved" -> "DriverError"
    [] OTHER -> CommonOutcome(reply)

WhatsappOutcome(reply) ==
  CASE reply = "ok" -> "Accepted"
    [] reply = "unresolved" -> "DriverError"
    [] OTHER -> CommonOutcome(reply)

deliver(driver, reply) ==
  IF driver = "ntfy" THEN NtfyOutcome(reply) ELSE WhatsappOutcome(reply)

\* The replies a driver can meet.
RepliesOf(driver) ==
  IF driver = "ntfy" THEN Replies \ {"unresolved"} ELSE Replies
=============================================================================
