----------------------------- MODULE Allowances -----------------------------
(***************************************************************************)
(* Asking a CLINK debit wallet for a spending allowance: POST              *)
(* /api/connections/:id/authorize of core/server.ts, clinkRequestBudget    *)
(* and clinkAuthorizeFailure of core/money/clink.ts, for one connection.   *)
(* The request goes through a relay, the wallet asks its owner, and the    *)
(* reply may come late, not at all, or after the request was sent again.   *)
(***************************************************************************)
EXTENDS Naturals

CONSTANT Requests  \* bound: requests to authorize

VARIABLES
  req,     \* each request: where it is and what the merchant was told
  wallet,  \* what the wallet did with it
  allowed, \* the wallet holds an allowance for openLN
  client,  \* the socket of a request is open
  reply    \* what the SDK's promise was given: a reply, a failure, or nothing yet

vars == <<req, wallet, allowed, client, reply>>

TypeOK ==
  /\ req \in [Requests ->
       {"idle", "sent", "authorized", "rejected", "timeout", "unreachable"}]
  /\ wallet \in [Requests -> {"unaware", "asking", "allowed", "declined"}]
  /\ allowed \in BOOLEAN
  /\ client \in [Requests -> BOOLEAN]
  /\ reply \in [Requests -> {"none", "ok", "GFY", "failure"}]

Init ==
  /\ req = [r \in Requests |-> "idle"] /\ wallet = [r \in Requests |-> "unaware"]
  /\ allowed = FALSE /\ client = [r \in Requests |-> FALSE]
  /\ reply = [r \in Requests |-> "none"]

Sent(r) == req[r] = "sent"

\* The connection is one that sends and its code can be read; the amount and the period
\* are sound.  A client of its own publishes the request.
Ask(r) ==
  /\ req[r] = "idle"
  /\ req' = [req EXCEPT ![r] = "sent"] /\ client' = [client EXCEPT ![r] = TRUE]
  /\ UNCHANGED <<wallet, allowed, reply>>

-----------------------------------------------------------------------------
(* The relay and the wallet *)

\* The request arrives, even if its socket broke or was closed since.
Arrives(r) ==
  /\ req[r] # "idle" /\ wallet[r] = "unaware"
  /\ wallet' = [wallet EXCEPT ![r] = IF allowed THEN "allowed" ELSE "asking"]
  /\ UNCHANGED <<req, allowed, client, reply>>

\* The owner decides, whenever they see the prompt.
Approves(r) ==
  /\ wallet[r] = "asking"
  /\ allowed' = TRUE /\ wallet' = [wallet EXCEPT ![r] = "allowed"]
  /\ UNCHANGED <<req, client, reply>>

\* The owner says no, or the wallet does (busy, expired, too often, amount).
Declines(r) ==
  /\ wallet[r] = "asking" /\ wallet' = [wallet EXCEPT ![r] = "declined"]
  /\ UNCHANGED <<req, allowed, client, reply>>

\* The answer reaches the client if that still listens.
Replies(r) ==
  /\ wallet[r] \in {"allowed", "declined"} /\ client[r] /\ reply[r] = "none"
  /\ reply' = [reply EXCEPT ![r] = IF wallet[r] = "allowed" THEN "ok" ELSE "GFY"]
  /\ UNCHANGED <<req, wallet, allowed, client>>

\* The socket cannot be opened, breaks, or the SDK's own time is up.
SocketFails(r) ==
  /\ client[r] /\ reply[r] = "none" /\ reply' = [reply EXCEPT ![r] = "failure"]
  /\ UNCHANGED <<req, wallet, allowed, client>>

-----------------------------------------------------------------------------
(* clinkRequestBudget *)

\* (mutant) The client is stopped once there is an answer.
Stopped_OnReply(r) == [client EXCEPT ![r] = reply[r] = "none"]
\* finally: the client is stopped however the request ends.
Stopped(r) == [client EXCEPT ![r] = FALSE]

Told(r, what) ==
  /\ Sent(r) /\ req' = [req EXCEPT ![r] = what] /\ client' = Stopped(r)
  /\ UNCHANGED <<wallet, allowed, reply>>

\* (mutant) Whatever the wallet answers is an answer.
Authorizes_AnyReply(r) == reply[r] \in {"ok", "GFY"}
Authorizes(r) == reply[r] = "ok"

Answered(r) ==
  \/ Authorizes(r) /\ Told(r, "authorized")
  \/ reply[r] = "GFY" /\ Told(r, "rejected")
  \/ reply[r] = "failure" /\ Told(r, "unreachable")

\* (mutant) The SDK's promise is awaited for as long as it takes.
Deadline_Never(r) == r \notin Requests
\* withDeadline: the SDK may lose its own timer, this one fires.
Deadline(r) == reply[r] = "none"

Expires(r) == Deadline(r) /\ Told(r, "timeout")

Next ==
  \E r \in Requests:
    \/ Ask(r) \/ Arrives(r) \/ Approves(r) \/ Declines(r) \/ Replies(r)
    \/ SocketFails(r) \/ Answered(r) \/ Expires(r)

Spec == Init /\ [][Next]_vars

\* The promise that has its answer is followed, and a timer fires.  Nothing says that the
\* relay, the wallet or its owner ever does anything.
Ends == \E r \in Requests: Answered(r) \/ Expires(r)
FairSpec == Spec /\ WF_vars(Ends)

-----------------------------------------------------------------------------
(* Properties *)

\* What the merchant was told holds at the wallet whatever was sent before it, answered late
\* or asked again: "authorized" only if there is an allowance, "rejected" only if this
\* request was declined; and an answered request has left no socket open.
ToldIsTrue ==
  \A r \in Requests:
    /\ req[r] = "authorized" => allowed /\ wallet[r] = "allowed"
    /\ req[r] = "rejected" => wallet[r] = "declined"
    /\ req[r] # "idle" /\ ~Sent(r) => ~client[r]

\* Every request is answered though the wallet may never be.
RequestsAreAnswered == \A r \in Requests: Sent(r) ~> ~Sent(r)
=============================================================================
