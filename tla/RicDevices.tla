------------------------------ MODULE RicDevices ------------------------------
(***************************************************************************)
(* The devices of an account: their tokens, issued and revoked by the      *)
(* owner (plugins/posbox.ts), and the hello and status posts that update   *)
(* what the dashboard shows of a device (handleRicManagementRoute in       *)
(* plugins/ric-management.ts).                                             *)
(*                                                                         *)
(* A post is authorised when its header arrives, and its body is read and  *)
(* written later, so the owner may revoke the token, and other posts of    *)
(* the device may be written, in between.                                  *)
(***************************************************************************)
CONSTANTS
  Devices,   \* the devices that may be linked
  Posts      \* bound: the posts they send

Absent == "absent"
Versions == {"v1", "v2"}
\* The updates a device reports: a failure has a code, a download has none.
Updates == {[state |-> "failed", code |-> "sha"], [state |-> "downloading", code |-> Absent]}
NoUpdate == [state |-> Absent, code |-> Absent]

VARIABLES
  token,      \* per device: its token
  telemetry,  \* per device: the row the dashboard shows
  post        \* per post: how far it is, its device and its fields

vars == <<token, telemetry, post>>

Fields == [version: Versions \cup {Absent}, rssi: {"weak", Absent}, update: Updates \cup {NoUpdate}]
Shown == [version: Versions \cup {Absent}, rssi: {"weak", Absent},
          update: [state: {"failed", "downloading", Absent}, code: {"sha", Absent}]]
Nothing == [version |-> Absent, rssi |-> Absent, update |-> NoUpdate]

TypeOK ==
  /\ token \in [Devices -> {"none", "live", "revoked"}]
  /\ telemetry \in [Devices -> [row: {"none", "status", "hello"}, fields: Shown]]
  /\ post \in [Posts -> [at: {"unsent", "authorised", "written", "refused"},
                         device: Devices \cup {Absent}, kind: {"hello", "status"}, fields: Fields]]

Init ==
  /\ token = [d \in Devices |-> "none"]
  /\ telemetry = [d \in Devices |-> [row |-> "none", fields |-> Nothing]]
  /\ post = [p \in Posts |-> [at |-> "unsent", device |-> Absent, kind |-> "status", fields |-> Nothing]]

-----------------------------------------------------------------------------
(* The owner *)

Issue(d) ==
  /\ token[d] = "none" /\ token' = [token EXCEPT ![d] = "live"] /\ UNCHANGED <<telemetry, post>>

Revoke(d) ==
  /\ token[d] = "live" /\ token' = [token EXCEPT ![d] = "revoked"] /\ UNCHANGED <<telemetry, post>>

-----------------------------------------------------------------------------
(* A post *)

\* A hello has the device's identity; of a status every field may be left out.
Bodies(kind) ==
  {f \in Fields : kind = "hello" => f.version # Absent}

\* deviceIdentity, then the body, which is read while other requests run.
Authorise(p, d, kind, fields) ==
  /\ post[p].at = "unsent" /\ fields \in Bodies(kind)
  /\ post' = [post EXCEPT ![p] =
       [at |-> IF token[d] = "live" THEN "authorised" ELSE "refused",
        device |-> d, kind |-> kind, fields |-> fields]]
  /\ UNCHANGED <<token, telemetry>>

\* (mutant) The token was looked at when the post arrived.
StillActive_AtArrival(d) == TRUE
\* The transaction looks again, and locks the token's row.
StillActive(d) == token[d] = "live"

Over(new, old) == IF new = Absent THEN old ELSE new

\* (mutant) Every field that is left out keeps its value, the code of an update too.
UpdateOver_KeepsCode(new, old) ==
  [state |-> Over(new.state, old.state), code |-> Over(new.code, old.code)]
\* A new state clears a stale code; no state at all keeps both.
UpdateOver(new, old) == IF new.state = Absent THEN old ELSE new

Merged(new, old) ==
  [version |-> Over(new.version, old.version), rssi |-> Over(new.rssi, old.rssi),
   update |-> UpdateOver(new.update, old.update)]

Write(p) ==
  LET d == post[p].device
      old == telemetry[d] IN
  /\ post[p].at = "authorised" /\ UNCHANGED token
  /\ IF StillActive(d)
     THEN /\ post' = [post EXCEPT ![p].at = "written"]
          /\ telemetry' = [telemetry EXCEPT ![d] =
               [row |-> IF post[p].kind = "hello" \/ old.row = "hello" THEN "hello" ELSE "status",
                fields |-> Merged(post[p].fields, old.fields)]]
     ELSE post' = [post EXCEPT ![p].at = "refused"] /\ UNCHANGED telemetry

-----------------------------------------------------------------------------
Next ==
  \/ \E d \in Devices : Issue(d) \/ Revoke(d)
  \/ \E p \in Posts, d \in Devices, kind \in {"hello", "status"}, fields \in Fields :
       Authorise(p, d, kind, fields)
  \/ \E p \in Posts : Write(p)

Spec == Init /\ [][Next]_vars

-----------------------------------------------------------------------------
(* Properties *)

\* "Lock/check revocation at the write boundary": once the owner has revoked a device,
\* nothing it sends, or had already sent, changes what the account shows of it.
RevokedStays == \A d \in Devices : token[d] = "revoked" => telemetry'[d] = telemetry[d]
RevokedIsSilent == [][RevokedStays]_vars

\* "A new state clears a stale code": the update a row shows is one that a post
\* reported, never the state of one post with the code of another.
UpdateIsOneReport ==
  \A d \in Devices : telemetry[d].fields.update \in Updates \cup {NoUpdate}
=============================================================================
