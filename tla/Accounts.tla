------------------------------- MODULE Accounts -------------------------------
(***************************************************************************)
(* Passwords: register, login and migratePassword of core/auth/service.ts, *)
(* and POST /api/account/password of core/server.ts, for one handle.       *)
(*                                                                         *)
(* A stored hash is abstracted to its format and the password it is of.    *)
(* A login with a hash of an older format starts a write of the new one    *)
(* that nobody waits for.                                                  *)
(***************************************************************************)
CONSTANTS
  Passwords,  \* what may be chosen
  Logins,     \* bound: logins in progress at once
  Changes     \* bound: changes of the password in progress at once

NoHash == [format |-> "none", of |-> "none"]
Hashes == [format: {"native", "legacy"}, of: Passwords] \union {NoHash}

VARIABLES
  entity,   \* the row of the handle: its hash, or absent
  account,  \* the account of the entity is there
  chosen,   \* the password last set on purpose
  born,     \* how the entity came to be: registered here, or migrated with a hash or a PIN
  signup,   \* the register under way is between its two inserts
  rehash,   \* the write a login started: the password it hashes
  change    \* a change, or a migration, between its check and its write

vars == <<entity, account, chosen, born, signup, rehash, change>>

Absent == [there |-> FALSE, hash |-> NoHash]

TypeOK ==
  /\ entity \in [there: BOOLEAN, hash: Hashes] /\ account \in BOOLEAN
  /\ chosen \in Passwords \union {"none"} /\ born \in {"none", "native", "legacy", "pin"}
  /\ signup \in BOOLEAN
  /\ rehash \in [Logins -> Passwords \union {"none"}]
  /\ change \in [Changes -> Passwords \union {"none"}]

Init ==
  /\ signup = FALSE
  /\ rehash = [l \in Logins |-> "none"] /\ change = [c \in Changes |-> "none"]
  /\ \/ entity = Absent /\ account = FALSE /\ born = "none" /\ chosen = "none"
     \/ /\ account = TRUE /\ born = "legacy" /\ chosen \in Passwords
        /\ entity = [there |-> TRUE, hash |-> [format |-> "legacy", of |-> chosen]]
     \/ /\ account = TRUE /\ born = "pin" /\ chosen = "none"
        /\ entity = [there |-> TRUE, hash |-> NoHash]

Native(p) == [format |-> "native", of |-> p]

-----------------------------------------------------------------------------
(* Signing up *)

InsertEntity ==
  /\ ~entity.there
  /\ \E p \in Passwords: entity' = [there |-> TRUE, hash |-> Native(p)] /\ chosen' = p
  /\ born' = "native" /\ signup' = TRUE
  /\ UNCHANGED <<account, rehash, change>>

InsertAccount ==
  /\ signup /\ signup' = FALSE /\ account' = TRUE
  /\ UNCHANGED <<entity, chosen, born, rehash, change>>

\* The process stops, or the insert fails, between the two: the handle is taken.
SignupStops ==
  /\ signup /\ signup' = FALSE
  /\ UNCHANGED <<entity, account, chosen, born, rehash, change>>

-----------------------------------------------------------------------------
(* Logging in *)

\* (mutant) Every login writes the hash anew.
Rehashed_Always(format) == TRUE
\* Only a hash of an older format is replaced by one of our own.
Rehashed(format) == format # "native"

\* The right password; the write is started whether or not the login then finds an account.
Login(l) ==
  /\ entity.there /\ entity.hash # NoHash /\ rehash[l] = "none"
  /\ rehash' = IF Rehashed(entity.hash.format)
               THEN [rehash EXCEPT ![l] = entity.hash.of] ELSE rehash
  /\ UNCHANGED <<entity, account, chosen, born, signup, change>>

RehashLands(l) ==
  /\ rehash[l] # "none"
  /\ entity' \in {entity, [entity EXCEPT !.hash = Native(rehash[l])]}  \* its failure is ignored
  /\ rehash' = [rehash EXCEPT ![l] = "none"]
  /\ UNCHANGED <<account, chosen, born, signup, change>>

-----------------------------------------------------------------------------
(* Choosing another *)

\* The current password, or the PIN of an entity that has no password, is right.
ChangeChecked(c) ==
  /\ account /\ change[c] = "none"
  /\ \E p \in Passwords: change' = [change EXCEPT ![c] = p]
  /\ UNCHANGED <<entity, account, chosen, born, signup, rehash>>

ChangeWritten(c) ==
  /\ change[c] # "none"
  /\ entity' = [entity EXCEPT !.hash = Native(change[c])] /\ chosen' = change[c]
  /\ change' = [change EXCEPT ![c] = "none"]
  /\ UNCHANGED <<account, born, signup, rehash>>

Next ==
  \/ InsertEntity \/ InsertAccount \/ SignupStops
  \/ \E l \in Logins: Login(l) \/ RehashLands(l)
  \/ \E c \in Changes: ChangeChecked(c) \/ ChangeWritten(c)

Spec == Init /\ [][Next]_vars

-----------------------------------------------------------------------------
(* Properties *)

\* The password that opens an account is the one last set on purpose, whatever logins were
\* under way while it was changed.  (An account migrated with a hash of an older format can
\* lose a change to a login that read the old hash before it: see README.)
ChangedPasswordStays ==
  born \in {"native", "pin"} => entity.hash = NoHash \/ entity.hash.of = chosen
=============================================================================
