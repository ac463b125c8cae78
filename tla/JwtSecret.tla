----------------------------- MODULE JwtSecret -----------------------------
(***************************************************************************)
(* resolveJwtSecret (apps/api/src/auth.ts): servers that start without     *)
(* HOKAGO_JWT_SECRET agree on one signing key through the settings row.    *)
(* A key is named after the server that generated it.                      *)
(***************************************************************************)
CONSTANTS Servers, None

VARIABLES
  row,   \* the settings row: absent, without a key, or with one
  boot,  \* where each server stands
  key    \* the key it signs with

secretVars == <<row, boot, key>>

SecretInit ==
  /\ row \in {"absent", "null"}
  /\ boot = [s \in Servers |-> "read"]
  /\ key = [s \in Servers |-> None]

SignWith(s, k) ==
  /\ key' = [key EXCEPT ![s] = k]
  /\ boot' = [boot EXCEPT ![s] = "up"]

ReadRow(s) ==
  /\ boot[s] = "read"
  /\ IF row \in Servers
     THEN SignWith(s, row)
     ELSE boot' = [boot EXCEPT ![s] = "claim"] /\ UNCHANGED key
  /\ UNCHANGED row

(* Mutant: the claim takes any row. *)
ClaimAny(s) ==
  /\ boot[s] = "claim"
  /\ IF row # "absent"
     THEN row' = s /\ SignWith(s, s)
     ELSE boot' = [boot EXCEPT ![s] = "create"] /\ UNCHANGED <<row, key>>

(* The claim goes to a row that has no key, and to no other. *)
Claim(s) ==
  /\ boot[s] = "claim"
  /\ IF row = "null"
     THEN row' = s /\ SignWith(s, s)
     ELSE boot' = [boot EXCEPT ![s] = "create"] /\ UNCHANGED <<row, key>>

(* Without a row, create it; somebody else may have done so. *)
CreateRow(s) ==
  /\ boot[s] = "create"
  /\ IF row = "absent"
     THEN row' = s /\ SignWith(s, s)
     ELSE boot' = [boot EXCEPT ![s] = "settle"] /\ UNCHANGED <<row, key>>

(* Then its key counts.  A row that still has none is an error, and the     *)
(* process exits.                                                           *)
Settle(s) ==
  /\ boot[s] = "settle"
  /\ IF row \in Servers
     THEN SignWith(s, row)
     ELSE boot' = [boot EXCEPT ![s] = "down"] /\ UNCHANGED key
  /\ UNCHANGED row

(* The setup wizard and the bootstrap script upsert the row without a key. *)
UpsertSettings ==
  /\ row = "absent"
  /\ row' = "null"
  /\ UNCHANGED <<boot, key>>

(* A server stops, and its container starts again. *)
Stop(s) ==
  /\ boot[s] # "down"
  /\ boot' = [boot EXCEPT ![s] = "down"]
  /\ key' = [key EXCEPT ![s] = None]
  /\ UNCHANGED row
StartAgain(s) ==
  /\ boot[s] = "down"
  /\ boot' = [boot EXCEPT ![s] = "read"]
  /\ UNCHANGED <<row, key>>

Resolve(s) == ReadRow(s) \/ Claim(s) \/ CreateRow(s) \/ Settle(s)

SecretNext ==
  \/ \E s \in Servers : Resolve(s) \/ Stop(s) \/ StartAgain(s)
  \/ UpsertSettings

SecretSpec == SecretInit /\ [][SecretNext]_secretVars

SecretTypeOK ==
  /\ row \in {"absent", "null"} \cup Servers
  /\ boot \in [Servers -> {"read", "claim", "create", "settle", "up", "down"}]
  /\ key \in [Servers -> Servers \cup {None}]

(* Raced boots converge: every server that is up signs with the one key    *)
(* that the row holds, so a token minted by one is accepted by all, and by *)
(* the same server after a restart.                                        *)
SecretsAgree == \A s \in Servers : boot[s] = "up" => row \in Servers /\ key[s] = row
=============================================================================
