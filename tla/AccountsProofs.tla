--------------------------- MODULE AccountsProofs ---------------------------
(***************************************************************************)
(* Machine-checked facts about Accounts, Household and ClientSession, for  *)
(* any accounts, sessions, requests, servers, invites, devices and calls   *)
(* of a page.  The last two are proved of their worlds in SuiteAccounts.   *)
(***************************************************************************)
EXTENDS SuiteAccounts, FiniteSetTheorems, SequenceTheorems, WellFoundedInduction, TLAPS

(* What a request or a check under way holds, and what an approved code    *)
(* says.                                                                   *)
ArgsFit ==
  /\ \A r \in Requests : /\ req[r].at \in {"mint", "approve", "claim", "account"} => req[r].arg \in People
                         /\ req[r].at = "invalidate" => req[r].arg \in Sessions
  /\ \A g \in Guards : guard[g].at # "idle" => guard[g].session \in Sessions
  /\ code.status = "APPROVED" => code.by \in People

TInv == TypeOK /\ ArgsFit

RequestRecords ==
  [at : {"idle", "done", "mint", "invalidate", "approve", "expire", "claim", "account"},
   kind : {"none", "login", "revoke", "disable", "verify", "poll"},
   arg : People \cup Sessions \cup {None}]

USE AccountsAssumption DEF AccountsAssumption

-----------------------------------------------------------------------------
LEMMA InitTInv == Init => TInv
  BY DEF Init, TInv, TypeOK, ArgsFit, J!SecretInit, J!SecretTypeOK, NoVerdict, IdleGuard, NoRequest, Verdicts

(* What a move of a request leaves: types, and the other requests. *)
Moved(r, at, arg) ==
  /\ req' \in [Requests -> RequestRecords]
  /\ req'[r].at = at
  /\ at # "done" => req'[r].arg = arg
  /\ \A q \in Requests \ {r} : req'[q] = req[q]

LEMMA BeginMoves ==
  ASSUME TInv, NEW r \in Requests, NEW kind \in {"login", "revoke", "disable", "verify", "poll"},
         NEW arg \in People \cup Sessions \cup {None},
         NEW at \in {"done", "mint", "invalidate", "approve", "expire", "claim"}, Begin(r, kind, arg, at)
  PROVE  Moved(r, at, arg)
  BY DEF TInv, TypeOK, Begin, Done, NoRequest, RequestRecords, Moved

LEMMA GotoMoves ==
  ASSUME TInv, NEW r \in Requests, NEW at \in {"done", "mint", "account"}, Goto(r, at)
  PROVE  Moved(r, at, req[r].arg)
  BY DEF TInv, TypeOK, Goto, Done, NoRequest, RequestRecords, Moved

(* Types survive the moves of the servers, *)
LEMMA ServersKeepTypes ==
  ASSUME TInv, \/ \E s \in Servers : Starting(s)
               \/ StopApi
               \/ J!UpsertSettings /\ Others
  PROVE  TInv'
<1> USE DEF TInv, TypeOK, ArgsFit, J!SecretTypeOK
<1>1. ASSUME NEW s \in Servers, Starting(s)
      PROVE  TInv'
  BY <1>1 DEF Starting, Others, accountRows, memory, history, J!Resolve, J!ReadRow, J!Claim, J!CreateRow,
    J!Settle, J!StartAgain, J!SignWith
<1>2. CASE StopApi
  BY <1>2 DEF StopApi, accountRows, J!Stop, NoVerdict, IdleGuard, NoRequest, Done, Verdicts
<1>3. CASE J!UpsertSettings /\ Others
  BY <1>3 DEF Others, accountRows, memory, history, J!UpsertSettings
<1> QED
  BY <1>1, <1>2, <1>3

(* of the guards and of time, *)
LEMMA GuardsKeepTypes ==
  ASSUME TInv, \/ \E g \in Guards : Guard(g)
               \/ \E g \in Guards, s \in Sessions : Check(g, s)
               \/ Tick
  PROVE  TInv'
<1> USE DEF TInv, TypeOK, ArgsFit, J!SecretTypeOK, secretRows, accountRows, history, Verdicts
<1>1. ASSUME NEW g \in Guards, Load(g)
      PROVE  TInv'
  <2>1. /\ guard' = [guard EXCEPT ![g] = [at |-> "fill", session |-> @.session,
                         verdict |-> [live |-> IsLive(@.session), left |-> @.verdict.left]]]
        /\ UNCHANGED <<row, boot, key, disabled, sess, owner, code, cache, req, approved, minted, stops>>
        /\ guard[g].at = "read"
    BY <1>1 DEF Load
  <2>2. IsLive(guard[g].session) \in BOOLEAN
    BY DEF IsLive
  <2>3. /\ guard' \in [Guards -> [at : {"idle", "read", "fill"}, session : Sessions \cup {None}, verdict : Verdicts]]
        /\ \A h \in Guards : guard'[h].at # "idle" => guard'[h].session \in Sessions
    BY <2>1, <2>2
  <2> QED
    BY <2>1, <2>3
<1>2. ASSUME NEW g \in Guards, Fill(g)
      PROVE  TInv'
  BY <1>2 DEF Fill, IdleGuard, NoVerdict
<1>3. ASSUME NEW g \in Guards, NEW s \in Sessions, Check(g, s)
      PROVE  TInv'
  BY <1>3 DEF Check
<1>4. CASE Tick
  <2>1. ASSUME NEW v \in Verdicts
        PROVE  Older(v) \in Verdicts /\ Fresh(v) \in Verdicts
    <3>1. v.live \in BOOLEAN /\ v.left \in 0..TTL
      OBVIOUS
    <3>2. \A n \in 0..TTL : n # 0 => n - 1 \in 0..TTL
      BY TTL \in Nat
    <3> QED
      BY <3>1, <3>2 DEF Older, Fresh, NoVerdict
  <2>2. /\ cache' \in [Sessions -> Verdicts]
        /\ guard' \in [Guards -> [at : {"idle", "read", "fill"}, session : Sessions \cup {None}, verdict : Verdicts]]
        /\ \A h \in Guards : guard'[h].at = guard[h].at /\ guard'[h].session = guard[h].session
    BY <1>4, <2>1 DEF Tick
  <2> QED
    BY <1>4, <2>2 DEF Tick
<1> QED
  BY <1>1, <1>2, <1>3, <1>4 DEF Guard

(* of the requests under way, *)
LEMMA HandlersKeepTypes ==
  ASSUME TInv, NEW r \in Requests, Handle(r)
  PROVE  TInv'
<1>1. ASSUME NEW at \in {"done", "mint", "account"}, Goto(r, at)
      PROVE  Moved(r, at, req[r].arg)
  BY <1>1, GotoMoves
<1> USE DEF TInv, TypeOK, ArgsFit, J!SecretTypeOK, secretRows, accountRows, history, At, Moved, RequestRecords
<1>2. ASSUME NEW s \in Sessions, Mint(r, s)
      PROVE  TInv'
  BY <1>1, <1>2 DEF Mint
<1>3. CASE Invalidate(r)
  BY <1>1, <1>3 DEF Invalidate, NoVerdict, Verdicts
<1>4. CASE Approve(r)
  <2>1. Moved(r, "done", req[r].arg) /\ req[r].arg \in People
    BY <1>1, <1>4 DEF Approve
  <2>2. code' \in [status : {"none", "PENDING", "APPROVED", "COMPLETE", "EXPIRED"},
                   by : People \cup {None}, old : BOOLEAN] /\ code'.by \in People
    BY <1>4, <2>1 DEF Approve
  <2> QED
    BY <1>4, <2>1, <2>2 DEF Approve
<1>5. CASE WriteExpired(r)
  BY <1>1, <1>5 DEF WriteExpired
<1>6. CASE ClaimCode(r)
  BY <1>1, <1>6 DEF ClaimCode
<1>7. CASE ReadAccount(r)
  BY <1>1, <1>7 DEF ReadAccount
<1> QED
  BY <1>2, <1>3, <1>4, <1>5, <1>6, <1>7 DEF Handle

(* and of the clients. *)
LEMMA ClientsKeepTypes ==
  ASSUME TInv, Client
  PROVE  TInv'
<1>1. ASSUME NEW r \in Requests, NEW kind \in {"login", "revoke", "disable", "verify", "poll"},
             NEW arg \in People \cup Sessions \cup {None},
             NEW at \in {"done", "mint", "invalidate", "approve", "expire", "claim"}, Begin(r, kind, arg, at)
      PROVE  Moved(r, at, arg)
  BY <1>1, BeginMoves
<1> USE DEF TInv, TypeOK, ArgsFit, J!SecretTypeOK, secretRows, accountRows, memory, history, Moved, RequestRecords
<1>2. CASE RequestCode
  BY <1>2 DEF RequestCode
<1>3. ASSUME NEW r \in Requests, NEW a \in People, Login(r, a) \/ Verify(r, a)
      PROVE  TInv'
  BY <1>1, <1>3 DEF Login, Verify
<1>4. ASSUME NEW r \in Requests, NEW a \in People, NEW flag \in BOOLEAN, SetDisabled(r, a, flag)
      PROVE  TInv'
  BY <1>1, <1>4 DEF SetDisabled
<1>5. ASSUME NEW r \in Requests, NEW s \in Sessions, NEW admin \in BOOLEAN, Revoke(r, s, admin)
      PROVE  TInv'
  <2>1. PICK at \in {"done", "invalidate"} : Moved(r, at, s)
    BY <1>1, <1>5 DEF Revoke
  <2> QED
    BY <1>5, <2>1 DEF Revoke
<1>6. ASSUME NEW r \in Requests, Poll(r)
      PROVE  TInv'
  BY <1>1, <1>6 DEF Poll
<1>7. ASSUME NEW s \in Sessions, Hit(s)
      PROVE  TInv'
  BY <1>7 DEF Hit, vars
<1>8. ASSUME NEW g \in Guards, NEW s \in Sessions, Check(g, s)
      PROVE  TInv'
  BY <1>8, GuardsKeepTypes
<1> QED
  BY <1>2, <1>3, <1>4, <1>5, <1>6, <1>7, <1>8 DEF Client

LEMMA TypeStep == TInv /\ [Next]_vars => TInv'
<1> SUFFICES ASSUME TInv, [Next]_vars PROVE TInv'
  OBVIOUS
<1>1. CASE Next
  <2>1. CASE ExpireCode
    BY <2>1 DEF ExpireCode, TInv, TypeOK, ArgsFit, J!SecretTypeOK, secretRows, memory, history
  <2> QED
    BY <1>1, <2>1, ServersKeepTypes, GuardsKeepTypes, HandlersKeepTypes, ClientsKeepTypes DEF Next
<1>2. CASE UNCHANGED vars
  BY <1>2 DEF vars, secretRows, accountRows, memory, history, TInv, TypeOK, ArgsFit, J!SecretTypeOK
<1> QED
  BY <1>1, <1>2

LEMMA TypesHold == Spec => []TInv
<1> QED
  BY InitTInv, TypeStep, PTL DEF Spec

(* Rows, memory and requests under way keep their types.                   *)
THEOREM TypeCorrect == Spec => []TypeOK
<1>1. TInv => TypeOK
  BY DEF TInv
<1> QED
  BY <1>1, TypesHold, PTL

-----------------------------------------------------------------------------
(* A key, once in the row, stays: nothing takes the row from a server that *)
(* claimed or created it, so a server that is up signs with what is there. *)
LEMMA AgreeStep == TInv /\ SecretsAgree /\ [Next]_vars => SecretsAgree'
<1> SUFFICES ASSUME TInv, SecretsAgree, [Next]_vars PROVE SecretsAgree'
  OBVIOUS
<1> USE DEF TInv, TypeOK, J!SecretTypeOK, SecretsAgree, J!SecretsAgree
<1>1. ASSUME UNCHANGED <<row, boot, key>>
      PROVE  SecretsAgree'
  BY <1>1
<1>2. ASSUME NEW s \in Servers, Starting(s)
      PROVE  SecretsAgree'
  BY <1>2 DEF Starting, J!Resolve, J!ReadRow, J!Claim, J!CreateRow, J!Settle, J!StartAgain, J!SignWith
<1>3. CASE StopApi
  BY <1>3 DEF StopApi, J!Stop
<1>4. CASE J!UpsertSettings /\ Others
  BY <1>4 DEF J!UpsertSettings
<1>5. CASE Client
  BY <1>1, <1>5 DEF Client, RequestCode, Login, Verify, SetDisabled, Revoke, Poll, Check, Hit, secretRows, vars
<1>6. ASSUME NEW r \in Requests, Handle(r)
      PROVE  SecretsAgree'
  BY <1>1, <1>6 DEF Handle, Mint, Invalidate, Approve, WriteExpired, ClaimCode, ReadAccount, secretRows
<1>7. ASSUME NEW g \in Guards, Guard(g)
      PROVE  SecretsAgree'
  BY <1>1, <1>7 DEF Guard, Load, Fill, secretRows
<1>8. CASE Tick \/ ExpireCode \/ UNCHANGED vars
  BY <1>1, <1>8 DEF Tick, ExpireCode, vars, secretRows
<1> QED
  BY <1>2, <1>3, <1>4, <1>5, <1>6, <1>7, <1>8 DEF Next

(* However boots, the wizard and restarts interleave, servers that are up  *)
(* sign with the key in the row.                                           *)
THEOREM OneSigningKey == Spec => []SecretsAgree
<1>1. Init => SecretsAgree
  BY DEF Init, J!SecretInit, SecretsAgree, J!SecretsAgree
<1> QED
  BY <1>1, AgreeStep, TypesHold, PTL DEF Spec

-----------------------------------------------------------------------------
(* The polls that have claimed the code and will mint. *)
Minting == {r \in Requests : req[r].kind = "poll" /\ req[r].at \in {"account", "mint"}}
Credit == IF code.status = "APPROVED" THEN 1 ELSE 0

(* An approval pays for one of: a code that still waits to be claimed, a   *)
(* poll that has claimed it, a session.                                    *)
Budget == minted + Cardinality(Minting) + Credit <= approved

LEMMA MintingFinite == IsFiniteSet(Minting) /\ Cardinality(Minting) \in Nat
  BY FS_Subset, FS_CardinalityType DEF Minting

(* A step that starts no mint and neither approves nor mints is paid for.  *)
LEMMA NothingSpent ==
  ASSUME TInv, Budget, Minting' \subseteq Minting, approved' = approved, minted' = minted,
         code'.status = "APPROVED" => code.status = "APPROVED"
  PROVE  Budget'
<1>1. Cardinality(Minting') <= Cardinality(Minting) /\ Cardinality(Minting') \in Nat
  BY MintingFinite, FS_Subset, FS_CardinalityType
<1> QED
  BY <1>1, MintingFinite DEF Budget, Credit, TInv, TypeOK

LEMMA HandlersPay ==
  ASSUME TInv, Budget, NEW r \in Requests, Handle(r)
  PROVE  Budget'
<1>1. ASSUME NEW at \in {"done", "mint", "account"}, Goto(r, at)
      PROVE  /\ Minting' \subseteq Minting \cup {r}
             /\ at = "done" => Minting' \subseteq Minting \ {r}
  BY <1>1 DEF Goto, Done, NoRequest, Minting, TInv, TypeOK
<1>2. ASSUME NEW s \in Sessions, Mint(r, s)
      PROVE  Budget'
  <2>1. CASE req[r].kind = "poll"
    <3>1. r \in Minting /\ Minting' \subseteq Minting \ {r} /\ minted' = minted + 1
      BY <1>1, <1>2, <2>1 DEF Mint, At, Minting
    <3>2. IsFiniteSet(Minting \ {r}) /\ Cardinality(Minting \ {r}) = Cardinality(Minting) - 1
      BY <3>1, MintingFinite, FS_RemoveElement
    <3>3. Cardinality(Minting') <= Cardinality(Minting \ {r}) /\ Cardinality(Minting') \in Nat
      BY <3>1, <3>2, FS_Subset, FS_CardinalityType
    <3> QED
      BY <1>2, <3>1, <3>2, <3>3, MintingFinite DEF Mint, Budget, Credit, TInv, TypeOK
  <2>2. CASE req[r].kind # "poll"
    BY <1>1, <1>2, <2>2, NothingSpent DEF Mint
  <2> QED
    BY <2>1, <2>2
<1>3. CASE Invalidate(r)
  BY <1>1, <1>3, NothingSpent DEF Invalidate, accountRows, history
<1>4. CASE Approve(r)
  <2>1. Minting' \subseteq Minting
    BY <1>1, <1>4 DEF Approve
  <2>2. Cardinality(Minting') <= Cardinality(Minting) /\ Cardinality(Minting') \in Nat
    BY <2>1, MintingFinite, FS_Subset, FS_CardinalityType
  <2>3. approved' = approved + 1 /\ minted' = minted
    BY <1>4 DEF Approve
  <2>4. Credit \in {0, 1} /\ Credit' \in {0, 1}
    BY DEF Credit
  <2> QED
    BY <2>2, <2>3, <2>4, MintingFinite DEF Budget, TInv, TypeOK
<1>5. CASE WriteExpired(r)
  <2>1. code'.status # "APPROVED"
    BY <1>5 DEF WriteExpired, TInv, TypeOK
  <2> QED
    BY <1>1, <1>5, <2>1, NothingSpent DEF WriteExpired, history
<1>6. CASE ClaimCode(r)
  <2>1. CASE code.status = "APPROVED"
    <3>1. Minting' \subseteq Minting \cup {r} /\ approved' = approved /\ minted' = minted
      BY <1>1, <1>6, <2>1 DEF ClaimCode, history
    <3>2. Credit = 1 /\ Credit' = 0
      BY <1>6, <2>1 DEF ClaimCode, Credit, TInv, TypeOK
    <3>3. /\ IsFiniteSet(Minting \cup {r})
          /\ Cardinality(Minting \cup {r}) = IF r \in Minting THEN Cardinality(Minting)
                                             ELSE Cardinality(Minting) + 1
      BY MintingFinite, FS_AddElement
    <3>4. Cardinality(Minting') <= Cardinality(Minting) + 1 /\ Cardinality(Minting') \in Nat
      BY <3>1, <3>3, MintingFinite, FS_Subset, FS_CardinalityType
    <3> QED
      BY <3>1, <3>2, <3>4, MintingFinite DEF Budget, TInv, TypeOK
  <2>2. CASE code.status # "APPROVED"
    BY <1>1, <1>6, <2>2, NothingSpent DEF ClaimCode, history
  <2> QED
    BY <2>1, <2>2
<1>7. CASE ReadAccount(r)
  <2>1. Minting' \subseteq Minting
    BY <1>7 DEF ReadAccount, At, Goto, Done, NoRequest, Minting, TInv, TypeOK
  <2> QED
    BY <1>7, <2>1, NothingSpent DEF ReadAccount, accountRows, history
<1> QED
  BY <1>2, <1>3, <1>4, <1>5, <1>6, <1>7 DEF Handle

(* A request that begins has not claimed anything. *)
LEMMA BeginMintsNothing ==
  ASSUME TInv, NEW r \in Requests, NEW kind, NEW arg, NEW at, Begin(r, kind, arg, at),
         kind # "poll" \/ at \notin {"account", "mint"}
  PROVE  Minting' \subseteq Minting
  BY DEF Begin, Done, NoRequest, Minting, TInv, TypeOK

LEMMA BudgetStep == TInv /\ Budget /\ [Next]_vars => Budget'
<1> SUFFICES ASSUME TInv, Budget, [Next]_vars PROVE Budget'
  OBVIOUS
<1> USE DEF secretRows, accountRows, memory, history
<1>1. ASSUME UNCHANGED <<code, req, approved, minted>>
      PROVE  Budget'
  BY <1>1, NothingSpent DEF Minting
<1>2. CASE StopApi
  <2>1. Minting' \subseteq Minting
    BY <1>2 DEF StopApi, Done, NoRequest, Minting
  <2> QED
    BY <1>2, <2>1, NothingSpent DEF StopApi
<1>3. CASE Client
  <2>1. CASE RequestCode
    <3>1. code'.status # "APPROVED" /\ Minting' = Minting
      BY <2>1 DEF RequestCode, Minting, TInv, TypeOK
    <3> QED
      BY <2>1, <3>1, NothingSpent DEF RequestCode
  <2>2. ASSUME NEW r \in Requests, NEW a \in People, Login(r, a) \/ Verify(r, a)
        PROVE  Budget'
    BY <2>2, BeginMintsNothing, NothingSpent DEF Login, Verify
  <2>3. ASSUME NEW r \in Requests, NEW a \in People, NEW flag \in BOOLEAN, SetDisabled(r, a, flag)
        PROVE  Budget'
    BY <2>3, BeginMintsNothing, NothingSpent DEF SetDisabled
  <2>4. ASSUME NEW r \in Requests, NEW s \in Sessions, NEW admin \in BOOLEAN, Revoke(r, s, admin)
        PROVE  Budget'
    BY <2>4, BeginMintsNothing, NothingSpent DEF Revoke
  <2>5. ASSUME NEW r \in Requests, Poll(r)
        PROVE  Budget'
    BY <2>5, BeginMintsNothing, NothingSpent DEF Poll
  <2>6. ASSUME NEW s \in Sessions, Hit(s) \/ \E g \in Guards : Check(g, s)
        PROVE  Budget'
    BY <1>1, <2>6 DEF Hit, Check, vars
  <2> QED
    BY <1>3, <2>1, <2>2, <2>3, <2>4, <2>5, <2>6 DEF Client
<1>4. CASE ExpireCode
  <2>1. code'.status = code.status /\ Minting' = Minting
    BY <1>4 DEF ExpireCode, Minting, TInv, TypeOK
  <2> QED
    BY <1>4, <2>1, NothingSpent DEF ExpireCode
<1>5. ASSUME \/ Tick
             \/ \E g \in Guards : Guard(g)
             \/ \E s \in Servers : Starting(s)
             \/ J!UpsertSettings /\ Others
             \/ UNCHANGED vars
      PROVE  Budget'
  BY <1>1, <1>5 DEF Tick, Guard, Load, Fill, Starting, Others, vars
<1> QED
  BY <1>2, <1>3, <1>4, <1>5, HandlersPay DEF Next

(* However verifies, polls, expiry and restarts overlap, sessions minted   *)
(* from a code never outnumber the approvals it was given.                 *)
THEOREM ApprovalsPay == Spec => []MintsArePaid
<1>1. Init => Budget
  <2>1. Init => Minting = {} /\ Credit = 0 /\ minted = 0 /\ approved = 0
    BY DEF Init, Minting, NoRequest, Credit
  <2> QED
    BY <2>1, FS_EmptySet DEF Budget
<1>2. TInv /\ Budget => MintsArePaid
  BY MintingFinite DEF Budget, Credit, MintsArePaid, TInv, TypeOK
<1> QED
  BY <1>1, <1>2, BudgetStep, TypesHold, PTL DEF Spec

-----------------------------------------------------------------------------
(***************************************************************************)
(* Household.  Its invariant: what a request has read fits where it is;    *)
(* an invite that was used counts those it admitted and those who hold it; *)
(* a session is on its device while that is there; and whoever has a       *)
(* session, owns a device or is about to is linked to it, or will be.      *)
(***************************************************************************)
HIDE AccountsAssumption DEF AccountsAssumption

(* Its sets are counted as any other. *)
LEMMA HouseCounts ==
  /\ \A S : House!IsFiniteSet(S) <=> IsFiniteSet(S)
  /\ \A S : House!Cardinality(S) = Cardinality(S)
<1>1. \A S : House!IsFiniteSet(S) <=> IsFiniteSet(S)
  BY DEF House!IsFiniteSet, IsFiniteSet
<1>2. \A S : House!Cardinality(S) = Cardinality(S)
  BY DEF House!Cardinality, Cardinality
<1> QED  BY <1>1, <1>2

LEMMA HouseWorld ==
  /\ Founders \subseteq SUBSET Members
  /\ Requests \subseteq Nat /\ IsFiniteSet(Requests) /\ IsFiniteSet(Members)
  /\ MaxFaults \in Nat
  /\ None \notin Members \cup Invites \cup Keys \cup Devices \cup Sessions
  BY AccountWorlds, HouseCounts DEF House!HouseholdAssumption

USE HouseWorld

(* What a request has read fits where it is. *)
HouseRequests ==
  [at : {"idle", "name", "enrol", "find", "add", "upsert", "upsertOnly",
         "link", "linkOnly", "session", "revoke", "drop", "done"},
   who : Members \cup {None}, inv : Invites \cup {None},
   key : Keys \cup {None}, dev : Devices \cup {None}]

Requesting ==
  {q \in HouseRequests :
     /\ q.at \in {"name", "enrol"} => q.inv \in Invites
     /\ q.at \notin {"idle", "done"} => q.who \in Members
     /\ q.at \in {"link", "linkOnly", "revoke", "drop"} => q.dev \in Devices}

DeviceRecords ==
  [at : {"none", "there", "revoked", "deleted"}, key : Keys \cup {None}, owner : Members \cup {None}]

SessionRecords ==
  [at : {"none", "live", "revoked", "deleted"}, by : Members \cup {None},
   on : Devices \cup {None}, first : Devices \cup {None}]

HouseTypes == House!TypeOK /\ hreq \in [Requests -> Requesting]

LEMMA InitHouseTypes == House!Init => HouseTypes
  BY DEF House!Init, HouseTypes, House!TypeOK, Requesting, HouseRequests, House!NoDevice,
      House!NoSession, House!NoRequest

HouseMoved(r, to) ==
  /\ hreq' \in [Requests -> Requesting] /\ hreq' \in [Requests -> HouseRequests]
  /\ hreq'[r] = to
  /\ \A q \in Requests \ {r} : hreq'[q] = hreq[q]

LEMMA Becomes ==
  ASSUME HouseTypes, NEW r \in Requests, NEW to \in Requesting, House!Become(r, to)
  PROVE  HouseMoved(r, to)
  BY DEF HouseTypes, House!Become, Requesting, HouseMoved

LEMMA Ends ==
  ASSUME HouseTypes, NEW r \in Requests, House!Done(r)
  PROVE  HouseMoved(r, [House!NoRequest EXCEPT !.at = "done"])
<1>1. [House!NoRequest EXCEPT !.at = "done"] \in Requesting
  BY DEF Requesting, HouseRequests, House!NoRequest
<1> QED
  BY <1>1, Becomes DEF House!Done

(* Each move of a request is to something that fits. *)
LEMMA Arriving ==
  ASSUME NEW p \in Members
  PROVE  /\ \A i \in Invites : [House!NoRequest EXCEPT !.at = "name", !.who = p, !.inv = i] \in Requesting
         /\ \A k \in Keys \cup {None} :
              /\ [House!NoRequest EXCEPT !.at = "session", !.who = p, !.key = k] \in Requesting
              /\ [House!NoRequest EXCEPT !.at = "find", !.who = p, !.key = k] \in Requesting
              /\ [House!NoRequest EXCEPT !.at = "add", !.who = p, !.key = k] \in Requesting
              /\ \A d \in Devices \cup {None} :
                   [House!NoRequest EXCEPT !.at = "session", !.who = p, !.key = k, !.dev = d] \in Requesting
         /\ \A d \in Devices : [House!NoRequest EXCEPT !.at = "revoke", !.who = p, !.dev = d] \in Requesting
  BY DEF Requesting, HouseRequests, House!NoRequest

LEMMA Going ==
  ASSUME HouseTypes, NEW r \in Requests
  PROVE  /\ House!At(r, "name") => [hreq[r] EXCEPT !.at = "enrol"] \in Requesting
         /\ House!At(r, "revoke") => [hreq[r] EXCEPT !.at = "drop"] \in Requesting
         /\ House!At(r, "link") => [hreq[r] EXCEPT !.at = "session"] \in Requesting
         /\ \A d \in Devices \cup {None} :
              /\ House!At(r, "find") => [hreq[r] EXCEPT !.at = "upsert", !.dev = d] \in Requesting
              /\ House!At(r, "add") => [hreq[r] EXCEPT !.at = "upsertOnly", !.dev = d] \in Requesting
         /\ \A d \in Devices :
              /\ House!At(r, "upsert") => [hreq[r] EXCEPT !.at = "link", !.dev = d] \in Requesting
              /\ House!At(r, "upsertOnly") => [hreq[r] EXCEPT !.at = "linkOnly", !.dev = d] \in Requesting
<1>1. hreq[r] \in Requesting
  BY DEF HouseTypes
<1> QED
  BY <1>1 DEF Requesting, HouseRequests, House!At

(* What goes with a row leaves rows. *)
LEMMA Unbinding ==
  ASSUME HouseTypes, NEW ds
  PROVE  House!Unbind(ds) \in [Sessions -> SessionRecords]
<1>1. ASSUME NEW s \in Sessions
      PROVE  [bound[s] EXCEPT !.on = None] \in SessionRecords /\ bound[s] \in SessionRecords
  <2>1. bound[s] \in SessionRecords
    BY DEF HouseTypes, House!TypeOK, SessionRecords
  <2> QED  BY <2>1 DEF SessionRecords
<1> QED  BY <1>1 DEF House!Unbind

LEMMA HouseTypesKept ==
  ASSUME HouseTypes, House!Next
  PROVE  HouseTypes'
<1>1. ASSUME NEW i \in Invites, House!ExpireInvite(i)
      PROVE  HouseTypes'
  BY <1>1 DEF House!ExpireInvite, House!SetInvite,
    HouseTypes, House!TypeOK, HouseMoved, HouseRequests, House!inviteVars, House!deviceVars, House!sessVars
<1>2. ASSUME NEW r \in Requests, NEW i \in Invites, House!CreateInvite(r, i) \/ House!DeleteInvite(r, i)
      PROVE  HouseTypes'
  <2>1. HouseMoved(r, [House!NoRequest EXCEPT !.at = "done"])
    BY <1>2, Ends DEF House!CreateInvite, House!DeleteInvite
  <2> QED  BY <1>2, <2>1 DEF House!CreateInvite, House!DeleteInvite, House!SetInvite,
       HouseTypes, House!TypeOK, HouseMoved, HouseRequests, House!inviteVars, House!deviceVars, House!sessVars
<1>3. ASSUME NEW r \in Requests, NEW i \in Invites, NEW p \in Members, House!Register(r, i, p)
      PROVE  HouseTypes'
  <2>1. HouseMoved(r, [House!NoRequest EXCEPT !.at = "name", !.who = p, !.inv = i])
    BY <1>3, Becomes, Arriving DEF House!Register
  <2> QED  BY <1>3, <2>1 DEF House!Register,
       HouseTypes, House!TypeOK, HouseMoved, HouseRequests, House!inviteVars, House!deviceVars, House!sessVars
<1>4. ASSUME NEW r \in Requests, NEW p \in Members, NEW k \in Keys \cup {None}, House!Login(r, p, k)
      PROVE  HouseTypes'
  <2>1. CASE k = None
    <3>1. [House!NoRequest EXCEPT !.at = "session", !.who = p, !.key = k] \in Requesting
      BY Arriving
    <3>2. House!Become(r, [House!NoRequest EXCEPT !.at = "session", !.who = p, !.key = k])
      BY <1>4, <2>1 DEF House!Login
    <3>3. HouseMoved(r, [House!NoRequest EXCEPT !.at = "session", !.who = p, !.key = k])
      BY <3>1, <3>2, Becomes
    <3> QED  BY <1>4, <3>3 DEF House!Login,
       HouseTypes, House!TypeOK, HouseMoved, HouseRequests, House!inviteVars, House!deviceVars, House!sessVars
  <2>2. CASE k # None
    <3>1. HouseMoved(r, [House!NoRequest EXCEPT !.at = "find", !.who = p, !.key = k])
      BY <1>4, <2>2, Becomes, Arriving DEF House!Login
    <3> QED  BY <1>4, <3>1 DEF House!Login,
       HouseTypes, House!TypeOK, HouseMoved, HouseRequests, House!inviteVars, House!deviceVars, House!sessVars
  <2> QED  BY <2>1, <2>2
<1>5. ASSUME NEW r \in Requests, NEW p \in Members, NEW k \in Keys, House!AddDevice(r, p, k)
      PROVE  HouseTypes'
  <2>1. HouseMoved(r, [House!NoRequest EXCEPT !.at = "add", !.who = p, !.key = k])
    BY <1>5, Becomes, Arriving DEF House!AddDevice
  <2> QED  BY <1>5, <2>1 DEF House!AddDevice,
       HouseTypes, House!TypeOK, HouseMoved, HouseRequests, House!inviteVars, House!deviceVars, House!sessVars
<1>6. ASSUME NEW r \in Requests, NEW p \in Members, NEW k \in Keys, House!Claim(r, p, k)
      PROVE  HouseTypes'
  <2>1. PICK d \in Devices \cup {None} :
          House!Become(r, [House!NoRequest EXCEPT !.at = "session", !.who = p, !.key = k, !.dev = d])
    BY <1>6 DEF House!Claim
  <2>2. HouseMoved(r, [House!NoRequest EXCEPT !.at = "session", !.who = p, !.key = k, !.dev = d])
    <3>1. [House!NoRequest EXCEPT !.at = "session", !.who = p, !.key = k, !.dev = d] \in Requesting
      BY Arriving
    <3> QED  BY <2>1, <3>1, Becomes
  <2> QED  BY <1>6, <2>2 DEF House!Claim,
       HouseTypes, House!TypeOK, HouseMoved, HouseRequests, House!inviteVars, House!deviceVars, House!sessVars
<1>7. ASSUME NEW r \in Requests, NEW p \in Members, NEW d \in Devices, House!RevokeDevice(r, p, d)
      PROVE  HouseTypes'
  <2>1. HouseMoved(r, [House!NoRequest EXCEPT !.at = "revoke", !.who = p, !.dev = d])
    BY <1>7, Becomes, Arriving DEF House!RevokeDevice
  <2> QED  BY <1>7, <2>1 DEF House!RevokeDevice,
       HouseTypes, House!TypeOK, HouseMoved, HouseRequests, House!inviteVars, House!deviceVars, House!sessVars
<1>8. ASSUME NEW r \in Requests, NEW p \in Members, House!DeleteAccount(r, p)
      PROVE  HouseTypes'
  <2>1. HouseMoved(r, [House!NoRequest EXCEPT !.at = "done"])
    BY <1>8, Ends DEF House!DeleteAccount
  <2>2. device' \in [Devices -> DeviceRecords]
    <3>1. ASSUME NEW d \in Devices
          PROVE  [device[d] EXCEPT !.at = "deleted"] \in DeviceRecords /\ device[d] \in DeviceRecords
      BY DEF HouseTypes, House!TypeOK, DeviceRecords
    <3> QED  BY <1>8, <3>1 DEF House!DeleteAccount
  <2>3. bound' \in [Sessions -> SessionRecords]
    <3>1. ASSUME NEW s \in Sessions
          PROVE  [bound[s] EXCEPT !.at = "deleted", !.on = None] \in SessionRecords
      <4>1. bound[s] \in SessionRecords
        BY DEF HouseTypes, House!TypeOK, SessionRecords
      <4> QED  BY <4>1 DEF SessionRecords
    <3>2. ASSUME NEW s \in Sessions, NEW ds
          PROVE  House!Unbind(ds)[s] \in SessionRecords
      BY Unbinding
    <3> QED  BY <1>8, <3>1, <3>2 DEF House!DeleteAccount
  <2> QED  BY <1>8, <2>1, <2>2, <2>3 DEF House!DeleteAccount, DeviceRecords, SessionRecords,
       HouseTypes, House!TypeOK, HouseMoved, HouseRequests, House!inviteVars, House!deviceVars, House!sessVars
<1>9. ASSUME NEW r \in Requests, House!CheckName(r)
      PROVE  HouseTypes'
  <2>1. \E to : HouseMoved(r, to)
    BY <1>9, Becomes, Ends, Going DEF House!CheckName
  <2> QED  BY <1>9, <2>1 DEF House!CheckName,
       HouseTypes, House!TypeOK, HouseMoved, HouseRequests, House!inviteVars, House!deviceVars, House!sessVars
<1>10. ASSUME NEW r \in Requests, House!Enrol(r)
       PROVE  HouseTypes'
  <2>1. IsFiniteSet(House!Holding(hreq[r].inv) \ {r})
    BY FS_Subset DEF House!Holding
  <2>2. House!Cardinality(House!Holding(hreq[r].inv) \ {r}) \in Nat
    BY <2>1, FS_CardinalityType, HouseCounts
  <2>3. HouseMoved(r, [House!NoRequest EXCEPT !.at = "done"])
    BY <1>10, Ends DEF House!Enrol
  <2>4. hreq[r].inv \in Invites /\ hreq[r].who \in Members
    BY <1>10 DEF House!Enrol, House!At, Requesting, HouseRequests, HouseTypes
  <2>5. raced' \in [Invites -> Nat] /\ account' \in [Members -> {"none", "there", "deleted"}]
    BY <1>10, <2>2, <2>4 DEF House!Enrol, HouseTypes, House!TypeOK, House!inviteVars
  <2>6. /\ invite' \in [Invites -> {"none", "open", "expired", "used", "deleted"}]
        /\ enrolled' \subseteq Members \X Invites
    BY <1>10, <2>4 DEF House!Enrol, HouseTypes, House!TypeOK, House!inviteVars
  <2>7. House!TypeOK'
    BY <1>10, <2>5, <2>6, <2>2, <2>3, <2>4 DEF House!Enrol,
       HouseTypes, House!TypeOK, HouseMoved, HouseRequests, House!inviteVars, House!deviceVars, House!sessVars
  <2> QED  BY <2>3, <2>7 DEF HouseTypes, HouseMoved
<1>11. ASSUME NEW r \in Requests, House!FindDevice(r)
       PROVE  HouseTypes'
  <2>1. \E to : HouseMoved(r, to)
    BY <1>11, Becomes, Going DEF House!FindDevice, House!At
  <2> QED  BY <1>11, <2>1 DEF House!FindDevice,
       HouseTypes, House!TypeOK, HouseMoved, HouseRequests, House!inviteVars, House!deviceVars, House!sessVars
<1>12. ASSUME NEW r \in Requests, House!UpsertDevice(r)
       PROVE  HouseTypes'
  <2>1. CASE House!Done(r) /\ UNCHANGED device
    <3>1. HouseMoved(r, [House!NoRequest EXCEPT !.at = "done"])
      BY <2>1, Ends
    <3> QED  BY <1>12, <2>1, <3>1 DEF House!UpsertDevice,
       HouseTypes, House!TypeOK, HouseMoved, HouseRequests, House!inviteVars, House!deviceVars, House!sessVars
  <2>2. CASE ~(House!Done(r) /\ UNCHANGED device)
    <3>1. PICK d \in Devices :
            /\ device' = [device EXCEPT ![d] = [at |-> "there", key |-> hreq[r].key,
                                                owner |-> hreq[r].who]]
            /\ House!Become(r, [hreq[r] EXCEPT !.at = IF House!At(r, "upsert") THEN "link" ELSE "linkOnly",
                                               !.dev = d])
      BY <1>12, <2>2 DEF House!UpsertDevice
    <3>2. \E to : HouseMoved(r, to)
      BY <1>12, <3>1, Becomes, Going DEF House!UpsertDevice, House!At
    <3>3. hreq[r].key \in Keys \cup {None} /\ hreq[r].who \in Members
      BY <1>12 DEF House!UpsertDevice, Requesting, HouseRequests, HouseTypes
    <3> QED  BY <1>12, <3>1, <3>2, <3>3 DEF House!UpsertDevice,
       HouseTypes, House!TypeOK, HouseMoved, HouseRequests, House!inviteVars, House!deviceVars, House!sessVars
  <2> QED  BY <2>1, <2>2
<1>13. ASSUME NEW r \in Requests, House!LinkDevice(r) \/ House!LinkFails(r)
       PROVE  HouseTypes'
  <2>1. \E to : HouseMoved(r, to)
    BY <1>13, Becomes, Ends, Going DEF House!LinkDevice, House!LinkFails, House!AfterLink
  <2>2. hreq[r].dev \in Devices /\ hreq[r].who \in Members
    BY <1>13 DEF House!LinkDevice, House!LinkFails, Requesting, HouseRequests, HouseTypes
  <2> QED  BY <1>13, <2>1, <2>2 DEF House!LinkDevice, House!LinkFails,
       HouseTypes, House!TypeOK, HouseMoved, HouseRequests, House!inviteVars, House!deviceVars, House!sessVars
<1>14. ASSUME NEW r \in Requests, House!OpenSession(r)
       PROVE  HouseTypes'
  <2>1. HouseMoved(r, [House!NoRequest EXCEPT !.at = "done"])
    BY <1>14, Ends DEF House!OpenSession
  <2>2. hreq[r].dev \in Devices \cup {None} /\ hreq[r].who \in Members
    BY <1>14 DEF House!OpenSession, House!At, Requesting, HouseRequests, HouseTypes
  <2>3. bound' \in [Sessions -> SessionRecords] /\ late' \subseteq Sessions
    BY <1>14, <2>2 DEF House!OpenSession, HouseTypes, House!TypeOK, SessionRecords, House!sessVars
  <2> QED  BY <1>14, <2>1, <2>3 DEF House!OpenSession, SessionRecords,
       HouseTypes, House!TypeOK, HouseMoved, HouseRequests, House!inviteVars, House!deviceVars, House!sessVars
<1>15. ASSUME NEW r \in Requests, House!RevokeSessions(r)
       PROVE  HouseTypes'
  <2>1. \E to : HouseMoved(r, to)
    BY <1>15, Becomes, Going DEF House!RevokeSessions
  <2> QED  BY <1>15, <2>1 DEF House!RevokeSessions,
       HouseTypes, House!TypeOK, HouseMoved, HouseRequests, House!inviteVars, House!deviceVars, House!sessVars
<1>16. ASSUME NEW r \in Requests, House!DropDevice(r)
       PROVE  HouseTypes'
  <2>1. HouseMoved(r, [House!NoRequest EXCEPT !.at = "done"])
    BY <1>16, Ends DEF House!DropDevice
  <2>2. device' \in [Devices -> DeviceRecords]
    BY <1>16 DEF House!DropDevice, HouseTypes, House!TypeOK, DeviceRecords
  <2>3. bound' \in [Sessions -> SessionRecords]
    BY <1>16, Unbinding DEF House!DropDevice, HouseTypes, House!TypeOK, SessionRecords
  <2>4. links' \subseteq links
    BY <1>16 DEF House!DropDevice
  <2> QED  BY <1>16, <2>1, <2>2, <2>3, <2>4 DEF House!DropDevice, DeviceRecords, SessionRecords,
       HouseTypes, House!TypeOK, HouseMoved, HouseRequests, House!inviteVars, House!deviceVars, House!sessVars
<1> QED
  BY <1>1, <1>2, <1>3, <1>4, <1>5, <1>6, <1>7, <1>8, <1>9, <1>10, <1>11, <1>12, <1>13,
     <1>14, <1>15, <1>16 DEF House!Next, House!Call, House!Handle

-----------------------------------------------------------------------------
(* An invite that has not been used admitted nobody; from then on, those it *)
(* admitted and those who hold it are no more than had read it open.        *)
Enrolled(i) == {p \in Members : <<p, i>> \in enrolled}

InvInvites ==
  \A i \in Invites :
    /\ invite[i] \notin {"used", "deleted"} => Enrolled(i) = {} /\ raced[i] = 0
    /\ invite[i] = "used" => Cardinality(Enrolled(i)) + Cardinality(House!Holding(i)) <= 1 + raced[i]
    /\ Cardinality(Enrolled(i)) <= 1 + raced[i]

NoneJoin ==
  \A q \in Requests :
    hreq'[q].at \in {"name", "enrol"} =>
      hreq[q].at \in {"name", "enrol"} /\ hreq'[q].inv = hreq[q].inv

LEMMA Counts ==
  ASSUME NEW i \in Invites
  PROVE  /\ IsFiniteSet(Enrolled(i)) /\ Cardinality(Enrolled(i)) \in Nat
         /\ IsFiniteSet(House!Holding(i)) /\ Cardinality(House!Holding(i)) \in Nat
<1>1. IsFiniteSet(Enrolled(i)) /\ IsFiniteSet(House!Holding(i))
  BY FS_Subset DEF Enrolled, House!Holding
<1> QED  BY <1>1, FS_CardinalityType

LEMMA HoldersLeave ==
  ASSUME NoneJoin, NEW i \in Invites
  PROVE  Cardinality(House!Holding(i)') <= Cardinality(House!Holding(i)) /\ Cardinality(House!Holding(i)') \in Nat
<1>1. House!Holding(i)' \in SUBSET House!Holding(i)
  BY DEF House!Holding, NoneJoin
<1> QED  BY <1>1, Counts, FS_Subset, FS_CardinalityType

LEMMA InvitesStay ==
  ASSUME HouseTypes, InvInvites, NoneJoin, UNCHANGED <<enrolled, raced>>,
         \A i \in Invites : invite'[i] \in {invite[i], "deleted"} \/ {invite[i], invite'[i]} \cap {"used", "deleted"} = {}
  PROVE  InvInvites'
<1> SUFFICES ASSUME NEW i \in Invites
             PROVE  (/\ invite[i] \notin {"used", "deleted"} => Enrolled(i) = {} /\ raced[i] = 0
                     /\ invite[i] = "used" => Cardinality(Enrolled(i)) + Cardinality(House!Holding(i)) <= 1 + raced[i]
                     /\ Cardinality(Enrolled(i)) <= 1 + raced[i])'
  BY DEF InvInvites
<1>1. Enrolled(i)' = Enrolled(i) /\ raced'[i] = raced[i] /\ raced[i] \in Nat
  BY DEF Enrolled, HouseTypes, House!TypeOK
<1>2. Cardinality(House!Holding(i)') <= Cardinality(House!Holding(i)) /\ Cardinality(House!Holding(i)') \in Nat
  BY HoldersLeave
<1>3. Cardinality(Enrolled(i)) \in Nat /\ Cardinality(House!Holding(i)) \in Nat
  BY Counts
<1>4. invite'[i] = "used" => invite[i] = "used"
  OBVIOUS
<1>5. invite'[i] \notin {"used", "deleted"} => invite[i] \notin {"used", "deleted"}
  OBVIOUS
<1> QED  BY <1>1, <1>2, <1>3, <1>4, <1>5 DEF InvInvites

LEMMA RegisterKeeps ==
  ASSUME HouseTypes, InvInvites, NEW r \in Requests, NEW i \in Invites, NEW p \in Members, House!Register(r, i, p)
  PROVE  InvInvites'
<1>1. ASSUME NEW j \in Invites, j # i
      PROVE  House!Holding(j)' = House!Holding(j)
  BY <1>1 DEF House!Register, House!Arrives, House!At, House!Become, House!Holding,
      House!NoRequest, HouseTypes, House!TypeOK
<1>2. invite[i] = "open"
  BY DEF House!Register
<1>3. UNCHANGED House!inviteVars /\ \A j \in Invites : Enrolled(j)' = Enrolled(j)
  BY DEF House!Register, House!inviteVars, Enrolled
<1> QED  BY <1>1, <1>2, <1>3 DEF InvInvites, House!inviteVars

LEMMA EnrolKeeps ==
  ASSUME HouseTypes, InvInvites, NEW r \in Requests, House!Enrol(r)
  PROVE  InvInvites'
<1>1. PICK i \in Invites, p \in Members : i = hreq[r].inv /\ p = hreq[r].who
  BY DEF House!Enrol, House!At, HouseTypes, Requesting, HouseRequests
<1>2. \A j \in Invites : House!Holding(j)' = House!Holding(j) \ {r}
  BY DEF House!Enrol, House!At, House!Become, House!Done, House!Holding, House!NoRequest,
      HouseTypes, House!TypeOK
<1>3. NoneJoin
  BY DEF House!Enrol, House!At, House!Become, House!Done, House!NoRequest, HouseTypes,
      House!TypeOK, NoneJoin
<1>4. CASE UNCHANGED House!inviteVars
  BY <1>3, <1>4, InvitesStay DEF House!inviteVars
<1>5. CASE ~UNCHANGED House!inviteVars
  <2>1. /\ account[p] = "none" /\ invite[i] # "deleted"
        /\ enrolled' = enrolled \cup {<<p, i>>}
        /\ invite' = [invite EXCEPT ![i] = "used"]
        /\ raced' = IF invite[i] = "used" THEN raced
                    ELSE [raced EXCEPT ![i] = Cardinality(House!Holding(i) \ {r})]
    <3>1. House!Cardinality(House!Holding(i) \ {r}) = Cardinality(House!Holding(i) \ {r})
      BY HouseCounts
    <3> QED  BY <1>1, <1>5, <3>1 DEF House!Enrol
  <2>2. Enrolled(i)' = Enrolled(i) \cup {p} /\ \A j \in Invites \ {i} : Enrolled(j)' = Enrolled(j)
    BY <1>1, <2>1 DEF Enrolled
  <2>3. \A j \in Invites \ {i} : invite'[j] = invite[j] /\ raced'[j] = raced[j]
    BY <1>1, <2>1 DEF HouseTypes, House!TypeOK
  <2>4. invite'[i] = "used"
    BY <1>1, <2>1 DEF HouseTypes, House!TypeOK
  <2>5. r \in House!Holding(i)
    BY <1>1 DEF House!Enrol, House!At, House!Holding
  <2>6. Cardinality(House!Holding(i)') = Cardinality(House!Holding(i)) - 1
    BY <1>1, <1>2, <2>5, Counts, FS_RemoveElement
  <2>7. Cardinality(Enrolled(i)') \in Nat /\ Cardinality(Enrolled(i)') <= Cardinality(Enrolled(i)) + 1
    <3>1. IsFiniteSet(Enrolled(i)) /\ Cardinality(Enrolled(i)) \in Nat
      BY <1>1, Counts
    <3>2. Cardinality(Enrolled(i) \cup {p}) = IF p \in Enrolled(i) THEN Cardinality(Enrolled(i))
                                              ELSE Cardinality(Enrolled(i)) + 1
      BY <3>1, FS_AddElement
    <3> QED  BY <2>2, <3>1, <3>2
  <2>8. /\ Cardinality(Enrolled(i)') + Cardinality(House!Holding(i)') <= 1 + raced'[i]
        /\ Cardinality(Enrolled(i)') <= 1 + raced'[i]
    <3>1. CASE invite[i] = "used"
      <4>1. Cardinality(Enrolled(i)) + Cardinality(House!Holding(i)) <= 1 + raced[i] /\ raced'[i] = raced[i] /\ raced[i] \in Nat
        BY <1>1, <2>1, <3>1 DEF InvInvites, HouseTypes, House!TypeOK
      <4>2. Cardinality(Enrolled(i)) \in Nat /\ Cardinality(House!Holding(i)) \in Nat /\ Cardinality(House!Holding(i)') \in Nat
        BY <1>1, <1>2, Counts, FS_RemoveElement, FS_CardinalityType
      <4> QED  BY <4>1, <4>2, <2>6, <2>7
    <3>2. CASE invite[i] # "used"
      <4>1. Enrolled(i) = {}
        BY <1>1, <2>1, <3>2 DEF InvInvites
      <4>2. Cardinality(Enrolled(i)') = 1
        BY <2>2, <4>1, FS_Singleton
      <4>3. raced'[i] = Cardinality(House!Holding(i)')
        BY <1>1, <1>2, <2>1, <3>2 DEF HouseTypes, House!TypeOK
      <4>4. Cardinality(House!Holding(i)') \in Nat
        BY <1>1, <1>2, Counts, FS_RemoveElement, FS_CardinalityType
      <4> QED  BY <4>2, <4>3, <4>4
    <3> QED  BY <3>1, <3>2
  <2>9. ASSUME NEW j \in Invites, j # i
        PROVE  /\ (invite[j] \notin {"used", "deleted"} => Enrolled(j) = {} /\ raced[j] = 0)'
               /\ (invite[j] = "used" => Cardinality(Enrolled(j)) + Cardinality(House!Holding(j)) <= 1 + raced[j])'
               /\ (Cardinality(Enrolled(j)) <= 1 + raced[j])'
    <3>1. Cardinality(House!Holding(j)') <= Cardinality(House!Holding(j)) /\ Cardinality(House!Holding(j)') \in Nat
      BY <1>3, HoldersLeave
    <3>2. Cardinality(Enrolled(j)) \in Nat /\ Cardinality(House!Holding(j)) \in Nat /\ raced[j] \in Nat
      BY Counts DEF HouseTypes, House!TypeOK
    <3> QED  BY <2>9, <2>2, <2>3, <3>1, <3>2 DEF InvInvites
  <2> QED  BY <2>4, <2>8, <2>9 DEF InvInvites
<1> QED  BY <1>4, <1>5

-----------------------------------------------------------------------------
(* A live session is on the device it was opened on while that is there;   *)
(* one whose device is being deleted, or was, was opened in between.       *)
InvDevices ==
  /\ \A s \in Sessions : bound[s].at = "live" =>
       /\ bound[s].on \in {bound[s].first, None}
       /\ bound[s].on # None => House!There(bound[s].on)
       /\ bound[s].first # None =>
            /\ device[bound[s].first].at # "none"
            /\ House!There(bound[s].first) => bound[s].on = bound[s].first
            /\ device[bound[s].first].at = "revoked" => s \in late
  /\ \A r \in Requests, s \in Sessions :
       House!At(r, "drop") /\ bound[s].at = "live" /\ bound[s].on = hreq[r].dev => s \in late

NoneLocks == \A q \in Requests : hreq'[q].at = "drop" => hreq'[q] = hreq[q]

LEMMA DevicesStay ==
  ASSUME InvDevices, NoneLocks, UNCHANGED <<device, House!sessVars>>
  PROVE  InvDevices'
  BY DEF InvDevices, NoneLocks, House!There, House!At, House!sessVars

LEMMA UpsertKeeps ==
  ASSUME HouseTypes, InvDevices, NEW r \in Requests, House!UpsertDevice(r)
  PROVE  InvDevices'
<1>1. NoneLocks /\ UNCHANGED House!sessVars
  <2>1. ASSUME NEW to, to.at # "drop", House!Become(r, to)
        PROVE  NoneLocks
    BY <2>1 DEF House!Become, NoneLocks, HouseTypes, House!TypeOK
  <2>2. [House!NoRequest EXCEPT !.at = "done"].at # "drop"
    BY DEF House!NoRequest
  <2>3. \A d \in Devices :
          [hreq[r] EXCEPT !.at = IF House!At(r, "upsert") THEN "link" ELSE "linkOnly", !.dev = d].at # "drop"
    BY DEF HouseTypes, House!TypeOK
  <2> QED  BY <2>1, <2>2, <2>3 DEF House!UpsertDevice, House!Done
<1>2. CASE UNCHANGED device
  BY <1>1, <1>2, DevicesStay
<1>3. CASE ~UNCHANGED device
  <2>1. PICK d \in Devices :
          /\ House!Claimable(r, d)
          /\ device' = [device EXCEPT ![d] = [at |-> "there", key |-> hreq[r].key, owner |-> hreq[r].who]]
    BY <1>3 DEF House!UpsertDevice
  <2>2. device'[d].at = "there" /\ device[d].at \in {"none", "there"}
    BY <2>1 DEF House!Claimable, House!Created, House!There, HouseTypes, House!TypeOK
  <2>3. \A e \in Devices \ {d} : device'[e] = device[e]
    BY <2>1 DEF HouseTypes, House!TypeOK
  <2>4. \A s \in Sessions : bound[s].first \in Devices \cup {None}
    BY DEF HouseTypes, House!TypeOK
  <2> QED  BY <1>1, <2>2, <2>3, <2>4 DEF InvDevices, NoneLocks, House!There, House!At,
             House!sessVars
<1> QED  BY <1>2, <1>3

LEMMA OpenKeeps ==
  ASSUME HouseTypes, InvDevices, NEW r \in Requests, House!OpenSession(r)
  PROVE  InvDevices'
<1>1. NoneLocks /\ UNCHANGED device
  BY DEF House!OpenSession, House!Done, House!Become, House!NoRequest, NoneLocks, HouseTypes,
      House!TypeOK, House!At, House!deviceVars
<1>2. CASE UNCHANGED House!sessVars
  BY <1>1, <1>2, DevicesStay
<1>3. CASE ~UNCHANGED House!sessVars
  <2>1. PICK d \in Devices \cup {None} : d = hreq[r].dev
    BY DEF HouseTypes, Requesting, HouseRequests
  <2>2. PICK s \in Sessions :
          /\ bound' = [bound EXCEPT ![s] = [at |-> "live", by |-> hreq[r].who, on |-> d, first |-> d]]
          /\ late' = IF House!Locked(d) THEN late \cup {s} ELSE late
    BY <1>3, <2>1 DEF House!OpenSession
  <2>3. d = None \/ House!There(d)
    BY <1>3, <2>1 DEF House!OpenSession
  <2>4. bound'[s] = [at |-> "live", by |-> hreq[r].who, on |-> d, first |-> d]
    BY <2>2 DEF HouseTypes, House!TypeOK
  <2>5. \A t \in Sessions \ {s} : bound'[t] = bound[t]
    BY <2>2 DEF HouseTypes, House!TypeOK
  <2>6. late \subseteq late'
    BY <2>2
  <2>7. \A q \in Requests : House!At(q, "drop")' /\ hreq'[q].dev = d => s \in late'
    BY <2>2, <1>1 DEF House!Locked, NoneLocks, House!At
  <2> QED  BY <1>1, <2>3, <2>4, <2>5, <2>6, <2>7 DEF InvDevices, NoneLocks, House!There, House!At
<1> QED  BY <1>2, <1>3

LEMMA RevokeKeeps ==
  ASSUME HouseTypes, InvDevices, NEW r \in Requests, House!RevokeSessions(r)
  PROVE  InvDevices'
<1>1. UNCHANGED <<device, late>>
  BY DEF House!RevokeSessions, House!deviceVars
<1>2. \A q \in Requests \ {r} : hreq'[q] = hreq[q]
  BY DEF House!RevokeSessions, House!Become, HouseTypes, House!TypeOK
<1>3. hreq'[r].dev = hreq[r].dev
  BY DEF House!RevokeSessions, House!Become, HouseTypes, House!TypeOK
<1>4. ASSUME NEW s \in Sessions, bound'[s].at = "live"
      PROVE  bound'[s] = bound[s] /\ bound[s].on # hreq[r].dev
  BY <1>4 DEF House!RevokeSessions, HouseTypes, House!TypeOK
<1> QED  BY <1>1, <1>2, <1>3, <1>4 DEF InvDevices, House!There, House!At

LEMMA DropKeeps ==
  ASSUME HouseTypes, InvDevices, NEW r \in Requests, House!DropDevice(r)
  PROVE  InvDevices'
<1>1. NoneLocks /\ UNCHANGED late
  BY DEF House!DropDevice, House!Done, House!Become, House!NoRequest, NoneLocks, HouseTypes,
      House!TypeOK
<1>2. CASE UNCHANGED <<device, bound>>
  BY <1>1, <1>2, DevicesStay DEF House!sessVars
<1>3. CASE ~UNCHANGED <<device, bound>>
  <2>1. PICK d \in Devices : d = hreq[r].dev
    BY DEF House!DropDevice, House!At, HouseTypes, Requesting, HouseRequests
  <2>2. /\ House!There(d) /\ device' = [device EXCEPT ![d].at = "revoked"] /\ bound' = House!Unbind({d})
    BY <1>3, <2>1 DEF House!DropDevice
  <2>3. device'[d].at = "revoked" /\ \A e \in Devices \ {d} : device'[e] = device[e]
    BY <2>2 DEF HouseTypes, House!TypeOK
  <2>4. ASSUME NEW s \in Sessions
        PROVE  /\ bound'[s].at = bound[s].at /\ bound'[s].first = bound[s].first
               /\ bound'[s].on = IF bound[s].on = d THEN None ELSE bound[s].on
    BY <2>2 DEF House!Unbind, HouseTypes, House!TypeOK
  <2>5. \A s \in Sessions : bound[s].at = "live" /\ bound[s].on = d => s \in late
    BY <2>1 DEF House!DropDevice, InvDevices
  <2>6. \A s \in Sessions : bound[s].first \in Devices \cup {None} /\ bound[s].on \in Devices \cup {None}
    BY DEF HouseTypes, House!TypeOK
  <2>7. None \notin Devices /\ d # None
    OBVIOUS
  <2>8. \A q \in Requests : House!At(q, "drop")' => House!At(q, "drop") /\ hreq'[q].dev = hreq[q].dev /\ hreq[q].dev \in Devices
    BY <1>1 DEF NoneLocks, House!At, HouseTypes, Requesting, HouseRequests
  <2>9. ASSUME NEW s \in Sessions, bound'[s].at = "live"
        PROVE  (/\ bound[s].on \in {bound[s].first, None}
                /\ bound[s].on # None => House!There(bound[s].on)
                /\ bound[s].first # None =>
                     /\ device[bound[s].first].at # "none"
                     /\ House!There(bound[s].first) => bound[s].on = bound[s].first
                     /\ device[bound[s].first].at = "revoked" => s \in late)'
    <3>1. CASE bound[s].first = None
      BY <3>1, <2>4, <2>6, <2>7, <2>9 DEF InvDevices, House!There
    <3>2. CASE bound[s].first = d
      BY <3>2, <1>1, <2>2, <2>3, <2>4, <2>5, <2>7, <2>9 DEF InvDevices, House!There
    <3>3. CASE bound[s].first \in Devices \ {d}
      <4>1. device'[bound'[s].first] = device[bound[s].first]
        BY <3>3, <2>3, <2>4
      <4>2. bound'[s].on = bound[s].on
        BY <3>3, <2>4, <2>9, <2>7 DEF InvDevices
      <4> QED  BY <3>3, <4>1, <4>2, <1>1, <2>4, <2>7, <2>9 DEF InvDevices, House!There
    <3> QED  BY <3>1, <3>2, <3>3, <2>6
  <2>10. ASSUME NEW q \in Requests, NEW s \in Sessions,
                (House!At(q, "drop") /\ bound[s].at = "live" /\ bound[s].on = hreq[q].dev)'
         PROVE  s \in late
    BY <2>4, <2>7, <2>8, <2>10 DEF InvDevices
  <2> QED  BY <1>1, <2>9, <2>10 DEF InvDevices
<1> QED  BY <1>2, <1>3

LEMMA DeleteKeeps ==
  ASSUME HouseTypes, InvDevices, NEW r \in Requests, NEW p \in Members, House!DeleteAccount(r, p)
  PROVE  InvDevices'
<1> DEFINE owned == {d \in Devices : House!There(d) /\ device[d].owner = p}
<1>1. NoneLocks /\ UNCHANGED late
  BY DEF House!DeleteAccount, House!Done, House!Become, House!NoRequest, NoneLocks, HouseTypes,
      House!TypeOK
<1>2. PICK ds \in SUBSET Devices : ds = owned
  OBVIOUS
<1>3. ASSUME NEW d \in Devices
      PROVE  device'[d].at = IF d \in ds THEN "deleted" ELSE device[d].at
  <2>1. device'[d] = IF d \in ds THEN [device[d] EXCEPT !.at = "deleted"] ELSE device[d]
    BY <1>2 DEF House!DeleteAccount
  <2> QED  BY <2>1 DEF HouseTypes, House!TypeOK
<1>4. ASSUME NEW s \in Sessions, bound'[s].at = "live"
      PROVE  /\ bound[s].at = "live" /\ bound'[s].first = bound[s].first
             /\ bound'[s].on = IF bound[s].on \in ds THEN None ELSE bound[s].on
  <2>1. bound'[s] = IF bound[s].by = p THEN [bound[s] EXCEPT !.at = "deleted", !.on = None]
                    ELSE House!Unbind(ds)[s]
    BY <1>2 DEF House!DeleteAccount
  <2>2. House!Unbind(ds)[s] = IF bound[s].on \in ds THEN [bound[s] EXCEPT !.on = None] ELSE bound[s]
    BY DEF House!Unbind
  <2> QED  BY <1>4, <2>1, <2>2 DEF HouseTypes, House!TypeOK
<1>5. \A s \in Sessions : bound[s].first \in Devices \cup {None} /\ bound[s].on \in Devices \cup {None}
  BY DEF HouseTypes, House!TypeOK
<1>6. \A q \in Requests : House!At(q, "drop")' => House!At(q, "drop") /\ hreq'[q].dev = hreq[q].dev /\ hreq[q].dev \in Devices
  BY <1>1 DEF NoneLocks, House!At, HouseTypes, Requesting, HouseRequests
<1> QED  BY <1>1, <1>3, <1>4, <1>5, <1>6 DEF InvDevices, House!There

-----------------------------------------------------------------------------
(* Whoever owns a device, has a session on it or is about to is linked to  *)
(* it, or the link is lost or on its way; nobody acts for an account or on *)
(* a device that is yet to be.                                             *)
Tied(d, p) == <<d, p>> \in links \cup unlinked \/ House!Linking(d, p)

Acting == {"find", "add", "upsert", "upsertOnly", "link", "linkOnly", "session"}

SessionsTied ==
  \A s \in Sessions : bound[s].at = "live" =>
    /\ bound[s].by \in Members /\ House!Member(bound[s].by)
    /\ bound[s].on # None => House!There(bound[s].on) /\ Tied(bound[s].on, bound[s].by)

OwnersTied ==
  \A d \in Devices : House!There(d) =>
    device[d].owner \in Members /\ House!Member(device[d].owner) /\ Tied(d, device[d].owner)

ReadyTied ==
  \A r \in Requests :
    House!At(r, "session") /\ House!There(hreq[r].dev) /\ House!Member(hreq[r].who) => Tied(hreq[r].dev, hreq[r].who)

Known ==
  \A r \in Requests :
    /\ hreq[r].at \in Acting => account[hreq[r].who] # "none"
    /\ hreq[r].dev # None => device[hreq[r].dev].at # "none"

InvMembers == SessionsTied /\ OwnersTied /\ ReadyTied /\ Known

(* What most steps leave of it. *)
TiesStay ==
  \A d \in Devices, p \in Members : House!There(d)' /\ House!Member(p)' /\ Tied(d, p) => Tied(d, p)'

SessionsStay ==
  \A s \in Sessions : bound'[s].at = "live" =>
    /\ bound[s].at = "live" /\ bound'[s].by = bound[s].by
    /\ bound'[s].on \in {bound[s].on, None}
    /\ account'[bound[s].by] = "there"
    /\ bound'[s].on # None => device'[bound[s].on].at = "there"

OwnersStay ==
  \A d \in Devices : House!There(d)' =>
    House!There(d) /\ device'[d].owner = device[d].owner /\ account'[device[d].owner] = "there"

ReadyStay ==
  \A q \in Requests :
    (House!At(q, "session") /\ House!There(hreq[q].dev) /\ House!Member(hreq[q].who))' =>
      hreq'[q] = hreq[q] /\ House!There(hreq[q].dev) /\ House!Member(hreq[q].who)

LinkersStay ==
  \A q \in Requests : hreq[q].at \in {"link", "linkOnly"} => hreq'[q] = hreq[q]

LEMMA LinkersTie ==
  ASSUME LinkersStay, links \subseteq links', unlinked \subseteq unlinked'
  PROVE  TiesStay
  BY DEF LinkersStay, TiesStay, Tied, House!Linking

LEMMA SessionsAreTied ==
  ASSUME HouseTypes, SessionsTied, TiesStay, SessionsStay
  PROVE  SessionsTied'
<1> SUFFICES ASSUME NEW s \in Sessions, (bound[s].at = "live")'
             PROVE  (/\ bound[s].by \in Members /\ House!Member(bound[s].by)
                     /\ bound[s].on # None => House!There(bound[s].on) /\ Tied(bound[s].on, bound[s].by))'
  BY DEF SessionsTied
<1>1. PICK p \in Members \cup {None}, d \in Devices \cup {None} : p = bound[s].by /\ d = bound[s].on
  BY DEF HouseTypes, House!TypeOK
<1>2. bound[s].at = "live" /\ bound'[s].by = p /\ bound'[s].on \in {d, None} /\ account'[p] = "there"
  BY <1>1 DEF SessionsStay
<1>3. p \in Members
  BY <1>1, <1>2 DEF SessionsTied
<1>4. CASE bound'[s].on = None
  BY <1>2, <1>3, <1>4 DEF House!Member
<1>5. CASE bound'[s].on # None
  <2>1. d \in Devices /\ bound'[s].on = d /\ device'[d].at = "there"
    BY <1>1, <1>2, <1>5 DEF SessionsStay
  <2>2. Tied(d, p)
    BY <1>1, <1>2, <2>1 DEF SessionsTied
  <2>3. Tied(d, p)'
    BY <1>2, <1>3, <2>1, <2>2 DEF TiesStay, House!There, House!Member
  <2> QED  BY <1>2, <1>3, <2>1, <2>3 DEF House!Member, House!There
<1> QED  BY <1>4, <1>5

LEMMA OwnersAreTied ==
  ASSUME HouseTypes, OwnersTied, TiesStay, OwnersStay
  PROVE  OwnersTied'
<1> SUFFICES ASSUME NEW d \in Devices, House!There(d)'
             PROVE  (device[d].owner \in Members /\ House!Member(device[d].owner) /\ Tied(d, device[d].owner))'
  BY DEF OwnersTied
<1>1. PICK p \in Members \cup {None} : p = device[d].owner
  BY DEF HouseTypes, House!TypeOK
<1>2. House!There(d) /\ device'[d].owner = p /\ House!Member(p)'
  BY <1>1 DEF OwnersStay, House!Member
<1>3. p \in Members /\ Tied(d, p)
  BY <1>1, <1>2 DEF OwnersTied
<1>4. Tied(d, p)'
  BY <1>2, <1>3 DEF TiesStay
<1> QED  BY <1>2, <1>3, <1>4

LEMMA ReadyAreTied ==
  ASSUME HouseTypes, ReadyTied, TiesStay, ReadyStay
  PROVE  ReadyTied'
<1> SUFFICES ASSUME NEW q \in Requests, (House!At(q, "session") /\ House!There(hreq[q].dev) /\ House!Member(hreq[q].who))'
             PROVE  (Tied(hreq[q].dev, hreq[q].who))'
  BY DEF ReadyTied
<1>1. PICK p \in Members \cup {None}, d \in Devices \cup {None} : p = hreq[q].who /\ d = hreq[q].dev
  BY DEF HouseTypes, House!TypeOK
<1>2. hreq'[q] = hreq[q] /\ House!There(d) /\ House!Member(p)
  BY <1>1 DEF ReadyStay
<1>3. House!At(q, "session") /\ House!There(d)' /\ House!Member(p)'
  BY <1>1, <1>2 DEF House!At
<1>4. Tied(d, p)
  BY <1>1, <1>2, <1>3 DEF ReadyTied
<1>5. p \in Members /\ d \in Devices
  BY <1>1, <1>2, <1>3 DEF House!There, House!At, HouseTypes, Requesting, HouseRequests
<1> QED  BY <1>1, <1>2, <1>3, <1>4, <1>5 DEF TiesStay

(* A step that only moves its request. *)
NoneReady == \A q \in Requests : (House!At(q, "session") /\ hreq[q].dev # None)' => hreq'[q] = hreq[q]

KnownStays ==
  \A q \in Requests : hreq'[q] = hreq[q] \/ (/\ hreq'[q].at \in Acting => account'[hreq'[q].who] # "none"
                                             /\ hreq'[q].dev # None => device'[hreq'[q].dev].at # "none")

LEMMA MembersStay ==
  ASSUME HouseTypes, InvMembers, LinkersStay, NoneReady, KnownStays,
         UNCHANGED <<account, device, links, unlinked, bound>>
  PROVE  InvMembers'
<1>1. TiesStay
  BY LinkersTie
<1>2. SessionsStay
  BY DEF InvMembers, SessionsTied, SessionsStay, House!Member, House!There
<1>3. OwnersStay
  BY DEF InvMembers, OwnersTied, OwnersStay, House!Member, House!There
<1>4. ReadyStay
  BY DEF NoneReady, ReadyStay, House!There, House!Member, House!At
<1>5. Known'
  BY DEF KnownStays, InvMembers, Known
<1> QED  BY <1>1, <1>2, <1>3, <1>4, <1>5, SessionsAreTied, OwnersAreTied,
           ReadyAreTied DEF InvMembers

-----------------------------------------------------------------------------
(* What a step's move of its request does to the others' standing. *)
LEMMA Effects ==
  ASSUME HouseTypes, NEW r \in Requests, NEW to, House!Become(r, to)
  PROVE  /\ (to.at \in {"name", "enrol"} => hreq[r].at \in {"name", "enrol"} /\ to.inv = hreq[r].inv)
              => NoneJoin
         /\ to.at # "drop" => NoneLocks
         /\ hreq[r].at \notin {"link", "linkOnly"} => LinkersStay
         /\ to.at # "session" \/ to.dev = None => NoneReady
         /\ (/\ to.at \in Acting => account'[to.who] # "none"
             /\ to.dev # None => device'[to.dev].at # "none") => KnownStays
<1>1. hreq'[r] = to /\ \A q \in Requests \ {r} : hreq'[q] = hreq[q]
  BY DEF HouseTypes, House!TypeOK, House!Become
<1> QED  BY <1>1 DEF NoneJoin, NoneLocks, LinkersStay, NoneReady, KnownStays, House!At

LEMMA EndEffects ==
  ASSUME HouseTypes, NEW r \in Requests, House!Done(r)
  PROVE  /\ NoneJoin /\ NoneLocks /\ NoneReady /\ KnownStays
         /\ hreq[r].at \notin {"link", "linkOnly"} => LinkersStay
<1>1. [House!NoRequest EXCEPT !.at = "done"] = [at |-> "done", who |-> None, inv |-> None, key |-> None, dev |-> None]
  BY DEF House!NoRequest
<1> QED  BY <1>1, Effects DEF House!Done, Acting

HouseInv == HouseTypes /\ InvInvites /\ InvDevices /\ InvMembers

(* Steps that only move their request, not onto an invite or a session. *)
LEMMA QuietKeeps ==
  ASSUME HouseInv, UNCHANGED <<House!inviteVars, House!deviceVars, House!sessVars>>,
         NoneJoin, NoneLocks, LinkersStay, NoneReady, KnownStays
  PROVE  InvInvites' /\ InvDevices' /\ InvMembers'
<1>1. InvInvites'
  BY InvitesStay DEF HouseInv, House!inviteVars
<1>2. InvDevices'
  BY DevicesStay DEF HouseInv, House!deviceVars
<1>3. InvMembers'
  BY MembersStay DEF HouseInv, House!inviteVars, House!deviceVars, House!sessVars
<1> QED  BY <1>1, <1>2, <1>3

LEMMA InvitationsKeep ==
  ASSUME HouseInv, \/ \E i \in Invites : House!ExpireInvite(i)
                   \/ \E r \in Requests, i \in Invites : House!CreateInvite(r, i) \/ House!DeleteInvite(r, i)
  PROVE  InvInvites' /\ InvDevices' /\ InvMembers'
<1>1. PICK i \in Invites, to \in {"open", "expired", "deleted"} :
        /\ House!SetInvite(i, to)
        /\ to = "open" => invite[i] = "none"
        /\ to = "expired" => invite[i] = "open"
  BY DEF House!ExpireInvite, House!CreateInvite, House!DeleteInvite
<1>2. NoneJoin /\ NoneLocks /\ LinkersStay /\ NoneReady /\ KnownStays
  <2>1. CASE UNCHANGED hreq
    BY <2>1 DEF NoneJoin, NoneLocks, LinkersStay, NoneReady, KnownStays
  <2>2. CASE \E r \in Requests : House!At(r, "idle") /\ House!Done(r)
    BY <2>2, EndEffects DEF HouseInv, House!At
  <2> QED  BY <2>1, <2>2 DEF House!ExpireInvite, House!CreateInvite, House!DeleteInvite,
             House!Arrives
<1>3. \A j \in Invites : invite'[j] \in {invite[j], "deleted"} \/ {invite[j], invite'[j]} \cap {"used", "deleted"} = {}
  BY <1>1 DEF House!SetInvite, HouseInv, HouseTypes, House!TypeOK
<1>4. UNCHANGED <<enrolled, raced, account, House!deviceVars, House!sessVars>>
  BY <1>1 DEF House!SetInvite
<1>5. InvInvites'
  BY <1>2, <1>3, <1>4, InvitesStay DEF HouseInv
<1>6. InvDevices'
  BY <1>2, <1>4, DevicesStay DEF HouseInv, House!deviceVars
<1>7. InvMembers'
  BY <1>2, <1>4, MembersStay DEF HouseInv, House!deviceVars, House!sessVars
<1> QED  BY <1>5, <1>6, <1>7

LEMMA CallsKeep ==
  ASSUME HouseInv, NEW r \in Requests, NEW p \in Members,
         \/ \E k \in Keys \cup {None} : House!Login(r, p, k)
         \/ \E k \in Keys : House!AddDevice(r, p, k)
         \/ \E d \in Devices : House!RevokeDevice(r, p, d)
  PROVE  InvInvites' /\ InvDevices' /\ InvMembers'
<1>1. House!At(r, "idle") /\ House!Member(p) /\ UNCHANGED <<House!inviteVars, House!deviceVars, House!sessVars>>
  BY DEF House!Login, House!AddDevice, House!RevokeDevice, House!Arrives
<1>2. \E to : /\ House!Become(r, to) /\ to.at \in {"session", "find", "add", "revoke"} /\ to.who = p
              /\ to.dev # None => House!There(to.dev) /\ to.at = "revoke"
  <2>1. ASSUME NEW k, NEW at \in {"session", "find", "add"},
               House!Become(r, [House!NoRequest EXCEPT !.at = at, !.who = p, !.key = k])
        PROVE  <1>2
    <3> DEFINE to == [House!NoRequest EXCEPT !.at = at, !.who = p, !.key = k]
    <3>1. House!Become(r, to) /\ to.at = at /\ to.who = p /\ to.dev = None
      BY <2>1 DEF House!NoRequest
    <3> HIDE DEF to
    <3> QED  BY <3>1
  <2>2. ASSUME NEW d, House!RevokeDevice(r, p, d)
        PROVE  <1>2
    <3> DEFINE to == [House!NoRequest EXCEPT !.at = "revoke", !.who = p, !.dev = d]
    <3>1. House!Become(r, to) /\ House!There(d) /\ to.at = "revoke" /\ to.who = p /\ to.dev = d
      BY <2>2 DEF House!RevokeDevice, House!NoRequest
    <3> HIDE DEF to
    <3> QED  BY <3>1
  <2>3. ASSUME NEW k, House!Login(r, p, k)
        PROVE  <1>2
    BY <2>1, <2>3 DEF House!Login
  <2>4. ASSUME NEW k, House!AddDevice(r, p, k)
        PROVE  <1>2
    BY <2>1, <2>4 DEF House!AddDevice
  <2> QED  BY <2>2, <2>3, <2>4
<1>3. NoneJoin /\ NoneLocks /\ LinkersStay /\ NoneReady /\ KnownStays
  BY <1>1, <1>2, Effects DEF HouseInv, House!At, House!Member, House!There, Acting,
      House!inviteVars, House!deviceVars
<1> QED  BY <1>1, <1>3, QuietKeeps

LEMMA LookupsKeep ==
  ASSUME HouseInv, NEW r \in Requests, House!CheckName(r) \/ House!FindDevice(r)
  PROVE  InvInvites' /\ InvDevices' /\ InvMembers'
<1>1. UNCHANGED <<House!inviteVars, House!deviceVars, House!sessVars>>
  BY DEF House!CheckName, House!FindDevice
<1>2. CASE House!CheckName(r)
  <2>1. CASE House!Done(r)
    BY <1>1, <1>2, <2>1, EndEffects, QuietKeeps DEF HouseInv, House!CheckName, House!At
  <2>2. CASE House!Become(r, [hreq[r] EXCEPT !.at = "enrol"])
    <3> DEFINE to == [hreq[r] EXCEPT !.at = "enrol"]
    <3>1. House!Become(r, to) /\ to.at = "enrol" /\ to.inv = hreq[r].inv /\ to.dev = hreq[r].dev
      BY <2>2 DEF HouseInv, HouseTypes, House!TypeOK
    <3> HIDE DEF to
    <3>2. hreq[r].dev # None => device'[hreq[r].dev].at # "none"
      BY <1>1 DEF HouseInv, InvMembers, Known, House!deviceVars
    <3>3. NoneJoin /\ NoneLocks /\ LinkersStay /\ NoneReady /\ KnownStays
      BY <1>2, <3>1, <3>2, Effects DEF HouseInv, House!CheckName, House!At, Acting
    <3> QED  BY <1>1, <3>3, QuietKeeps
  <2> QED  BY <1>2, <2>1, <2>2 DEF House!CheckName
<1>3. CASE House!FindDevice(r)
  <2>1. PICK d \in Devices \cup {None}, at \in {"upsert", "upsertOnly"} :
          /\ House!Become(r, [hreq[r] EXCEPT !.at = at, !.dev = d])
          /\ d # None => House!There(d)
    BY <1>3 DEF House!FindDevice
  <2> DEFINE to == [hreq[r] EXCEPT !.at = at, !.dev = d]
  <2>2. House!Become(r, to) /\ to.at = at /\ to.dev = d /\ to.who = hreq[r].who
    BY <2>1 DEF HouseInv, HouseTypes, House!TypeOK
  <2> HIDE DEF to
  <2>3. account'[hreq[r].who] # "none"
    BY <1>1, <1>3 DEF House!FindDevice, HouseInv, InvMembers, Known, Acting, House!inviteVars
  <2>4. d # None => device'[d].at # "none"
    BY <1>1, <2>1 DEF House!There, House!deviceVars
  <2>5. NoneJoin /\ NoneLocks /\ LinkersStay /\ NoneReady /\ KnownStays
    BY <1>3, <2>1, <2>2, <2>3, <2>4, Effects DEF HouseInv, House!FindDevice, House!At
  <2> QED  BY <1>1, <2>5, QuietKeeps
<1> QED  BY <1>2, <1>3

LEMMA RegisterKeepsAll ==
  ASSUME HouseInv, NEW r \in Requests, NEW i \in Invites, NEW p \in Members, House!Register(r, i, p)
  PROVE  InvInvites' /\ InvDevices' /\ InvMembers'
<1> DEFINE to == [House!NoRequest EXCEPT !.at = "name", !.who = p, !.inv = i]
<1>1. House!Become(r, to) /\ to.at = "name" /\ to.dev = None
  BY DEF House!Register, House!NoRequest
<1>2. House!At(r, "idle") /\ UNCHANGED <<House!inviteVars, House!deviceVars, House!sessVars>>
  BY DEF House!Register, House!Arrives
<1> HIDE DEF to
<1>3. NoneLocks /\ LinkersStay /\ NoneReady /\ KnownStays
  BY <1>1, <1>2, Effects DEF HouseInv, House!At, Acting
<1>4. InvInvites'
  BY RegisterKeeps DEF HouseInv
<1>5. InvDevices'
  BY <1>2, <1>3, DevicesStay DEF HouseInv, House!deviceVars
<1>6. InvMembers'
  BY <1>2, <1>3, MembersStay DEF HouseInv, House!inviteVars, House!deviceVars, House!sessVars
<1> QED  BY <1>4, <1>5, <1>6

LEMMA EnrolKeepsAll ==
  ASSUME HouseInv, NEW r \in Requests, House!Enrol(r)
  PROVE  InvInvites' /\ InvDevices' /\ InvMembers'
<1>1. NoneLocks /\ LinkersStay /\ NoneReady /\ KnownStays
  BY EndEffects DEF HouseInv, House!Enrol, House!At
<1>2. UNCHANGED <<House!deviceVars, House!sessVars>>
  BY DEF House!Enrol
<1>3. \A p \in Members : account'[p] = account[p] \/ (account[p] = "none" /\ account'[p] = "there")
  BY DEF House!Enrol, House!inviteVars, HouseInv, HouseTypes, House!TypeOK
<1>4. InvInvites'
  BY EnrolKeeps DEF HouseInv
<1>5. InvDevices'
  BY <1>1, <1>2, DevicesStay DEF HouseInv, House!deviceVars
<1>6. TiesStay
  BY <1>1, <1>2, LinkersTie DEF House!deviceVars
<1>7. SessionsStay
  BY <1>2, <1>3 DEF HouseInv, InvMembers, SessionsTied, SessionsStay, House!Member, House!There,
      House!deviceVars, House!sessVars
<1>8. OwnersStay
  BY <1>2, <1>3 DEF HouseInv, InvMembers, OwnersTied, OwnersStay, House!Member, House!There,
      House!deviceVars
<1>9. ReadyStay
  <2> SUFFICES ASSUME NEW q \in Requests, (House!At(q, "session") /\ House!There(hreq[q].dev) /\ House!Member(hreq[q].who))'
               PROVE  hreq'[q] = hreq[q] /\ House!There(hreq[q].dev) /\ House!Member(hreq[q].who)
    BY DEF ReadyStay
  <2>1. hreq'[q] = hreq[q]
    BY <1>1 DEF NoneReady, House!There
  <2>2. House!There(hreq[q].dev)
    BY <1>2, <2>1 DEF House!There, House!deviceVars
  <2>3. hreq[q].who \in Members /\ account[hreq[q].who] # "none" /\ account'[hreq[q].who] = "there"
    BY <2>1 DEF House!At, House!Member, HouseInv, HouseTypes, Requesting, HouseRequests,
        InvMembers, Known, Acting
  <2> QED  BY <2>1, <2>2, <2>3, <1>3 DEF House!Member
<1>10. Known'
  <2>1. \A q \in Requests : hreq[q].at \in Acting => hreq[q].who \in Members
    BY DEF Acting, HouseInv, HouseTypes, Requesting, HouseRequests
  <2>2. ASSUME NEW q \in Requests, hreq'[q] = hreq[q]
        PROVE  (/\ hreq[q].at \in Acting => account[hreq[q].who] # "none"
                /\ hreq[q].dev # None => device[hreq[q].dev].at # "none")'
    BY <2>1, <2>2, <1>2, <1>3 DEF HouseInv, InvMembers, Known, House!deviceVars
  <2> QED  BY <2>2, <1>1 DEF KnownStays, Known
<1>11. InvMembers'
  BY <1>6, <1>7, <1>8, <1>9, <1>10, SessionsAreTied, OwnersAreTied, ReadyAreTied DEF HouseInv,
      InvMembers
<1> QED  BY <1>4, <1>5, <1>11

LEMMA ClaimKeepsAll ==
  ASSUME HouseInv, NEW r \in Requests, NEW p \in Members, NEW k \in Keys, House!Claim(r, p, k)
  PROVE  InvInvites' /\ InvDevices' /\ InvMembers'
<1>1. PICK d \in Devices \cup {None} :
        /\ House!Become(r, [House!NoRequest EXCEPT !.at = "session", !.who = p, !.key = k, !.dev = d])
        /\ d # None => House!There(d) /\ device[d].owner = p
  BY DEF House!Claim
<1> DEFINE to == [House!NoRequest EXCEPT !.at = "session", !.who = p, !.key = k, !.dev = d]
<1>2. House!Become(r, to) /\ to.at = "session" /\ to.who = p /\ to.dev = d
  BY <1>1 DEF House!NoRequest
<1>3. House!At(r, "idle") /\ House!Member(p) /\ UNCHANGED <<House!inviteVars, House!deviceVars, House!sessVars>>
  BY DEF House!Claim, House!Arrives
<1> HIDE DEF to
<1>4. NoneJoin /\ NoneLocks /\ LinkersStay /\ KnownStays
  BY <1>1, <1>2, <1>3, Effects DEF HouseInv, House!At, House!Member, House!There, Acting,
      House!inviteVars, House!deviceVars
<1>5. InvInvites'
  BY <1>3, <1>4, InvitesStay DEF HouseInv, House!inviteVars
<1>6. InvDevices'
  BY <1>3, <1>4, DevicesStay DEF HouseInv, House!deviceVars
<1>7. TiesStay
  BY <1>3, <1>4, LinkersTie DEF House!deviceVars
<1>8. SessionsStay
  BY <1>3 DEF HouseInv, InvMembers, SessionsTied, SessionsStay, House!Member, House!There,
      House!inviteVars, House!deviceVars, House!sessVars
<1>9. OwnersStay
  BY <1>3 DEF HouseInv, InvMembers, OwnersTied, OwnersStay, House!Member, House!There,
      House!inviteVars, House!deviceVars
<1>10. ReadyTied'
  <2> SUFFICES ASSUME NEW q \in Requests, (House!At(q, "session") /\ House!There(hreq[q].dev) /\ House!Member(hreq[q].who))'
               PROVE  (Tied(hreq[q].dev, hreq[q].who))'
    BY DEF ReadyTied
  <2>1. CASE q = r
    <3>1. hreq'[q].dev = d /\ hreq'[q].who = p
      BY <1>2, <2>1 DEF House!Become, HouseInv, HouseTypes, House!TypeOK
    <3>2. House!There(d) /\ device[d].owner = p
      BY <1>1, <3>1 DEF House!There
    <3>3. d \in Devices /\ Tied(d, p)
      BY <3>2 DEF House!There, HouseInv, InvMembers, OwnersTied
    <3>4. House!There(d)' /\ House!Member(p)'
      BY <1>3, <3>2 DEF House!There, House!Member, House!inviteVars, House!deviceVars
    <3> QED  BY <1>7, <3>1, <3>3, <3>4 DEF TiesStay
  <2>2. CASE q # r
    <3>1. hreq'[q] = hreq[q]
      BY <1>2, <2>2 DEF House!Become, HouseInv, HouseTypes, House!TypeOK
    <3>2. PICK w \in Members \cup {None}, e \in Devices \cup {None} : w = hreq[q].who /\ e = hreq[q].dev
      BY DEF HouseInv, HouseTypes, House!TypeOK
    <3>3. House!At(q, "session") /\ House!There(e) /\ House!Member(w) /\ House!There(e)' /\ House!Member(w)'
      BY <1>3, <3>1, <3>2 DEF House!At, House!There, House!Member, House!inviteVars,
          House!deviceVars
    <3>4. w \in Members /\ e \in Devices /\ Tied(e, w)
      BY <3>2, <3>3 DEF House!There, House!At, HouseInv, HouseTypes, Requesting, HouseRequests,
          InvMembers, ReadyTied
    <3> QED  BY <1>7, <3>1, <3>2, <3>3, <3>4 DEF TiesStay
  <2> QED  BY <2>1, <2>2
<1>11. Known'
  BY <1>3, <1>4 DEF KnownStays, HouseInv, InvMembers, Known, House!inviteVars, House!deviceVars
<1>12. InvMembers'
  BY <1>7, <1>8, <1>9, <1>10, <1>11, SessionsAreTied, OwnersAreTied DEF HouseInv, InvMembers
<1> QED  BY <1>5, <1>6, <1>12

LEMMA UpsertKeepsAll ==
  ASSUME HouseInv, NEW r \in Requests, House!UpsertDevice(r)
  PROVE  InvInvites' /\ InvDevices' /\ InvMembers'
<1>1. UNCHANGED <<House!inviteVars, links, unlinked, House!sessVars>>
  BY DEF House!UpsertDevice
<1>2. InvDevices'
  BY UpsertKeeps DEF HouseInv
<1>3. CASE House!Done(r) /\ UNCHANGED device
  BY <1>1, <1>3, EndEffects, QuietKeeps DEF HouseInv, House!UpsertDevice, House!deviceVars
<1>4. CASE ~(House!Done(r) /\ UNCHANGED device)
  <2>1. PICK d \in Devices, at \in {"link", "linkOnly"} :
          /\ House!Claimable(r, d)
          /\ device' = [device EXCEPT ![d] = [at |-> "there", key |-> hreq[r].key, owner |-> hreq[r].who]]
          /\ House!Become(r, [hreq[r] EXCEPT !.at = at, !.dev = d])
    BY <1>4 DEF House!UpsertDevice
  <2>2. PICK p \in Members : p = hreq[r].who
    BY DEF House!UpsertDevice, HouseInv, HouseTypes, Requesting, HouseRequests
  <2> DEFINE to == [hreq[r] EXCEPT !.at = at, !.dev = d]
  <2>3. House!Become(r, to) /\ to.at = at /\ to.dev = d /\ to.who = p
    BY <2>1, <2>2 DEF HouseInv, HouseTypes, House!TypeOK
  <2> HIDE DEF to
  <2>4. device'[d].at = "there" /\ device'[d].owner = p /\ device[d].at \in {"none", "there"}
    BY <2>1, <2>2 DEF House!Claimable, House!Created, House!There, HouseInv, HouseTypes,
        House!TypeOK
  <2>5. \A e \in Devices \ {d} : device'[e] = device[e]
    BY <2>1 DEF HouseInv, HouseTypes, House!TypeOK
  <2>6. House!Member(p) /\ account' = account
    BY <1>1, <2>1, <2>2 DEF House!Claimable, House!inviteVars
  <2>7. NoneJoin /\ LinkersStay /\ NoneReady /\ KnownStays
    BY <2>3, <2>4, <2>6, Effects DEF House!UpsertDevice, HouseInv, House!Member
  <2>8. InvInvites'
    BY <1>1, <2>7, InvitesStay DEF HouseInv, House!inviteVars
  <2>9. TiesStay
    BY <1>1, <2>7, LinkersTie
  <2>10. Tied(d, p)'
    <3>1. hreq'[r] = to
      BY <2>3 DEF House!Become, HouseInv, HouseTypes, House!TypeOK
    <3> QED  BY <2>3, <3>1 DEF Tied, House!Linking
  <2>11. \A e \in Devices : House!There(e) => House!There(e)'
    BY <2>4, <2>5 DEF House!There
  <2>12. SessionsStay
    <3> SUFFICES ASSUME NEW s \in Sessions, bound'[s].at = "live"
                 PROVE  /\ bound[s].at = "live" /\ bound'[s].by = bound[s].by
                        /\ bound'[s].on \in {bound[s].on, None}
                        /\ account'[bound[s].by] = "there"
                        /\ bound'[s].on # None => device'[bound[s].on].at = "there"
      BY DEF SessionsStay
    <3>1. bound' = bound
      BY <1>1 DEF House!sessVars
    <3>2. House!Member(bound[s].by) /\ (bound[s].on # None => House!There(bound[s].on))
      BY <3>1 DEF HouseInv, InvMembers, SessionsTied
    <3>3. bound[s].on \in Devices \cup {None}
      BY DEF HouseInv, HouseTypes, House!TypeOK
    <3> QED  BY <3>1, <3>2, <3>3, <2>6, <2>11 DEF House!Member, House!There
  <2>13. OwnersTied'
    <3> SUFFICES ASSUME NEW e \in Devices, House!There(e)'
                 PROVE  (device[e].owner \in Members /\ House!Member(device[e].owner) /\ Tied(e, device[e].owner))'
      BY DEF OwnersTied
    <3>1. CASE e = d
      BY <3>1, <2>4, <2>6, <2>10 DEF House!Member
    <3>2. CASE e # d
      <4>1. House!There(e) /\ device'[e].owner = device[e].owner
        BY <3>2, <2>5 DEF House!There
      <4>2. PICK o \in Members : o = device[e].owner
        BY <4>1 DEF HouseInv, InvMembers, OwnersTied
      <4>3. House!Member(o) /\ Tied(e, o)
        BY <4>1, <4>2 DEF HouseInv, InvMembers, OwnersTied
      <4>4. House!Member(o)' /\ Tied(e, o)'
        BY <4>3, <2>6, <2>9 DEF TiesStay, House!Member
      <4> QED  BY <4>1, <4>2, <4>4
    <3> QED  BY <3>1, <3>2
  <2>14. ReadyStay
    <3> SUFFICES ASSUME NEW q \in Requests, (House!At(q, "session") /\ House!There(hreq[q].dev) /\ House!Member(hreq[q].who))'
                 PROVE  hreq'[q] = hreq[q] /\ House!There(hreq[q].dev) /\ House!Member(hreq[q].who)
      BY DEF ReadyStay
    <3>1. hreq'[q] = hreq[q]
      BY <2>7 DEF NoneReady, House!There
    <3>2. hreq[q].dev \in Devices /\ device[hreq[q].dev].at # "none"
      BY <3>1 DEF House!There, HouseInv, HouseTypes, House!TypeOK, InvMembers, Known
    <3>3. House!There(hreq[q].dev)
      BY <3>1, <3>2, <2>4, <2>5 DEF House!There
    <3> QED  BY <3>1, <3>3, <2>6 DEF House!Member
  <2>15. Known'
    <3>1. ASSUME NEW q \in Requests, hreq'[q] = hreq[q]
          PROVE  (/\ hreq[q].at \in Acting => account[hreq[q].who] # "none"
                  /\ hreq[q].dev # None => device[hreq[q].dev].at # "none")'
      <4>1. hreq[q].dev \in Devices \cup {None}
        BY DEF HouseInv, HouseTypes, House!TypeOK
      <4> QED  BY <3>1, <4>1, <2>4, <2>5, <2>6 DEF HouseInv, InvMembers, Known
    <3> QED  BY <3>1, <2>7 DEF KnownStays, Known
  <2>16. InvMembers'
    BY <2>9, <2>12, <2>13, <2>14, <2>15, SessionsAreTied, ReadyAreTied DEF HouseInv, InvMembers
  <2> QED  BY <1>2, <2>8, <2>16
<1> QED  BY <1>3, <1>4

LEMMA LinksKeepAll ==
  ASSUME HouseInv, NEW r \in Requests, House!LinkDevice(r) \/ House!LinkFails(r)
  PROVE  InvInvites' /\ InvDevices' /\ InvMembers'
<1>1. UNCHANGED <<House!inviteVars, device, House!sessVars>>
  BY DEF House!LinkDevice, House!LinkFails
<1>2. PICK d \in Devices, p \in Members : d = hreq[r].dev /\ p = hreq[r].who
  BY DEF House!LinkDevice, House!LinkFails, HouseInv, HouseTypes, Requesting, HouseRequests
<1>3. hreq[r].at \in {"link", "linkOnly"} /\ House!AfterLink(r)
  BY DEF House!LinkDevice, House!LinkFails
<1>4. /\ links \subseteq links' /\ unlinked \subseteq unlinked'
      /\ House!There(d) /\ House!Member(p) => <<d, p>> \in links' \cup unlinked'
  BY <1>2 DEF House!LinkDevice, House!LinkFails
<1>5. NoneJoin /\ NoneLocks /\ KnownStays /\ (\A q \in Requests \ {r} : hreq'[q] = hreq[q])
      /\ (House!At(r, "session")' => hreq'[r].dev = d /\ hreq'[r].who = p)
  <2>1. CASE House!Done(r)
    <3>1. hreq'[r].at = "done" /\ \A q \in Requests \ {r} : hreq'[q] = hreq[q]
      BY <2>1 DEF House!Done, House!Become, House!NoRequest, HouseInv, HouseTypes, House!TypeOK
    <3> QED  BY <2>1, <3>1, EndEffects DEF HouseInv, House!At
  <2>2. CASE House!Become(r, [hreq[r] EXCEPT !.at = "session"])
    <3> DEFINE to == [hreq[r] EXCEPT !.at = "session"]
    <3>1. House!Become(r, to) /\ to.at = "session" /\ to.dev = d /\ to.who = p
      BY <2>2, <1>2 DEF HouseInv, HouseTypes, House!TypeOK
    <3> HIDE DEF to
    <3>2. hreq'[r] = to /\ \A q \in Requests \ {r} : hreq'[q] = hreq[q]
      BY <3>1 DEF House!Become, HouseInv, HouseTypes, House!TypeOK
    <3>3. account'[p] # "none" /\ device'[d].at # "none"
      BY <1>1, <1>2, <1>3 DEF HouseInv, InvMembers, Known, Acting, House!inviteVars
    <3> QED  BY <3>1, <3>2, <3>3, Effects DEF HouseInv
  <2> QED  BY <1>3, <2>1, <2>2 DEF House!AfterLink
<1>6. InvInvites'
  BY <1>1, <1>5, InvitesStay DEF HouseInv, House!inviteVars
<1>7. InvDevices'
  BY <1>1, <1>5, DevicesStay DEF HouseInv
<1>8. TiesStay
  <2> SUFFICES ASSUME NEW e \in Devices, NEW w \in Members, House!There(e)', House!Member(w)', Tied(e, w)
               PROVE  Tied(e, w)'
    BY DEF TiesStay
  <2>1. House!There(e) /\ House!Member(w)
    BY <1>1 DEF House!There, House!Member, House!inviteVars
  <2>2. CASE <<e, w>> \in links \cup unlinked
    BY <2>2, <1>4 DEF Tied
  <2>3. CASE e = d /\ w = p
    BY <2>1, <2>3, <1>4 DEF Tied
  <2>4. CASE ~(e = d /\ w = p) /\ House!Linking(e, w)
    <3>1. PICK q \in Requests : hreq[q].at \in {"link", "linkOnly"} /\ hreq[q].dev = e /\ hreq[q].who = w
      BY <2>4 DEF House!Linking
    <3>2. hreq'[q] = hreq[q]
      BY <1>2, <1>5, <2>4, <3>1
    <3> QED  BY <3>1, <3>2 DEF Tied, House!Linking
  <2> QED  BY <2>2, <2>3, <2>4 DEF Tied
<1>9. SessionsStay
  BY <1>1 DEF HouseInv, InvMembers, SessionsTied, SessionsStay, House!Member, House!There,
      House!inviteVars, House!sessVars
<1>10. OwnersStay
  BY <1>1 DEF HouseInv, InvMembers, OwnersTied, OwnersStay, House!Member, House!There,
      House!inviteVars
<1>11. ReadyTied'
  <2> SUFFICES ASSUME NEW q \in Requests, (House!At(q, "session") /\ House!There(hreq[q].dev) /\ House!Member(hreq[q].who))'
               PROVE  (Tied(hreq[q].dev, hreq[q].who))'
    BY DEF ReadyTied
  <2>1. CASE q = r
    <3>1. hreq'[q].dev = d /\ hreq'[q].who = p
      BY <1>5, <2>1
    <3>2. House!There(d) /\ House!Member(p)
      BY <3>1, <1>1 DEF House!There, House!Member, House!inviteVars
    <3> QED  BY <3>1, <3>2, <1>4 DEF Tied
  <2>2. CASE q # r
    <3>1. hreq'[q] = hreq[q]
      BY <1>5, <2>2
    <3>2. PICK w \in Members \cup {None}, e \in Devices \cup {None} : w = hreq[q].who /\ e = hreq[q].dev
      BY DEF HouseInv, HouseTypes, House!TypeOK
    <3>3. House!At(q, "session") /\ House!There(e) /\ House!Member(w) /\ House!There(e)' /\ House!Member(w)'
      BY <1>1, <3>1, <3>2 DEF House!At, House!There, House!Member, House!inviteVars
    <3>4. w \in Members /\ e \in Devices /\ Tied(e, w)
      BY <3>2, <3>3 DEF House!There, House!At, HouseInv, HouseTypes, Requesting, HouseRequests,
          InvMembers, ReadyTied
    <3> QED  BY <1>8, <3>1, <3>2, <3>3, <3>4 DEF TiesStay
  <2> QED  BY <2>1, <2>2
<1>12. Known'
  BY <1>1, <1>5 DEF KnownStays, HouseInv, InvMembers, Known, House!inviteVars
<1>13. InvMembers'
  BY <1>8, <1>9, <1>10, <1>11, <1>12, SessionsAreTied, OwnersAreTied DEF HouseInv, InvMembers
<1> QED  BY <1>6, <1>7, <1>13

(* The revocations and the deletions end their request or lock a device:    *)
(* no request gets ready or starts to link.                                 *)
LEMMA RevokingMoves ==
  ASSUME HouseInv, NEW r \in Requests,
         House!RevokeSessions(r) \/ House!DropDevice(r) \/ House!OpenSession(r) \/ \E p \in Members : House!DeleteAccount(r, p)
  PROVE  /\ NoneJoin /\ LinkersStay /\ NoneReady
         /\ \A q \in Requests : hreq'[q] = hreq[q] \/ hreq'[q].dev \in {None, hreq[q].dev}
         /\ \A q \in Requests : hreq'[q] = hreq[q] \/ hreq'[q].at \notin Acting
<1>1. CASE House!Done(r) /\ hreq[r].at \notin {"link", "linkOnly"}
  <2>1. hreq'[r].at = "done" /\ hreq'[r].dev = None /\ \A q \in Requests \ {r} : hreq'[q] = hreq[q]
    BY <1>1 DEF House!Done, House!Become, House!NoRequest, HouseInv, HouseTypes, House!TypeOK
  <2> QED  BY <1>1, <2>1, EndEffects DEF HouseInv, Acting
<1>2. CASE House!RevokeSessions(r)
  <2> DEFINE to == [hreq[r] EXCEPT !.at = "drop"]
  <2>1. House!Become(r, to) /\ to.at = "drop" /\ to.dev = hreq[r].dev
    BY <1>2 DEF House!RevokeSessions, HouseInv, HouseTypes, House!TypeOK
  <2> HIDE DEF to
  <2>2. hreq'[r] = to /\ \A q \in Requests \ {r} : hreq'[q] = hreq[q]
    BY <2>1 DEF House!Become, HouseInv, HouseTypes, House!TypeOK
  <2> QED  BY <1>2, <2>1, <2>2, Effects DEF House!RevokeSessions, House!At, HouseInv, Acting
<1> QED  BY <1>1, <1>2 DEF House!DropDevice, House!OpenSession, House!DeleteAccount, House!Arrives,
           House!At

LEMMA KnownKept ==
  ASSUME HouseTypes, Known,
         \A q \in Requests : hreq'[q] = hreq[q] \/ (hreq'[q].dev \in {None, hreq[q].dev} /\ hreq'[q].at \notin Acting),
         \A p \in Members : account[p] # "none" => account'[p] # "none",
         \A d \in Devices : device[d].at # "none" => device'[d].at # "none"
  PROVE  Known'
<1> SUFFICES ASSUME NEW q \in Requests
             PROVE  (/\ hreq[q].at \in Acting => account[hreq[q].who] # "none"
                     /\ hreq[q].dev # None => device[hreq[q].dev].at # "none")'
  BY DEF Known
<1>1. hreq[q].dev \in Devices \cup {None} /\ (hreq[q].at \in Acting => hreq[q].who \in Members)
  BY DEF HouseTypes, House!TypeOK, Requesting, HouseRequests, Acting
<1> QED  BY <1>1 DEF Known

LEMMA OpenKeepsAll ==
  ASSUME HouseInv, NEW r \in Requests, House!OpenSession(r)
  PROVE  InvInvites' /\ InvDevices' /\ InvMembers'
<1>1. UNCHANGED <<House!inviteVars, House!deviceVars>>
  BY DEF House!OpenSession
<1>2. InvInvites'
  BY <1>1, RevokingMoves, InvitesStay DEF HouseInv, House!inviteVars
<1>3. InvDevices'
  BY OpenKeeps DEF HouseInv
<1>4. TiesStay
  BY <1>1, RevokingMoves, LinkersTie DEF House!deviceVars
<1>5. PICK p \in Members, d \in Devices \cup {None} : p = hreq[r].who /\ d = hreq[r].dev
  BY DEF House!OpenSession, House!At, HouseInv, HouseTypes, Requesting, HouseRequests
<1>6. SessionsTied'
  <2> SUFFICES ASSUME NEW s \in Sessions, (bound[s].at = "live")'
               PROVE  (/\ bound[s].by \in Members /\ House!Member(bound[s].by)
                       /\ bound[s].on # None => House!There(bound[s].on) /\ Tied(bound[s].on, bound[s].by))'
    BY DEF SessionsTied
  <2>1. CASE bound'[s] = bound[s]
    <3>1. PICK w \in Members, e \in Devices \cup {None} : w = bound[s].by /\ e = bound[s].on
      BY <2>1 DEF HouseInv, HouseTypes, House!TypeOK, InvMembers, SessionsTied
    <3>2. House!Member(w) /\ (e # None => House!There(e) /\ Tied(e, w))
      BY <2>1, <3>1 DEF HouseInv, InvMembers, SessionsTied
    <3>3. House!Member(w)' /\ (e # None => House!There(e)' /\ Tied(e, w)')
      BY <1>1, <1>4, <3>2 DEF TiesStay, House!Member, House!There, House!inviteVars,
          House!deviceVars
    <3> QED  BY <2>1, <3>1, <3>3
  <2>2. CASE bound'[s] # bound[s]
    <3>1. House!Member(p) /\ (d = None \/ House!There(d)) /\ bound'[s] = [at |-> "live", by |-> p, on |-> d, first |-> d]
      BY <1>5, <2>2 DEF House!OpenSession, House!sessVars, HouseInv, HouseTypes, House!TypeOK
    <3>2. House!Member(p)' /\ (d # None => House!There(d)')
      BY <1>1, <3>1 DEF House!Member, House!There, House!inviteVars, House!deviceVars
    <3>3. d # None => Tied(d, p)
      BY <1>5, <3>1 DEF House!OpenSession, HouseInv, InvMembers, ReadyTied
    <3> QED  BY <1>4, <3>1, <3>2, <3>3 DEF TiesStay
  <2> QED  BY <2>1, <2>2
<1>7. OwnersStay
  BY <1>1 DEF HouseInv, InvMembers, OwnersTied, OwnersStay, House!Member, House!There,
      House!inviteVars, House!deviceVars
<1>8. ReadyStay
  BY <1>1, RevokingMoves DEF NoneReady, ReadyStay, House!There, House!Member, House!At,
      House!inviteVars, House!deviceVars
<1>9. Known'
  BY <1>1, RevokingMoves, KnownKept DEF HouseInv, InvMembers, House!inviteVars, House!deviceVars
<1> QED  BY <1>2, <1>3, <1>4, <1>6, <1>7, <1>8, <1>9, OwnersAreTied, ReadyAreTied DEF HouseInv,
           InvMembers

LEMMA RevokeKeepsAll ==
  ASSUME HouseInv, NEW r \in Requests, House!RevokeSessions(r)
  PROVE  InvInvites' /\ InvDevices' /\ InvMembers'
<1>1. UNCHANGED <<House!inviteVars, House!deviceVars, late>>
  BY DEF House!RevokeSessions
<1>2. InvInvites'
  BY <1>1, RevokingMoves, InvitesStay DEF HouseInv, House!inviteVars
<1>3. InvDevices'
  BY RevokeKeeps DEF HouseInv
<1>4. TiesStay
  BY <1>1, RevokingMoves, LinkersTie DEF House!deviceVars
<1>5. \A s \in Sessions : bound'[s].at = "live" => bound'[s] = bound[s]
  BY DEF House!RevokeSessions, HouseInv, HouseTypes, House!TypeOK
<1>6. SessionsStay
  BY <1>1, <1>5 DEF HouseInv, InvMembers, SessionsTied, SessionsStay, House!Member, House!There,
      House!inviteVars, House!deviceVars
<1>7. OwnersStay
  BY <1>1 DEF HouseInv, InvMembers, OwnersTied, OwnersStay, House!Member, House!There,
      House!inviteVars, House!deviceVars
<1>8. ReadyStay
  BY <1>1, RevokingMoves DEF NoneReady, ReadyStay, House!There, House!Member, House!At,
      House!inviteVars, House!deviceVars
<1>9. Known'
  BY <1>1, RevokingMoves, KnownKept DEF HouseInv, InvMembers, House!inviteVars, House!deviceVars
<1> QED  BY <1>2, <1>3, <1>4, <1>6, <1>7, <1>8, <1>9, SessionsAreTied, OwnersAreTied, ReadyAreTied
         DEF HouseInv, InvMembers

(* What goes with a device: its links, and sessions are cut loose. *)
LEMMA DropKeepsAll ==
  ASSUME HouseInv, NEW r \in Requests, House!DropDevice(r)
  PROVE  InvInvites' /\ InvDevices' /\ InvMembers'
<1>1. UNCHANGED <<House!inviteVars, unlinked, late>>
  BY DEF House!DropDevice
<1>2. InvInvites'
  BY <1>1, RevokingMoves, InvitesStay DEF HouseInv, House!inviteVars
<1>3. InvDevices'
  BY DropKeeps DEF HouseInv
<1>4. PICK d \in Devices : d = hreq[r].dev
  BY DEF House!DropDevice, House!At, HouseInv, HouseTypes, Requesting, HouseRequests
<1>5. CASE UNCHANGED <<device, links, bound>>
  <2>1. KnownStays
    BY EndEffects DEF House!DropDevice, HouseInv
  <2>2. InvMembers'
    BY <1>1, <1>5, <2>1, RevokingMoves, MembersStay DEF HouseInv, House!inviteVars
  <2> QED  BY <1>2, <1>3, <2>2
<1>6. CASE ~UNCHANGED <<device, links, bound>>
  <2>1. /\ House!There(d) /\ device' = [device EXCEPT ![d].at = "revoked"]
        /\ links' = {l \in links : l[1] # d} /\ bound' = House!Unbind({d})
    BY <1>4, <1>6 DEF House!DropDevice
  <2>2. device'[d].at = "revoked" /\ \A e \in Devices \ {d} : device'[e] = device[e]
    BY <2>1 DEF HouseInv, HouseTypes, House!TypeOK
  <2>3. ASSUME NEW s \in Sessions
        PROVE  /\ bound'[s].at = bound[s].at /\ bound'[s].by = bound[s].by
               /\ bound'[s].on = IF bound[s].on = d THEN None ELSE bound[s].on
    BY <2>1 DEF House!Unbind, HouseInv, HouseTypes, House!TypeOK
  <2>4. TiesStay
    BY <1>1, <2>1, <2>2, RevokingMoves DEF TiesStay, Tied, House!Linking, LinkersStay, House!There
  <2>5. SessionsStay
    <3> SUFFICES ASSUME NEW s \in Sessions, bound'[s].at = "live"
                 PROVE  /\ bound[s].at = "live" /\ bound'[s].by = bound[s].by
                        /\ bound'[s].on \in {bound[s].on, None}
                        /\ account'[bound[s].by] = "there"
                        /\ bound'[s].on # None => device'[bound[s].on].at = "there"
      BY DEF SessionsStay
    <3>1. bound[s].at = "live" /\ bound[s].on \in Devices \cup {None}
      BY <2>3 DEF HouseInv, HouseTypes, House!TypeOK
    <3>2. account[bound[s].by] = "there" /\ (bound[s].on # None => device[bound[s].on].at = "there")
      BY <3>1 DEF HouseInv, InvMembers, SessionsTied, House!Member, House!There
    <3> QED  BY <1>1, <2>2, <2>3, <3>1, <3>2 DEF House!inviteVars
  <2>6. OwnersStay
    BY <1>1, <2>2 DEF HouseInv, InvMembers, OwnersTied, OwnersStay, House!Member, House!There,
        House!inviteVars
  <2>7. ReadyStay
    <3> SUFFICES ASSUME NEW q \in Requests, (House!At(q, "session") /\ House!There(hreq[q].dev) /\ House!Member(hreq[q].who))'
                 PROVE  hreq'[q] = hreq[q] /\ House!There(hreq[q].dev) /\ House!Member(hreq[q].who)
      BY DEF ReadyStay
    <3>1. hreq'[q] = hreq[q]
      BY RevokingMoves DEF NoneReady, House!There
    <3>2. hreq[q].dev \in Devices
      BY <3>1 DEF House!There, HouseInv, HouseTypes, House!TypeOK
    <3> QED  BY <1>1, <2>2, <3>1, <3>2 DEF House!There, House!Member, House!inviteVars
  <2>8. Known'
    BY <1>1, <2>2, RevokingMoves, KnownKept DEF HouseInv, InvMembers, House!inviteVars
  <2> QED  BY <1>2, <1>3, <2>4, <2>5, <2>6, <2>7, <2>8, SessionsAreTied, OwnersAreTied, ReadyAreTied
           DEF HouseInv, InvMembers
<1> QED  BY <1>5, <1>6

LEMMA DeleteKeepsAll ==
  ASSUME HouseInv, NEW r \in Requests, NEW p \in Members, House!DeleteAccount(r, p)
  PROVE  InvInvites' /\ InvDevices' /\ InvMembers'
<1>1. UNCHANGED <<invite, enrolled, raced, unlinked, late>>
  BY DEF House!DeleteAccount
<1>2. InvInvites'
  BY <1>1, RevokingMoves, InvitesStay DEF HouseInv
<1>3. InvDevices'
  BY DeleteKeeps DEF HouseInv
<1>4. PICK ds \in SUBSET Devices : ds = {d \in Devices : House!There(d) /\ device[d].owner = p}
  OBVIOUS
<1>5. ASSUME NEW d \in Devices
      PROVE  /\ d \in ds => device'[d].at = "deleted"
             /\ d \notin ds => device'[d] = device[d]
  <2>1. device'[d] = IF d \in ds THEN [device[d] EXCEPT !.at = "deleted"] ELSE device[d]
    BY <1>4 DEF House!DeleteAccount
  <2> QED  BY <2>1 DEF HouseInv, HouseTypes, House!TypeOK
<1>6. \A q \in Members : account'[q] = IF q = p THEN "deleted" ELSE account[q]
  BY DEF House!DeleteAccount, HouseInv, HouseTypes, House!TypeOK
<1>7. links' = {l \in links : l[1] \notin ds /\ l[2] # p}
  BY <1>4 DEF House!DeleteAccount
<1>8. ASSUME NEW s \in Sessions, bound'[s].at = "live"
      PROVE  /\ bound[s].at = "live" /\ bound'[s].by = bound[s].by /\ bound[s].by # p
             /\ bound'[s].on = IF bound[s].on \in ds THEN None ELSE bound[s].on
  <2>1. bound'[s] = IF bound[s].by = p THEN [bound[s] EXCEPT !.at = "deleted", !.on = None]
                    ELSE House!Unbind(ds)[s]
    BY <1>4 DEF House!DeleteAccount
  <2>2. House!Unbind(ds)[s] = IF bound[s].on \in ds THEN [bound[s] EXCEPT !.on = None] ELSE bound[s]
    BY DEF House!Unbind
  <2> QED  BY <1>8, <2>1, <2>2 DEF HouseInv, HouseTypes, House!TypeOK
<1>9. TiesStay
  BY <1>1, <1>5, <1>6, <1>7, RevokingMoves DEF TiesStay, Tied, House!Linking, LinkersStay,
      House!There, House!Member
<1>10. SessionsStay
  <2> SUFFICES ASSUME NEW s \in Sessions, bound'[s].at = "live"
               PROVE  /\ bound[s].at = "live" /\ bound'[s].by = bound[s].by
                      /\ bound'[s].on \in {bound[s].on, None}
                      /\ account'[bound[s].by] = "there"
                      /\ bound'[s].on # None => device'[bound[s].on].at = "there"
    BY DEF SessionsStay
  <2>1. bound[s].at = "live" /\ bound[s].on \in Devices \cup {None}
    BY <1>8 DEF HouseInv, HouseTypes, House!TypeOK
  <2>2. /\ bound[s].by \in Members /\ account[bound[s].by] = "there"
        /\ bound[s].on # None => device[bound[s].on].at = "there"
    BY <2>1 DEF HouseInv, InvMembers, SessionsTied, House!Member, House!There
  <2> QED  BY <1>5, <1>6, <1>8, <2>1, <2>2
<1>11. OwnersStay
  <2> SUFFICES ASSUME NEW d \in Devices, House!There(d)'
               PROVE  House!There(d) /\ device'[d].owner = device[d].owner /\ account'[device[d].owner] = "there"
    BY DEF OwnersStay
  <2>1. d \notin ds /\ device'[d] = device[d] /\ House!There(d)
    BY <1>5 DEF House!There
  <2>2. device[d].owner \in Members /\ account[device[d].owner] = "there" /\ device[d].owner # p
    BY <1>4, <2>1 DEF HouseInv, InvMembers, OwnersTied, House!Member
  <2> QED  BY <1>6, <2>1, <2>2
<1>12. ReadyStay
  <2> SUFFICES ASSUME NEW q \in Requests, (House!At(q, "session") /\ House!There(hreq[q].dev) /\ House!Member(hreq[q].who))'
               PROVE  hreq'[q] = hreq[q] /\ House!There(hreq[q].dev) /\ House!Member(hreq[q].who)
    BY DEF ReadyStay
  <2>1. hreq'[q] = hreq[q]
    BY RevokingMoves DEF NoneReady, House!There
  <2>2. hreq[q].dev \in Devices /\ hreq[q].who \in Members
    BY <2>1 DEF House!There, House!At, HouseInv, HouseTypes, House!TypeOK, Requesting, HouseRequests
  <2> QED  BY <1>5, <1>6, <2>1, <2>2 DEF House!There, House!Member
<1>13. Known'
  <2>1. \A d \in Devices : device[d].at # "none" => device'[d].at # "none"
    BY <1>5
  <2>2. \A q \in Members : account[q] # "none" => account'[q] # "none"
    BY <1>6
  <2> QED  BY <2>1, <2>2, RevokingMoves, KnownKept DEF HouseInv, InvMembers
<1> QED  BY <1>2, <1>3, <1>9, <1>10, <1>11, <1>12, <1>13, SessionsAreTied, OwnersAreTied,
           ReadyAreTied
         DEF HouseInv, InvMembers

-----------------------------------------------------------------------------
LEMMA InitHouse == House!Init => HouseInv
<1> SUFFICES ASSUME House!Init PROVE HouseInv
  OBVIOUS
<1>1. HouseTypes
  BY InitHouseTypes
<1>2. \A i \in Invites : Enrolled(i) = {} /\ raced[i] = 0 /\ invite[i] = "none"
  BY DEF House!Init, Enrolled
<1>3. InvInvites
  <2>1. Cardinality({}) = 0
    BY FS_EmptySet
  <2> SUFFICES ASSUME NEW i \in Invites
               PROVE  Cardinality(Enrolled(i)) <= 1 + raced[i]
    BY <1>2 DEF InvInvites
  <2>2. Cardinality(Enrolled(i)) = 0
    BY <1>2, <2>1, Zenon
  <2> QED  BY <1>2, <2>2
<1>4. \A s \in Sessions : bound[s].at = "none"
  BY DEF House!Init, House!NoSession
<1>5. \A d \in Devices : device[d].at = "none"
  BY DEF House!Init, House!NoDevice
<1>6. \A r \in Requests : hreq[r].at = "idle" /\ hreq[r].dev = None
  BY DEF House!Init, House!NoRequest
<1>7. InvDevices
  BY <1>4, <1>6 DEF InvDevices, House!At
<1>8. SessionsTied /\ ReadyTied /\ Known
  BY <1>4, <1>6 DEF SessionsTied, ReadyTied, Known, House!At, Acting
<1>9. OwnersTied
  BY <1>5 DEF OwnersTied, House!There
<1> QED  BY <1>1, <1>3, <1>7, <1>8, <1>9 DEF HouseInv, InvMembers

LEMMA HouseStep ==
  ASSUME HouseInv, House!Next
  PROVE  HouseInv'
<1>1. InvInvites' /\ InvDevices' /\ InvMembers'
  <2>1. ASSUME NEW r \in Requests, House!Call(r)
        PROVE  <1>1
    <3>1. \/ \E i \in Invites : House!CreateInvite(r, i) \/ House!DeleteInvite(r, i)
          \/ \E p \in Members : House!DeleteAccount(r, p)
          \/ \E p \in Members, i \in Invites : House!Register(r, i, p)
          \/ \E p \in Members, k \in Keys : House!Claim(r, p, k)
          \/ \E p \in Members : \/ \E k \in Keys \cup {None} : House!Login(r, p, k)
                                \/ \E k \in Keys : House!AddDevice(r, p, k)
                                \/ \E d \in Devices : House!RevokeDevice(r, p, d)
      BY <2>1 DEF House!Call
    <3> QED  BY <3>1, InvitationsKeep, DeleteKeepsAll, RegisterKeepsAll, ClaimKeepsAll, CallsKeep
  <2>2. ASSUME NEW r \in Requests, House!Handle(r)
        PROVE  <1>1
    BY <2>2, LookupsKeep, EnrolKeepsAll, UpsertKeepsAll, LinksKeepAll, OpenKeepsAll,
        RevokeKeepsAll, DropKeepsAll DEF House!Handle
  <2>3. ASSUME NEW i \in Invites, House!ExpireInvite(i)
        PROVE  <1>1
    BY <2>3, InvitationsKeep
  <2> QED  BY <2>1, <2>2, <2>3 DEF House!Next
<1> QED  BY <1>1, HouseTypesKept DEF HouseInv

LEMMA HouseStutter ==
  ASSUME HouseInv, UNCHANGED House!vars
  PROVE  HouseInv'
<1>1. NoneJoin /\ NoneLocks /\ LinkersStay /\ NoneReady /\ KnownStays
  BY DEF House!vars, NoneJoin, NoneLocks, LinkersStay, NoneReady, KnownStays
<1>2. HouseTypes'
  BY DEF HouseInv, HouseTypes, House!TypeOK, House!vars, House!inviteVars, House!deviceVars,
      House!sessVars
<1> QED  BY <1>1, <1>2, QuietKeeps DEF HouseInv, House!vars

LEMMA HouseIsKept ==
  ASSUME HouseInv
  PROVE  House!TypeOK /\ House!InvitesAdmitOnce /\ House!DevicesTakeTheirSessions /\ House!MembersCanRevoke
<1>1. House!TypeOK
  BY DEF HouseInv, HouseTypes
<1>2. House!InvitesAdmitOnce
  <2>1. \A i \in Invites : House!Cardinality(Enrolled(i)) = Cardinality(Enrolled(i))
    BY HouseCounts
  <2> QED  BY <2>1 DEF HouseInv, InvInvites, Enrolled, House!InvitesAdmitOnce
<1>3. House!DevicesTakeTheirSessions
  BY DEF HouseInv, InvDevices, House!DevicesTakeTheirSessions
<1>4. House!MembersCanRevoke
  BY DEF HouseInv, InvMembers, SessionsTied, Tied, House!MembersCanRevoke
<1> QED  BY <1>1, <1>2, <1>3, <1>4
-----------------------------------------------------------------------------
(* In the suite the household's world moves by its own steps, and which    *)
(* world a behaviour is of never changes.                                  *)
LEMMA HouseMoves ==
  ASSUME [SuiteNext]_allvars
  PROVE  part' = part /\ (part = "house" => House!Next \/ UNCHANGED House!vars)
<1>1. CASE UNCHANGED allvars
  BY <1>1 DEF allvars, housevars, House!vars, House!inviteVars, House!deviceVars, House!sessVars
<1>2. CASE SuiteNext
  <2>1. part' = part
    BY <1>2 DEF SuiteNext, ServerOnly, HouseOnly, TvOnly
  <2>2. part = "house" => \/ \E i \in Invites : House!ExpireInvite(i)
                          \/ \E r \in Requests : House!Call(r) \/ House!Handle(r)
    BY <1>2 DEF SuiteNext, House!Handle
  <2> QED  BY <2>1, <2>2 DEF House!Next
<1> QED  BY <1>1, <1>2

(* However requests overlap, at every point where a handler waits: an       *)
(* invite admits no more accounts than had read it open when it was first  *)
(* used, a revoked device leaves no session live but one opened during the *)
(* revocation, and whoever has a session on a device may revoke it.        *)
THEOREM HouseholdKept == SuiteSpec => []HouseholdIsKept
<1> DEFINE Held == part = "house" => HouseInv
<1>1. SuiteInit => Held
  BY InitHouse DEF SuiteInit
<1>2. Held /\ [SuiteNext]_allvars => Held'
  BY HouseMoves, HouseStep, HouseStutter
<1>3. Held => HouseholdIsKept
  BY HouseIsKept DEF HouseholdIsKept
<1> QED  BY <1>1, <1>2, <1>3, PTL DEF SuiteSpec

-----------------------------------------------------------------------------
(* A TV's accounts and the calls of its page.                              *)

HIDE HouseWorld

KeptWell(s) ==
  /\ s \in Seq(Tv!Accounts)
  /\ \A i, j \in DOMAIN s : s[i].user = s[j].user => i = j
ActiveWell(s, act) == IF s = <<>> THEN act = None ELSE Tv!Has(s, act)
PagesKept == KeptWell(kept) /\ ActiveWell(kept, active)

CallRecords ==
  [at : {"idle", "sent", "waits", "renews", "again", "refused"}, token : Tv!Tokens]
PageTypes ==
  /\ calls \in [Calls -> CallRecords]
  /\ flight \in [session : 0..MaxSessions, got : {"none", "asked", "token", "refused", "lost"}]
  /\ pair.at \in {"off", "polls", "answer", "spent"} /\ leaving \in BOOLEAN
  /\ faults \in 0..MaxFaults

ServerTypes ==
  live \in [Tv!ServerSessions -> {"free", "live", "revoked"}] /\ logouts \subseteq Tv!ServerSessions

(* A session that was minted stays so, and only a revoked one refuses the  *)
(* token of a retry.                                                       *)
Minted(s) == s \in Tv!ServerSessions /\ live[s] # "free"
SessionsHold ==
  /\ pair.at = "answer" => pair.user \in Users /\ Minted(pair.session)
  /\ flight.got = "token" => Minted(flight.session)
  /\ \A c \in Calls : /\ calls[c].at = "again" => calls[c].token.fresh /\ Minted(calls[c].token.session)
                      /\ calls[c].at = "refused" => /\ Minted(calls[c].token.session)
                                                    /\ live[calls[c].token.session] = "revoked"

TvInv == PagesKept /\ PageTypes /\ ServerTypes /\ SessionsHold

LEMMA TvWorld == Tv!ClientSessionAssumption
  BY AccountWorlds

-----------------------------------------------------------------------------
(* Lists of accounts, each user once.                                      *)

LEMMA WithoutWell ==
  ASSUME NEW s, KeptWell(s), NEW u
  PROVE  /\ KeptWell(Tv!Without(s, u))
         /\ \A v : v # u /\ Tv!Has(s, v) => Tv!Has(Tv!Without(s, u), v)
         /\ Tv!Has(s, u) => Len(Tv!Without(s, u)) = Len(s) - 1
<1>1. CASE ~ Tv!Has(s, u)
  BY <1>1 DEF Tv!Without
<1>2. CASE Tv!Has(s, u)
  <2> DEFINE n == Len(s)
             k == CHOOSE i \in DOMAIN s : s[i].user = u
             w == Tv!RemoveAt(s, k)
             a == SubSeq(s, 1, k - 1)
             b == SubSeq(s, k + 1, n)
  <2>1. n \in Nat /\ DOMAIN s = 1..n /\ \A i \in 1..n : s[i] \in Tv!Accounts
    BY DEF KeptWell
  <2>2. \E i \in DOMAIN s : s[i].user = u
    BY <1>2 DEF Tv!Has, Tv!Range
  <2>3. k \in 1..n /\ s[k].user = u
    BY <2>1, <2>2
  <2>4. Tv!Without(s, u) = w /\ w = a \o b
    BY <1>2 DEF Tv!Without, Tv!RemoveAt
  <2> HIDE DEF k, n
  <2>5. /\ a \in Seq(Tv!Accounts) /\ Len(a) = k - 1 /\ \A i \in 1..k - 1 : a[i] = s[i]
    BY <2>1, <2>3, SubSeqProperties
  <2>6. b \in Seq(Tv!Accounts) /\ Len(b) = n - k /\ \A i \in 1..n - k : b[i] = s[k + i]
    <3>1. \A i \in k + 1..n : s[i] \in Tv!Accounts
      BY <2>1, <2>3
    <3>2. b \in Seq(Tv!Accounts)
      BY <2>1, <2>3, <3>1, SubSeqProperties
    <3>3. Len(b) = n - k
      BY <2>1, <2>3, <3>1, SubSeqProperties
    <3>4. \A i \in 1..n - (k + 1) + 1 : b[i] = s[k + 1 + i - 1]
      BY <2>1, <2>3, <3>1, SubSeqProperties
    <3> QED  BY <2>1, <2>3, <3>2, <3>3, <3>4
  <2> HIDE DEF a, b
  <2>7. /\ w \in Seq(Tv!Accounts) /\ Len(w) = n - 1
        /\ \A i \in 1..n - 1 : w[i] = IF i <= k - 1 THEN s[i] ELSE s[i + 1]
    <3> DEFINE ab == a \o b
    <3>1. ab \in Seq(Tv!Accounts) /\ Len(ab) = Len(a) + Len(b)
      BY <2>5, <2>6, ConcatProperties
    <3>2. \A i \in 1..Len(a) + Len(b) : ab[i] = IF i <= Len(a) THEN a[i] ELSE b[i - Len(a)]
      BY <2>5, <2>6, ConcatProperties
    <3>3. w = ab
      BY <2>4
    <3> HIDE DEF ab, w
    <3>4. Len(a) + Len(b) = n - 1 /\ Len(a) = k - 1
      BY <2>1, <2>3, <2>5, <2>6
    <3>5. ASSUME NEW i \in 1..n - 1
          PROVE  w[i] = IF i <= k - 1 THEN s[i] ELSE s[i + 1]
      <4>1. w[i] = IF i <= k - 1 THEN a[i] ELSE b[i - (k - 1)]
        BY <3>2, <3>3, <3>4
      <4>2. CASE i <= k - 1
        BY <2>1, <2>3, <2>5, <4>1, <4>2
      <4>3. CASE ~ (i <= k - 1)
        <5>1. i - (k - 1) \in 1..n - k /\ k + (i - (k - 1)) = i + 1
          BY <2>1, <2>3, <4>3
        <5> QED  BY <2>6, <4>1, <4>3, <5>1
      <4> QED  BY <4>2, <4>3
    <3> QED  BY <3>1, <3>3, <3>4, <3>5
  <2> HIDE DEF w
  <2>8. DOMAIN w = 1..n - 1
    BY <2>1, <2>7
  <2>9. ASSUME NEW i \in 1..n - 1, NEW j \in 1..n - 1, w[i].user = w[j].user
        PROVE  i = j
    <3> DEFINE p == IF i <= k - 1 THEN i ELSE i + 1
               q == IF j <= k - 1 THEN j ELSE j + 1
    <3>1. p \in 1..n /\ q \in 1..n /\ w[i] = s[p] /\ w[j] = s[q]
      BY <2>1, <2>3, <2>7
    <3>2. p = q
      BY <2>1, <2>9, <3>1 DEF KeptWell
    <3> QED  BY <2>1, <2>3, <3>2
  <2>10. ASSUME NEW v, v # u, Tv!Has(s, v)
         PROVE  Tv!Has(w, v)
    <3>1. PICK j \in 1..n : s[j].user = v
      BY <2>1, <2>10 DEF Tv!Has, Tv!Range
    <3>2. j # k
      BY <2>3, <2>10, <3>1
    <3>3. \E i \in 1..n - 1 : w[i] = s[j]
      <4>1. CASE j < k
        BY <2>1, <2>3, <2>7, <4>1
      <4>2. CASE j > k
        <5>1. j - 1 \in 1..n - 1 /\ ~ (j - 1 <= k - 1) /\ (j - 1) + 1 = j
          BY <2>1, <2>3, <4>2
        <5> QED  BY <2>7, <5>1
      <4> QED  BY <2>1, <2>3, <3>2, <4>1, <4>2
    <3> QED  BY <2>8, <3>1, <3>3 DEF Tv!Has, Tv!Range
  <2> QED  BY <2>1, <2>4, <2>7, <2>8, <2>9, <2>10 DEF KeptWell, n
<1> QED  BY <1>1, <1>2

LEMMA RestWell ==
  ASSUME NEW s, KeptWell(s), NEW n \in Nat \ {0}
  PROVE  KeptWell(SubSeq(s, n, Len(s)))
<1> DEFINE r == SubSeq(s, n, Len(s))
<1>1. Len(s) \in Nat /\ DOMAIN s = 1..Len(s) /\ \A i \in 1..Len(s) : s[i] \in Tv!Accounts
  BY DEF KeptWell
<1>2. \A i \in n..Len(s) : s[i] \in Tv!Accounts
  BY <1>1
<1>3. /\ r \in Seq(Tv!Accounts)
      /\ Len(r) = IF n <= Len(s) THEN Len(s) - n + 1 ELSE 0
      /\ \A i \in 1..Len(s) - n + 1 : r[i] = s[n + i - 1]
  BY <1>1, <1>2, SubSeqProperties
<1> HIDE DEF r
<1>4. DOMAIN r = 1..Len(r)
  BY <1>3
<1>5. ASSUME NEW i \in DOMAIN r, NEW j \in DOMAIN r, r[i].user = r[j].user
      PROVE  i = j
  <2>1. n <= Len(s) /\ i \in 1..Len(s) - n + 1 /\ j \in 1..Len(s) - n + 1
    BY <1>1, <1>3, <1>4
  <2>2. r[i] = s[n + i - 1] /\ r[j] = s[n + j - 1]
    BY <1>3, <2>1
  <2>4. n + i - 1 \in 1..Len(s) /\ n + j - 1 \in 1..Len(s)
    BY <1>1, <2>1
  <2>3. n + i - 1 = n + j - 1
    BY <1>1, <1>5, <2>2, <2>4 DEF KeptWell
  <2> QED  BY <2>1, <2>3
<1> QED  BY <1>3, <1>5 DEF KeptWell, r

LEMMA FirstWell ==
  ASSUME NEW s, KeptWell(s)
  PROVE  ActiveWell(s, Tv!FirstOf(s))
<1>1. CASE s = <<>>
  BY <1>1 DEF ActiveWell, Tv!FirstOf
<1>2. CASE s # <<>>
  <2>1. 1 \in DOMAIN s
    BY <1>2 DEF KeptWell
  <2> QED  BY <1>2, <2>1 DEF ActiveWell, Tv!FirstOf, Tv!Has, Tv!Range
<1> QED  BY <1>1, <1>2

(* The same users in the same places. *)
LEMMA SameUsersWell ==
  ASSUME NEW s, KeptWell(s), NEW t, DOMAIN t = DOMAIN s, t \in Seq(Tv!Accounts),
         \A i \in DOMAIN s : t[i].user = s[i].user
  PROVE  KeptWell(t) /\ \A act : ActiveWell(s, act) => ActiveWell(t, act)
<1>1. KeptWell(t)
  BY DEF KeptWell
<1>2. ASSUME NEW act, ActiveWell(s, act)
      PROVE  ActiveWell(t, act)
  <2>1. CASE s = <<>>
    <3>1. t = <<>>
      BY <2>1 DEF KeptWell
    <3> QED  BY <1>2, <2>1, <3>1 DEF ActiveWell
  <2>2. CASE s # <<>>
    <3>1. PICK i \in DOMAIN s : s[i].user = act
      BY <1>2, <2>2 DEF ActiveWell, Tv!Has, Tv!Range
    <3>2. t # <<>> /\ Tv!Has(t, act)
      BY <3>1 DEF Tv!Has, Tv!Range
    <3> QED  BY <3>2 DEF ActiveWell
  <2> QED  BY <2>1, <2>2
<1> QED  BY <1>1, <1>2

-----------------------------------------------------------------------------
(* What the calls' ends and the refresh do.                                *)

LEMMA JoinedWell ==
  ASSUME PagesKept, PageTypes, ServerTypes
  PROVE  /\ Tv!Joined \in [session : 0..MaxSessions, got : {"none", "asked", "token", "refused", "lost"}]
         /\ Tv!Joined.got = "token" => Tv!Joined = flight
<1>1. Tv!Active(kept, active).session \in 0..MaxSessions
  <2>1. CASE active # None /\ Tv!Has(kept, active)
    <3>1. Tv!Entry(kept, active) \in Tv!Range(kept)
      BY <2>1 DEF Tv!Entry, Tv!Has
    <3>2. Tv!Entry(kept, active) \in Tv!Accounts
      BY <3>1 DEF PagesKept, KeptWell, Tv!Range
    <3> QED  BY <2>1, <3>2, TvWorld DEF Tv!Active, Tv!Accounts, Tv!ServerSessions, Tv!ClientSessionAssumption
  <2>2. CASE ~ (active # None /\ Tv!Has(kept, active))
    BY <2>2, TvWorld DEF Tv!Active, Tv!ClientSessionAssumption
  <2> QED  BY <2>1, <2>2
<1> QED  BY <1>1 DEF Tv!Joined, PageTypes

LEMMA KeptTyped ==
  ASSUME PagesKept
  PROVE  \A a \in Tv!Range(kept) : a \in Tv!Accounts
<1>1. \A i \in DOMAIN kept : kept[i] \in Tv!Accounts
  BY DEF PagesKept, KeptWell
<1> QED  BY <1>1 DEF Tv!Range

LEMMA DeadWell ==
  ASSUME PagesKept, PageTypes, ServerTypes, NEW n \in Nat, Tv!SessionDead(n)
  PROVE  PagesKept' /\ leaving' \in BOOLEAN /\ logouts' \subseteq Tv!ServerSessions
<1> DEFINE others == Tv!Without(kept, active)
           left == SubSeq(others, n, Len(others))
<1>1. CASE n = 0
  BY <1>1 DEF Tv!SessionDead, PagesKept, KeptWell, ActiveWell, PageTypes, ServerTypes, Tv!Has, Tv!Range
<1>2. CASE n # 0
  <2>1. KeptWell(left) /\ ActiveWell(left, Tv!FirstOf(left))
    BY <1>2, WithoutWell, RestWell, FirstWell DEF PagesKept
  <2>2. /\ kept' = left /\ active' = Tv!FirstOf(left) /\ leaving' = TRUE
        /\ logouts' = logouts \cup {a.session : a \in Tv!Range(kept) \ Tv!Range(left)}
    BY <1>2 DEF Tv!SessionDead
  <2>3. \A a \in Tv!Range(kept) : a.session \in Tv!ServerSessions
    BY KeptTyped DEF Tv!Accounts
  <2> HIDE DEF left
  <2>4. KeptWell(kept') /\ ActiveWell(kept', active')
    BY <2>1, <2>2
  <2>5. PagesKept'
    BY <2>4 DEF PagesKept, KeptWell, ActiveWell, Tv!Has, Tv!Range
  <2> QED  BY <2>2, <2>3, <2>5 DEF ServerTypes
<1> QED  BY <1>1, <1>2

LEMMA TokenTypes ==
  /\ Tv!NoToken \in Tv!Tokens
  /\ \A s \in 0..MaxSessions : Tv!Fresh(s) \in Tv!Tokens /\ Tv!Fresh(s) # Tv!NoToken
  /\ \A token \in Tv!Tokens, s \in Tv!ServerSessions :
       Tv!Aged(token, s) \in Tv!Tokens /\ Tv!Aged(token, s).session = token.session
<1>1. 0 \in 0..MaxSessions
  BY TvWorld DEF Tv!ClientSessionAssumption
<1>2. Tv!NoToken \in Tv!Tokens
  BY <1>1 DEF Tv!NoToken, Tv!Tokens
<1>3. ASSUME NEW s \in 0..MaxSessions
      PROVE  Tv!Fresh(s) \in Tv!Tokens /\ Tv!Fresh(s) # Tv!NoToken
  <2>1. Tv!Fresh(s) \in Tv!Tokens
    BY DEF Tv!Fresh, Tv!Tokens
  <2>2. Tv!Fresh(s).fresh = TRUE /\ Tv!NoToken.fresh = FALSE
    BY DEF Tv!Fresh, Tv!NoToken
  <2> QED  BY <2>1, <2>2
<1>4. ASSUME NEW token \in Tv!Tokens, NEW s \in Tv!ServerSessions
      PROVE  Tv!Aged(token, s) \in Tv!Tokens /\ Tv!Aged(token, s).session = token.session
  BY DEF Tv!Tokens, Tv!Aged
<1> QED  BY <1>2, <1>3, <1>4

LEMMA NoCallType == Tv!NoCall \in CallRecords /\ Tv!NoCall.at = "idle"
<1>1. Tv!NoToken \in Tv!Tokens
  BY TokenTypes
<1> QED  BY <1>1 DEF Tv!NoCall, CallRecords

LEMMA PagesStay ==
  ASSUME PagesKept, kept' = kept, active' = active
  PROVE  PagesKept'
  BY DEF PagesKept, KeptWell, ActiveWell, Tv!Has, Tv!Range

LEMMA PagesBecome ==
  ASSUME KeptWell(kept'), ActiveWell(kept', active')
  PROVE  PagesKept'
  BY DEF PagesKept, KeptWell, ActiveWell, Tv!Has, Tv!Range

(* A known user's entry is replaced, a new user's appended. *)
LEMMA AddWell ==
  ASSUME KeptWell(kept), NEW a \in Tv!Accounts, Tv!AddAccount(a)
  PROVE  KeptWell(kept') /\ ActiveWell(kept', active')
<1>1. Len(kept) \in Nat /\ DOMAIN kept = 1..Len(kept) /\ \A i \in 1..Len(kept) : kept[i] \in Tv!Accounts
  BY DEF KeptWell
<1>2. active' = a.user
  BY DEF Tv!AddAccount
<1>3. CASE Tv!Has(kept, a.user)
  <2>1. kept' = [i \in DOMAIN kept |-> IF kept[i].user = a.user THEN a ELSE kept[i]]
    BY <1>3 DEF Tv!AddAccount
  <2>2. \A i \in DOMAIN kept : kept'[i] \in Tv!Accounts /\ kept'[i].user = kept[i].user
    BY <1>1, <2>1
  <2>3. DOMAIN kept' = DOMAIN kept /\ kept' \in Seq(Tv!Accounts)
    BY <1>1, <2>1, <2>2
  <2>4. kept # <<>> /\ ActiveWell(kept, a.user)
    BY <1>3 DEF ActiveWell, Tv!Has, Tv!Range
  <2> QED  BY <1>2, <2>2, <2>3, <2>4, SameUsersWell
<1>4. CASE ~ Tv!Has(kept, a.user)
  <2> DEFINE n == Len(kept) + 1
  <2>1. kept' = Append(kept, a)
    BY <1>4 DEF Tv!AddAccount
  <2>2. /\ kept' \in Seq(Tv!Accounts) /\ Len(kept') = n /\ DOMAIN kept' = 1..n
        /\ kept'[n] = a /\ \A i \in 1..Len(kept) : kept'[i] = kept[i]
    BY <1>1, <2>1 DEF KeptWell
  <2>3. \A i \in 1..Len(kept) : kept[i].user # a.user
    BY <1>1, <1>4 DEF Tv!Has, Tv!Range
  <2>4. ASSUME NEW i \in 1..n, NEW j \in 1..n, kept'[i].user = kept'[j].user
        PROVE  i = j
    <3>1. CASE i = n /\ j = n
      BY <3>1
    <3>2. CASE i # n /\ j # n
      BY <1>1, <2>2, <2>4, <3>2 DEF KeptWell
    <3>3. CASE i = n /\ j # n
      BY <1>1, <2>2, <2>3, <2>4, <3>3
    <3>4. CASE i # n /\ j = n
      BY <1>1, <2>2, <2>3, <2>4, <3>4
    <3> QED  BY <3>1, <3>2, <3>3, <3>4
  <2>5. KeptWell(kept')
    BY <2>2, <2>4 DEF KeptWell
  <2>6. n \in DOMAIN kept' /\ kept'[n].user = active'
    BY <1>1, <1>2, <2>2
  <2>7. kept' # <<>> /\ Tv!Has(kept', active')
    BY <2>6 DEF Tv!Has, Tv!Range
  <2> QED  BY <2>5, <2>7 DEF ActiveWell
<1> QED  BY <1>3, <1>4

LEMMA Entered ==
  ASSUME PagesKept, NEW u, Tv!Has(kept, u)
  PROVE  Tv!Entry(kept, u).session \in Tv!ServerSessions
<1>1. Tv!Entry(kept, u) \in Tv!Range(kept)
  BY DEF Tv!Entry, Tv!Has
<1>2. Tv!Entry(kept, u) \in Tv!Accounts
  BY <1>1, KeptTyped
<1> QED  BY <1>2 DEF Tv!Accounts

LEMMA TvCounts ==
  /\ \A S : Tv!IsFiniteSet(S) <=> IsFiniteSet(S)
  /\ \A S : Tv!Cardinality(S) = Cardinality(S)
<1>1. \A S : Tv!IsFiniteSet(S) <=> IsFiniteSet(S)
  BY DEF Tv!IsFiniteSet, IsFiniteSet
<1>2. \A S : Tv!Cardinality(S) = Cardinality(S)
  BY DEF Tv!Cardinality, Cardinality
<1> QED  BY <1>1, <1>2

LEMMA LeastSession ==
  ASSUME NEW S \in SUBSET Nat, S # {}
  PROVE  \E x \in S : \A y \in S : x <= y
<1>1. PICK x \in S : \A y \in S : <<y, x>> \notin OpToRel(<, Nat)
  BY WFMin, NatLessThanWellFounded
<1>2. ASSUME NEW y \in S
      PROVE  x <= y
  <2>1. x \in Nat /\ y \in Nat
    OBVIOUS
  <2>2. y < x => <<y, x>> \in OpToRel(<, Nat)
    BY <2>1 DEF OpToRel
  <2>3. ~(y < x)
    BY <1>1, <2>2, Zenon
  <2> QED  BY <2>1, <2>3
<1> QED  BY <1>2

LEMMA SomeUser == \E u : u \in Users
  BY TvWorld DEF Tv!ClientSessionAssumption

-----------------------------------------------------------------------------
(* The steps.                                                              *)

LEMMA InitTv == Tv!Init => TvInv
<1> SUFFICES ASSUME Tv!Init PROVE TvInv
  OBVIOUS
<1>1. /\ Stored \in Seq(Users) /\ Len(Stored) \in 1..MaxSessions /\ DOMAIN Stored = 1..Len(Stored)
      /\ \A i, j \in DOMAIN Stored : Stored[i] = Stored[j] => i = j
  BY TvWorld DEF Tv!ClientSessionAssumption, Tv!IsInjective
<1>2. MaxSessions \in Nat \ {0} /\ MaxFaults \in Nat
  BY TvWorld DEF Tv!ClientSessionAssumption
<1>10. \A i \in 1..Len(Stored) : Stored[i] \in Users /\ i \in Tv!ServerSessions /\ i \in 0..MaxSessions
  BY <1>1, <1>2 DEF Tv!ServerSessions
<1>3. \A i \in 1..Len(Stored) : Stored[i] \in Users /\ i \in Tv!ServerSessions /\ Tv!Fresh(i) \in Tv!Tokens
  BY <1>10, TokenTypes
<1>4. /\ DOMAIN kept = 1..Len(Stored) /\ kept \in Seq(Tv!Accounts)
      /\ \A i \in DOMAIN kept : kept[i].user = Stored[i]
  BY <1>1, <1>3 DEF Tv!Init, Tv!Accounts
<1>5. KeptWell(kept)
  BY <1>1, <1>4 DEF KeptWell
<1>6. ActiveWell(kept, active)
  <2>1. 1 \in DOMAIN kept /\ kept[1].user = active
    BY <1>1, <1>2, <1>4 DEF Tv!Init
  <2>2. kept # <<>> /\ Tv!Has(kept, active)
    BY <2>1 DEF Tv!Has, Tv!Range
  <2> QED  BY <2>2 DEF ActiveWell
<1>7. PageTypes
  <2>1. Tv!NoCall \in CallRecords
    BY NoCallType
  <2>2. calls \in [Calls -> CallRecords]
    BY <2>1 DEF Tv!Init
  <2>3. Tv!NoFlight \in [session : 0..MaxSessions, got : {"none", "asked", "token", "refused", "lost"}]
    BY <1>2 DEF Tv!NoFlight
  <2>4. 0 \in 0..MaxFaults
    BY <1>2
  <2>5. Tv!NoPair.at = "off"
    BY DEF Tv!NoPair
  <2> QED  BY <2>2, <2>3, <2>4, <2>5 DEF Tv!Init, PageTypes
<1>8. ServerTypes
  BY DEF Tv!Init, ServerTypes
<1>9. SessionsHold
  BY DEF Tv!Init, SessionsHold, Tv!NoCall, Tv!NoFlight, Tv!NoPair
<1> QED  BY <1>5, <1>6, <1>7, <1>8, <1>9 DEF TvInv, PagesKept

(* One call, *)
LEMMA CallKeepsTv ==
  ASSUME TvInv, NEW c \in Calls,
         Tv!Begin(c) \/ Tv!Served(c) \/ Tv!Refused(c) \/ Tv!RefusedAgain(c) \/ Tv!Returned(c)
  PROVE  TvInv'
<1> USE DEF TvInv
<1>1. CASE Tv!Begin(c)
  <2> DEFINE token == Tv!Active(kept, active).token
  <2>1. token \in Tv!Tokens
    <3>1. active # None /\ Tv!Has(kept, active)
      BY <1>1 DEF Tv!Begin, Tv!Active
    <3>2. Tv!Entry(kept, active) \in Tv!Range(kept)
      BY <3>1 DEF Tv!Entry, Tv!Has
    <3>3. Tv!Entry(kept, active) \in Tv!Accounts
      BY <3>2 DEF PagesKept, KeptWell, Tv!Range
    <3> QED  BY <3>1, <3>3 DEF Tv!Active, Tv!Accounts
  <2>2. PagesKept'
    BY <1>1, PagesStay DEF Tv!Begin
  <2>3. /\ calls'[c].at \in {"sent", "waits"} /\ calls' \in [Calls -> CallRecords]
        /\ \A d \in Calls \ {c} : calls'[d] = calls[d]
        /\ flight' \in {flight, Tv!Joined}
    <3>1. CASE token.fresh
      <4> DEFINE call == [Tv!NoCall EXCEPT !.at = "sent", !.token = token]
      <4>1. call \in CallRecords /\ call.at = "sent"
        BY <2>1, NoCallType DEF CallRecords
      <4>2. calls' = [calls EXCEPT ![c] = call] /\ flight' = flight
        BY <1>1, <3>1 DEF Tv!Begin
      <4> HIDE DEF call
      <4> QED  BY <4>1, <4>2 DEF PageTypes
    <3>2. CASE ~ token.fresh
      <4> DEFINE call == [Tv!NoCall EXCEPT !.at = "waits"]
      <4>1. call \in CallRecords /\ call.at = "waits"
        BY NoCallType DEF CallRecords
      <4>2. calls' = [calls EXCEPT ![c] = call] /\ flight' = Tv!Joined
        BY <1>1, <3>2 DEF Tv!Begin
      <4> HIDE DEF call
      <4> QED  BY <4>1, <4>2 DEF PageTypes
    <3> QED  BY <3>1, <3>2
  <2>4. PageTypes' /\ ServerTypes'
    BY <1>1, <2>3, JoinedWell DEF Tv!Begin, PageTypes, ServerTypes
  <2>5. SessionsHold'
    BY <1>1, <2>3, JoinedWell DEF Tv!Begin, SessionsHold, Minted
  <2> QED  BY <2>2, <2>4, <2>5
<1>2. CASE Tv!Served(c) \/ Tv!Returned(c)
  <2>1. PagesKept'
    BY <1>2, PagesStay DEF Tv!Served, Tv!Returned
  <2>2. calls' = [calls EXCEPT ![c] = Tv!NoCall] /\ Tv!NoCall \in CallRecords /\ Tv!NoCall.at = "idle"
    BY <1>2, NoCallType DEF Tv!Served, Tv!Returned
  <2>3. PageTypes' /\ ServerTypes'
    BY <1>2, <2>2 DEF Tv!Served, Tv!Returned, PageTypes, ServerTypes
  <2>4. SessionsHold'
    BY <1>2, <2>2 DEF Tv!Served, Tv!Returned, SessionsHold, Minted, PageTypes
  <2> QED  BY <2>1, <2>3, <2>4
<1>3. CASE Tv!RefusedAgain(c)
  <2>1. PagesKept'
    BY <1>3, PagesStay DEF Tv!RefusedAgain
  <2>2. /\ calls' \in [Calls -> CallRecords] /\ calls'[c].at = "refused" /\ calls'[c].token = calls[c].token
        /\ \A d \in Calls \ {c} : calls'[d] = calls[d]
    BY <1>3 DEF Tv!RefusedAgain, PageTypes, CallRecords
  <2>3. PageTypes' /\ ServerTypes'
    BY <1>3, <2>2 DEF Tv!RefusedAgain, PageTypes, ServerTypes
  <2>4. Minted(calls[c].token.session) /\ live[calls[c].token.session] = "revoked"
    BY <1>3 DEF Tv!RefusedAgain, SessionsHold, Tv!Accepts, Minted, ServerTypes
  <2>5. SessionsHold'
    BY <1>3, <2>2, <2>4 DEF Tv!RefusedAgain, SessionsHold, Minted
  <2> QED  BY <2>1, <2>3, <2>5
<1>4. CASE Tv!Refused(c)
  <2>1. CASE Tv!Active(kept, active).user = None
    <3>1. /\ Tv!SessionDead(1) /\ calls' = [calls EXCEPT ![c] = Tv!NoCall]
          /\ UNCHANGED <<flight, pair, live, faults>>
      BY <1>4, <2>1 DEF Tv!Refused
    <3>2. PagesKept' /\ leaving' \in BOOLEAN /\ logouts' \subseteq Tv!ServerSessions
      BY <3>1, DeadWell
    <3>3. Tv!NoCall \in CallRecords /\ Tv!NoCall.at = "idle"
      BY NoCallType
    <3>4. PageTypes' /\ ServerTypes'
      BY <3>1, <3>2, <3>3 DEF PageTypes, ServerTypes
    <3>5. SessionsHold'
      BY <3>1, <3>3 DEF SessionsHold, Minted, PageTypes
    <3> QED  BY <3>2, <3>4, <3>5
  <2>2. CASE Tv!Active(kept, active).user # None
    <3>1. /\ calls' = [calls EXCEPT ![c].at = "renews"] /\ flight' = Tv!Joined
          /\ UNCHANGED <<kept, active, leaving, logouts, pair, live, faults>>
      BY <1>4, <2>2 DEF Tv!Refused
    <3>2. PagesKept'
      BY <3>1, PagesStay
    <3>3. /\ calls' \in [Calls -> CallRecords] /\ calls'[c].at = "renews"
          /\ \A d \in Calls \ {c} : calls'[d] = calls[d]
      BY <3>1 DEF PageTypes, CallRecords
    <3>4. PageTypes' /\ ServerTypes'
      BY <3>1, <3>3, JoinedWell DEF PageTypes, ServerTypes
    <3>5. SessionsHold'
      BY <3>1, <3>3, JoinedWell DEF SessionsHold, Minted
    <3> QED  BY <3>2, <3>4, <3>5
  <2> QED  BY <2>1, <2>2
<1> QED  BY <1>1, <1>2, <1>3, <1>4

(* the refresh they share, *)
LEMMA RefreshKeepsTv ==
  ASSUME TvInv, Tv!Refreshed \/ Tv!RefreshLost
  PROVE  TvInv'
<1> USE DEF TvInv
<1>1. PagesKept'
  BY PagesStay DEF Tv!Refreshed, Tv!RefreshLost
<1>2. \/ /\ flight' = [flight EXCEPT !.got = "token"] /\ flight.session # 0 /\ live[flight.session] = "live"
      \/ flight' \in {[flight EXCEPT !.got = "refused"], [flight EXCEPT !.got = "lost"]}
  BY DEF Tv!Refreshed, Tv!RefreshLost
<1>3. flight' \in [session : 0..MaxSessions, got : {"none", "asked", "token", "refused", "lost"}]
  BY <1>2 DEF PageTypes
<1>4. UNCHANGED <<calls, leaving, pair, live, logouts>> /\ faults' \in 0..MaxFaults
  BY TvWorld DEF Tv!Refreshed, Tv!RefreshLost, PageTypes, Tv!ClientSessionAssumption
<1>5. PageTypes' /\ ServerTypes'
  BY <1>3, <1>4 DEF PageTypes, ServerTypes
<1>6. flight'.got = "token" => flight'.session \in Tv!ServerSessions /\ live[flight'.session] # "free"
  BY <1>2, TvWorld DEF PageTypes, Tv!ServerSessions, Tv!ClientSessionAssumption
<1>7. SessionsHold'
  BY <1>4, <1>6 DEF SessionsHold, Minted
<1> QED  BY <1>1, <1>5, <1>7

(* and what it brings them. *)
LEMMA LandKeepsTv ==
  ASSUME TvInv, Tv!Land
  PROVE  TvInv'
<1> USE DEF TvInv
<1> DEFINE token == IF flight.got = "token" THEN Tv!Fresh(flight.session) ELSE Tv!NoToken
           waiting == {c \in Calls : calls[c].at \in {"waits", "renews"}}
           over == {c \in waiting : calls[c].at = "renews" /\ token = Tv!NoToken}
<1>1. /\ flight' = Tv!NoFlight /\ UNCHANGED <<pair, live, faults>>
      /\ calls' = [c \in Calls |-> IF c \in waiting THEN Tv!Resumed(calls[c], token) ELSE calls[c]]
      /\ IF token # Tv!NoToken
           THEN kept' = Tv!Updated(token) /\ UNCHANGED <<active, logouts, leaving>>
           ELSE Tv!SessionDead(Tv!Cardinality(over))
  BY DEF Tv!Land
<1>2. /\ token \in Tv!Tokens
      /\ token # Tv!NoToken => token.fresh /\ Minted(token.session)
  BY TokenTypes DEF PageTypes, SessionsHold, Tv!Fresh
<1>3. Tv!Cardinality(over) \in Nat
  <2>1. IsFiniteSet(over)
    BY FS_Subset, TvWorld, TvCounts DEF Tv!ClientSessionAssumption
  <2> QED  BY <2>1, FS_CardinalityType, TvCounts
<1> HIDE DEF token, over
<1>4. PagesKept' /\ leaving' \in BOOLEAN /\ logouts' \subseteq Tv!ServerSessions
  <2>1. CASE token # Tv!NoToken
    <3>1. /\ kept' = [i \in DOMAIN kept |-> IF kept[i].user = active
                        THEN [kept[i] EXCEPT !.token = token] ELSE kept[i]]
          /\ UNCHANGED <<active, logouts, leaving>>
      BY <1>1, <2>1 DEF Tv!Updated
    <3>2. \A i \in DOMAIN kept : kept[i] \in Tv!Accounts
      BY DEF PagesKept, KeptWell
    <3>3. \A i \in DOMAIN kept : kept'[i] \in Tv!Accounts /\ kept'[i].user = kept[i].user
      BY <1>2, <3>1, <3>2 DEF Tv!Accounts
    <3>4. DOMAIN kept' = DOMAIN kept /\ kept' \in Seq(Tv!Accounts)
      BY <3>1, <3>3 DEF PagesKept, KeptWell
    <3>5. KeptWell(kept') /\ ActiveWell(kept', active')
      BY <3>1, <3>3, <3>4, SameUsersWell DEF PagesKept
    <3> QED  BY <3>1, <3>5, PagesBecome DEF PageTypes, ServerTypes
  <2>2. CASE token = Tv!NoToken
    BY <1>1, <1>3, <2>2, DeadWell
  <2> QED  BY <2>1, <2>2
<1>5. ASSUME NEW c \in Calls
      PROVE  /\ calls'[c] \in CallRecords
             /\ calls'[c].at = "again" => \/ calls'[c] = calls[c]
                                          \/ token # Tv!NoToken /\ calls'[c].token = token
             /\ calls'[c].at = "refused" => calls'[c] = calls[c]
  <2>1. calls[c] \in CallRecords
    BY DEF PageTypes
  <2>2. CASE c \in waiting
    <3>1. calls'[c] = Tv!Resumed(calls[c], token)
      BY <1>1, <2>2
    <3>2. CASE calls[c].at = "waits"
      BY <1>2, <2>1, <3>1, <3>2 DEF Tv!Resumed, CallRecords
    <3>3. CASE calls[c].at = "renews" /\ token # Tv!NoToken
      BY <1>2, <2>1, <3>1, <3>3 DEF Tv!Resumed, CallRecords
    <3>4. CASE calls[c].at = "renews" /\ token = Tv!NoToken
      BY <3>1, <3>4, TokenTypes DEF Tv!Resumed, CallRecords, Tv!NoCall
    <3> QED  BY <2>2, <3>2, <3>3, <3>4
  <2>3. CASE c \notin waiting
    BY <1>1, <2>1, <2>3
  <2> QED  BY <2>2, <2>3
<1>6. calls' \in [Calls -> CallRecords]
  BY <1>1, <1>5
<1>7. PageTypes' /\ ServerTypes'
  BY <1>1, <1>4, <1>6, TvWorld DEF PageTypes, ServerTypes, Tv!NoFlight, Tv!ClientSessionAssumption
<1>8. SessionsHold'
  BY <1>1, <1>2, <1>5 DEF SessionsHold, Minted, Tv!NoFlight
<1> QED  BY <1>4, <1>7, <1>8

(* The accounts the user switches, removes and pairs, *)
LEMMA UserKeepsTv ==
  ASSUME TvInv, NEW u \in Users,
         Tv!SwitchAccount(u) \/ Tv!SignOutOther(u) \/ Tv!SignOut \/ Tv!Paired
  PROVE  TvInv'
<1> USE DEF TvInv
<1>1. PagesKept' /\ logouts' \subseteq Tv!ServerSessions
  <2>1. CASE Tv!SwitchAccount(u)
    <3>1. kept' = kept /\ active' = u /\ Tv!Has(kept, u) /\ logouts' = logouts
      BY <2>1 DEF Tv!SwitchAccount
    <3>2. kept # <<>>
      BY <3>1 DEF Tv!Has, Tv!Range
    <3>3. KeptWell(kept') /\ ActiveWell(kept', active')
      BY <3>1, <3>2 DEF ActiveWell, PagesKept
    <3> QED  BY <3>1, <3>3, PagesBecome DEF ServerTypes
  <2>2. ASSUME NEW v, Tv!Has(kept, v), kept' = Tv!Without(kept, v),
               active' = Tv!ActiveWithout(kept, v, active),
               logouts' = logouts \cup {Tv!Entry(kept, v).session}
        PROVE  PagesKept' /\ logouts' \subseteq Tv!ServerSessions
    <3> DEFINE rest == Tv!Without(kept, v)
    <3>1. KeptWell(rest) /\ ActiveWell(rest, Tv!FirstOf(rest))
      BY WithoutWell, FirstWell DEF PagesKept
    <3>2. CASE active = v
      <4>1. active' = Tv!FirstOf(rest)
        BY <2>2, <3>2 DEF Tv!ActiveWithout
      <4> QED  BY <2>2, <3>1, <4>1, PagesBecome, Entered DEF ServerTypes
    <3>3. CASE active # v
      <4>1. active' = active
        BY <2>2, <3>3 DEF Tv!ActiveWithout
      <4>2. kept # <<>>
        BY <2>2 DEF Tv!Has, Tv!Range
      <4>3. Tv!Has(rest, active)
        BY <3>3, <4>2, WithoutWell DEF PagesKept, ActiveWell
      <4>4. rest # <<>>
        BY <4>3 DEF Tv!Has, Tv!Range
      <4>5. ActiveWell(rest, active)
        BY <4>3, <4>4 DEF ActiveWell
      <4> QED  BY <2>2, <3>1, <4>1, <4>5, PagesBecome, Entered DEF ServerTypes
    <3> QED  BY <3>2, <3>3
  <2>3. CASE Tv!SignOutOther(u)
    BY <2>2, <2>3 DEF Tv!SignOutOther
  <2>4. CASE Tv!SignOut
    <3>1. Tv!Has(kept, active)
      BY <2>4 DEF Tv!SignOut, Tv!Active
    <3> QED  BY <2>2, <2>4, <3>1 DEF Tv!SignOut
  <2>5. CASE Tv!Paired
    <3> DEFINE a == [user |-> pair.user, session |-> pair.session, token |-> Tv!Fresh(pair.session)]
    <3>1. Tv!AddAccount(a) /\ a.user = pair.user /\ logouts' = logouts
      BY <2>5 DEF Tv!Paired
    <3>2. a \in Tv!Accounts
      BY <2>5, TokenTypes DEF Tv!Paired, SessionsHold, Minted, Tv!Accounts, Tv!ServerSessions
    <3> HIDE DEF a
    <3>3. KeptWell(kept') /\ ActiveWell(kept', active')
      BY <3>1, <3>2, AddWell DEF PagesKept
    <3> QED  BY <3>1, <3>3, PagesBecome DEF ServerTypes
  <2> QED  BY <2>1, <2>3, <2>4, <2>5
<1>2. UNCHANGED <<calls, flight, live, faults>> /\ leaving' \in BOOLEAN
      /\ (pair' = pair \/ pair' = Tv!NoPair)
  BY DEF Tv!SwitchAccount, Tv!SignOutOther, Tv!SignOut, Tv!Paired, PageTypes
<1>3. PageTypes' /\ ServerTypes'
  BY <1>1, <1>2 DEF PageTypes, ServerTypes, Tv!NoPair
<1>4. SessionsHold'
  BY <1>2 DEF SessionsHold, Minted, Tv!NoPair
<1> QED  BY <1>1, <1>3, <1>4

(* the page and its pairing, *)
LEMMA PageKeepsTv ==
  ASSUME TvInv, NEW u \in Users,
         Tv!Unload \/ Tv!RequestCode \/ Tv!Claimed(u) \/ Tv!PollLost \/ Tv!Deadline
  PROVE  TvInv'
<1> USE DEF TvInv
<1>1. PagesKept'
  BY PagesStay DEF Tv!Unload, Tv!RequestCode, Tv!Claimed, Tv!PollLost, Tv!Deadline
<1>2. CASE Tv!Claimed(u)
  <2> DEFINE s == CHOOSE x \in Tv!Free : \A y \in Tv!Free : x <= y
  <2>1. /\ Tv!Free # {} /\ live' = [live EXCEPT ![s] = "live"]
        /\ pair' = [at |-> "answer", user |-> u, session |-> s]
        /\ UNCHANGED <<calls, flight, leaving, logouts, faults>>
    BY <1>2 DEF Tv!Claimed
  <2>2. Tv!Free \subseteq 1..MaxSessions
    BY DEF Tv!Free, Tv!ServerSessions
  <2>7. Tv!Free \in SUBSET Nat
    BY <2>2
  <2>3. s \in Tv!ServerSessions /\ live[s] = "free"
    <3>1. \E x \in Tv!Free : \A y \in Tv!Free : x <= y
      BY <2>1, <2>7, LeastSession
    <3> QED  BY <3>1 DEF Tv!Free
  <2> HIDE DEF s
  <2>4. PageTypes' /\ ServerTypes'
    BY <2>1, <2>3 DEF PageTypes, ServerTypes
  <2>5. /\ live'[s] = "live"
        /\ \A t \in Tv!ServerSessions : live[t] # "free" => live'[t] = live[t]
    BY <2>1, <2>3 DEF ServerTypes
  <2>6. SessionsHold'
    BY <2>1, <2>3, <2>5 DEF SessionsHold, Minted
  <2> QED  BY <1>1, <2>4, <2>6
<1>3. CASE Tv!Unload
  <2>1. /\ calls' \in [Calls -> CallRecords] /\ \A c \in Calls : calls'[c].at = "idle"
        /\ flight' = Tv!NoFlight /\ pair' = Tv!NoPair /\ leaving' = FALSE
        /\ UNCHANGED <<live, logouts, faults>>
    BY <1>3, NoCallType DEF Tv!Unload
  <2>2. PageTypes' /\ ServerTypes'
    <3>1. Tv!NoFlight \in [session : 0..MaxSessions, got : {"none", "asked", "token", "refused", "lost"}]
      BY TvWorld DEF Tv!NoFlight, Tv!ClientSessionAssumption
    <3>2. Tv!NoPair.at = "off"
      BY DEF Tv!NoPair
    <3> QED  BY <2>1, <3>1, <3>2 DEF PageTypes, ServerTypes
  <2>3. SessionsHold'
    BY <2>1 DEF SessionsHold, Minted, Tv!NoFlight, Tv!NoPair
  <2> QED  BY <1>1, <2>2, <2>3
<1>4. CASE Tv!RequestCode \/ Tv!PollLost \/ Tv!Deadline
  <2>1. /\ pair'.at \in {"off", "polls", "spent"} /\ UNCHANGED <<calls, flight, leaving, live, logouts>>
        /\ faults' \in 0..MaxFaults
    BY <1>4, TvWorld DEF Tv!RequestCode, Tv!PollLost, Tv!Deadline, Tv!NoPair, PageTypes, Tv!ClientSessionAssumption
  <2>2. PageTypes' /\ ServerTypes'
    BY <2>1 DEF PageTypes, ServerTypes
  <2>3. SessionsHold'
    BY <2>1 DEF SessionsHold, Minted
  <2> QED  BY <1>1, <2>2, <2>3
<1> QED  BY <1>2, <1>3, <1>4

(* and what ends a session or a token. *)
LEMMA EndsKeepTv ==
  ASSUME TvInv, NEW s \in Tv!ServerSessions, Tv!LogoutLands(s) \/ Tv!Revoke(s) \/ Tv!Expire(s)
  PROVE  TvInv'
<1> USE DEF TvInv
<1>1. CASE Tv!LogoutLands(s) \/ Tv!Revoke(s)
  <2>1. PagesKept'
    BY <1>1, PagesStay DEF Tv!LogoutLands, Tv!Revoke
  <2>2. /\ live' \in {live, [live EXCEPT ![s] = "revoked"]} /\ logouts' \subseteq logouts
        /\ UNCHANGED <<calls, flight, leaving, pair>> /\ faults' \in 0..MaxFaults
    BY <1>1, TvWorld DEF Tv!LogoutLands, Tv!Revoke, PageTypes, Tv!ClientSessionAssumption
  <2>3. PageTypes' /\ ServerTypes'
    BY <2>2 DEF PageTypes, ServerTypes
  <2>4. \A t \in Tv!ServerSessions : live'[t] = live[t] \/ live'[t] = "revoked"
    BY <2>2 DEF ServerTypes
  <2>5. SessionsHold'
    BY <2>2, <2>4 DEF SessionsHold, Minted
  <2> QED  BY <2>1, <2>3, <2>5
<1>2. CASE Tv!Expire(s)
  <2>1. /\ \A c \in Calls : calls[c].at # "again"
        /\ kept' = [i \in DOMAIN kept |-> [kept[i] EXCEPT !.token = Tv!Aged(kept[i].token, s)]]
        /\ calls' = [c \in Calls |-> [calls[c] EXCEPT !.token = Tv!Aged(calls[c].token, s)]]
        /\ UNCHANGED <<active, flight, leaving, pair, live, logouts, faults>>
    BY <1>2 DEF Tv!Expire
  <2>2. \A i \in DOMAIN kept : kept[i] \in Tv!Accounts
    BY DEF PagesKept, KeptWell
  <2>3. \A i \in DOMAIN kept : kept'[i] \in Tv!Accounts /\ kept'[i].user = kept[i].user
    BY <2>1, <2>2, TokenTypes DEF Tv!Accounts
  <2>4. DOMAIN kept' = DOMAIN kept /\ kept' \in Seq(Tv!Accounts)
    BY <2>1, <2>3 DEF PagesKept, KeptWell
  <2>5. PagesKept'
    <3>1. KeptWell(kept') /\ ActiveWell(kept', active')
      BY <2>1, <2>3, <2>4, SameUsersWell DEF PagesKept
    <3> QED  BY <3>1, PagesBecome
  <2>6. \A c \in Calls : /\ calls'[c] \in CallRecords /\ calls'[c].at = calls[c].at
                         /\ calls'[c].token.session = calls[c].token.session
    BY <2>1, TokenTypes DEF PageTypes, CallRecords
  <2>7. PageTypes' /\ ServerTypes'
    BY <2>1, <2>6 DEF PageTypes, ServerTypes
  <2>8. SessionsHold'
    BY <2>1, <2>6 DEF SessionsHold, Minted
  <2> QED  BY <2>5, <2>7, <2>8
<1> QED  BY <1>1, <1>2

-----------------------------------------------------------------------------
LEMMA TvMoves ==
  ASSUME [SuiteNext]_allvars
  PROVE  part' = part /\ (part = "tv" => Tv!Next \/ UNCHANGED tvvars)
<1>1. CASE UNCHANGED allvars
  BY <1>1 DEF allvars
<1>2. CASE SuiteNext
  <2>1. part' = part
    BY <1>2 DEF SuiteNext, ServerOnly, HouseOnly, TvOnly
  <2>2. part = "tv" => Tv!Next
    BY <1>2 DEF SuiteNext, Tv!Next
  <2> QED  BY <2>1, <2>2
<1> QED  BY <1>1, <1>2

(* A call whose retry is refused too has lost its session, whatever its    *)
(* refresh met: the other calls that share it, a switch, a sign-out, a     *)
(* pairing, a revocation, a lost request.                                  *)
THEOREM RefusalsAreEarned == SuiteSpec => []LiveCallsPass
<1> DEFINE Held == part = "tv" => TvInv
<1>1. SuiteInit => Held
  BY InitTv DEF SuiteInit
<1>2. Held /\ [SuiteNext]_allvars => Held'
  <2> SUFFICES ASSUME part' = part, part = "tv", TvInv, Tv!Next \/ UNCHANGED tvvars
               PROVE  TvInv'
    BY TvMoves
  <2>1. CASE Tv!Next
    BY <2>1, CallKeepsTv, RefreshKeepsTv, LandKeepsTv, UserKeepsTv, PageKeepsTv, EndsKeepTv, SomeUser DEF Tv!Next
  <2>2. CASE UNCHANGED tvvars
    BY <2>2 DEF tvvars, TvInv, PagesKept, KeptWell, ActiveWell, PageTypes, ServerTypes, SessionsHold,
      Minted, Tv!Has, Tv!Range
  <2> QED  BY <2>1, <2>2
<1>3. Held => LiveCallsPass
  <2> SUFFICES ASSUME part = "tv", TvInv PROVE Tv!TypeOK /\ Tv!LiveCallsPass
    BY DEF LiveCallsPass
  <2>1. Tv!TypeOK
    BY DEF TvInv, PagesKept, KeptWell, ActiveWell, PageTypes, ServerTypes, CallRecords, Tv!TypeOK
  <2>2. Tv!LiveCallsPass
    BY DEF TvInv, SessionsHold, Tv!LiveCallsPass
  <2> QED  BY <2>1, <2>2
<1> QED  BY <1>1, <1>2, <1>3, PTL DEF SuiteSpec
=============================================================================
