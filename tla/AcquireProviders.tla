-------------------------- MODULE AcquireProviders --------------------------
(***************************************************************************)
(* External acquisition providers: the API's in-memory registry            *)
(* (acquire-provider-registry.ts), the relay that queues an import when a  *)
(* provider accepts a download (acquire-routes.ts), and the admin's page   *)
(* that lists providers as tabs (web AcquireSection.tsx).  A registration  *)
(* is an object: registering an id again makes a new one, and calls under  *)
(* way hold the object they started with.                                  *)
(***************************************************************************)
EXTENDS Naturals, FiniteSets, Sequences

CONSTANTS
  Ids,       \* ids external providers register under; not the built-in one
  Tokens,    \* ownership tokens
  MaxRegs,   \* bound: registrations
  MaxClicks  \* bound: tab changes, downloads and cancels by the admin

Builtin == "anicli"    \* RESERVED_PROVIDER_ID: its routes are its own
NoTok   == "open"      \* registered without a token
NoReg   == [n |-> 0, tok |-> NoTok]

(* What the constants must satisfy, whoever instantiates the module. *)
AcquireProvidersAssumption ==
  Builtin \notin Ids /\ NoTok \notin Tokens /\ MaxRegs \in Nat /\ MaxClicks \in Nat

Tabs == Ids \cup {Builtin}

VARIABLES
  reg,       \* providers: the registration of each id, NoReg when absent
  dead,      \* registrations whose provider stopped answering
  sweep,     \* the health sweep under way: the entries it took, or {}
  calls,     \* relayed calls under way: [id, reg, kind]
  imports,   \* queued imports: [id, by, conn]: who accepted, where to fetch
  tabs,      \* the page: tabs shown
  active,    \* the page: the active tab
  rows,      \* the page: whose downloads the list shows, "" when cleared
  lists,     \* the page: list requests under way, by tab
  found,     \* the page: whose search results it shows, "" for none
  finds,     \* the page: the search under way, by the tab it was made on
  cancels,   \* history: tabs cancels were sent to, with whose row it was
  regs, clicks

vars == <<reg, dead, sweep, calls, imports, tabs, active, rows, lists, found, finds, cancels, regs, clicks>>
page == <<tabs, active, rows, lists, found, finds, cancels, clicks>>

Init ==
  /\ reg = [i \in Ids |-> NoReg] /\ dead = {} /\ sweep = {} /\ calls = {} /\ imports = {}
  /\ tabs = {Builtin} /\ active = Builtin /\ rows = "" /\ lists = {Builtin}
  /\ found = "" /\ finds = {} /\ cancels = {}
  /\ regs = 0 /\ clicks = 0

----------------------------------------------------------------------------
(* The registry *)

AnyoneClaims(i, t) == TRUE

\* A token once set must be shown to replace or remove the entry.
CanClaim(i, t) == reg[i] = NoReg \/ reg[i].tok = NoTok \/ reg[i].tok = t

Register(i, t) ==
  /\ regs < MaxRegs /\ CanClaim(i, t)
  /\ regs' = regs + 1
  /\ reg' = [reg EXCEPT ![i] = [n |-> regs', tok |-> t]]
  /\ UNCHANGED <<dead, sweep, calls, imports, page>>

Deregister(i, t) ==
  /\ reg[i] # NoReg /\ CanClaim(i, t)
  /\ reg' = [reg EXCEPT ![i] = NoReg]
  /\ UNCHANGED <<dead, sweep, calls, imports, page, regs>>

Dies(i) ==
  /\ reg[i] # NoReg /\ reg[i].n \notin dead
  /\ dead' = dead \cup {reg[i].n}
  /\ UNCHANGED <<reg, sweep, calls, imports, page, regs>>

\* Every ten seconds all entries are asked at once.
SweepStarts ==
  /\ sweep = {} /\ \E i \in Ids : reg[i] # NoReg
  /\ sweep' = {<<i, reg[i]>> : i \in {x \in Ids : reg[x] # NoReg}}
  /\ UNCHANGED <<reg, dead, calls, imports, page, regs>>

DropById(entries) ==
  reg' = [i \in Ids |-> IF \E r \in {reg[i]} \cup {e[2] : e \in entries} : <<i, r>> \in entries THEN NoReg ELSE reg[i]]

\* Only the very object that failed is removed.
Drop(entries) == reg' = [i \in Ids |-> IF <<i, reg[i]>> \in entries THEN NoReg ELSE reg[i]]

\* The answers are in: silence drops an entry, and a live one may be slow.
SweepEnds ==
  /\ sweep # {}
  /\ \E failed \in SUBSET sweep :
       /\ {e \in sweep : e[2].n \in dead} \subseteq failed
       /\ Drop(failed)
  /\ sweep' = {}
  /\ UNCHANGED <<dead, calls, imports, page, regs>>

----------------------------------------------------------------------------
(* The relay *)

\* A download is asked of the active tab's provider.
Submit ==
  /\ clicks < MaxClicks /\ active # Builtin /\ reg[active] # NoReg
  /\ clicks' = clicks + 1
  /\ calls' = calls \cup {[id |-> active, reg |-> reg[active]]}
  /\ UNCHANGED <<reg, dead, sweep, imports, tabs, active, rows, lists, found, finds, cancels, regs>>

\* Accepted: the import is queued with the connection of this moment, none
\* if the id has gone; the page asks for the rows of
\* the tab it submitted under.
Accepted(c) ==
  /\ c \in calls /\ c.reg.n \notin dead
  /\ calls' = calls \ {c}
  /\ imports' = IF reg[c.id] = NoReg THEN imports
                ELSE imports \cup {[id |-> c.id, by |-> c.reg.n, conn |-> reg[c.id].n]}
  /\ lists' = lists \cup {c.id}
  /\ UNCHANGED <<reg, dead, sweep, tabs, active, rows, found, finds, cancels, regs, clicks>>

\* No answer: the object the call was made to is dropped.
CallFails(c) ==
  /\ c \in calls
  /\ calls' = calls \ {c}
  /\ Drop({<<c.id, c.reg>>})
  /\ UNCHANGED <<dead, sweep, imports, page, regs>>

----------------------------------------------------------------------------
(* The page *)

\* loadProviders, on mount and every ten seconds.
PollTabs ==
  /\ tabs' = {Builtin} \cup {i \in Ids : reg[i] # NoReg}
  /\ UNCHANGED <<reg, dead, sweep, calls, imports, active, rows, lists, found, finds, cancels, regs, clicks>>

\* Switching clears the list and asks for the new tab's; the old tab's
\* request, if any, is still out.
SwitchTo(t) ==
  /\ active' = t /\ rows' = "" /\ found' = "" /\ lists' = lists \cup {t}
  /\ UNCHANGED <<reg, dead, sweep, calls, imports, tabs, finds, cancels, regs>>

Switch(t) == t \in tabs \ {active} /\ clicks < MaxClicks /\ clicks' = clicks + 1 /\ SwitchTo(t)

StayOnGone == UNCHANGED vars

\* The active tab went off the list: back to the built-in source.
FallBack == active \notin tabs /\ SwitchTo(Builtin) /\ UNCHANGED clicks

\* Some request for rows returns, whichever tab it was for; a failed one
\* empties the list.
Listed(t) ==
  /\ t \in lists
  /\ lists' = lists \ {t}
  /\ rows' \in {t, ""}
  /\ UNCHANGED <<reg, dead, sweep, calls, imports, tabs, active, found, finds, cancels, regs, clicks>>

Reload ==
  /\ rows # "" /\ lists' = lists \cup {active} /\ active \notin lists
  /\ UNCHANGED <<reg, dead, sweep, calls, imports, tabs, active, rows, found, finds, cancels, regs, clicks>>

\* Cancel sends a row's id to the provider of the active tab.
Cancel ==
  /\ rows # "" /\ clicks < MaxClicks
  /\ clicks' = clicks + 1
  /\ cancels' = cancels \cup {<<active, rows>>}
  /\ lists' = lists \cup {active}
  /\ UNCHANGED <<reg, dead, sweep, calls, imports, tabs, active, rows, found, finds, regs>>

\* One search at a time; its results show on whatever tab is up by then.
Search ==
  /\ finds = {} /\ clicks < MaxClicks
  /\ clicks' = clicks + 1
  /\ finds' = {active}
  /\ UNCHANGED <<reg, dead, sweep, calls, imports, tabs, active, rows, lists, found, cancels, regs>>

Found(t) ==
  /\ t \in finds
  /\ finds' = {}
  /\ found' \in {t, found}
  /\ UNCHANGED <<reg, dead, sweep, calls, imports, tabs, active, rows, lists, cancels, regs, clicks>>

Next ==
  \/ \E i \in Ids : Dies(i) \/ \E t \in Tokens \cup {NoTok} : Register(i, t) \/ Deregister(i, t)
  \/ SweepStarts \/ SweepEnds \/ Submit \/ PollTabs \/ FallBack \/ Reload \/ Cancel \/ Search
  \/ \E c \in calls : Accepted(c) \/ CallFails(c)
  \/ \E t \in Tabs : Switch(t) \/ Listed(t) \/ Found(t)

Spec == /\ Init /\ [][Next]_vars
        /\ WF_vars(SweepStarts \/ SweepEnds) /\ WF_vars(PollTabs \/ FallBack)

----------------------------------------------------------------------------
(* Properties *)

TypeOK ==
  /\ reg \in [Ids -> [n : 0..MaxRegs, tok : Tokens \cup {NoTok}]]
  /\ tabs \subseteq Tabs /\ active \in Tabs /\ rows \in Tabs \cup {""} /\ lists \cup finds \subseteq Tabs

\* A registration ends for its own reasons: replaced or removed with its token
\* (or it has none), or it was itself asked and did not answer.  An answer
\* about an older registration of the id never ends it.
EndsForItsOwnReasons ==
  [][\A i \in Ids : (reg[i] # NoReg /\ reg'[i] # reg[i]) =>
       \/ <<i, reg[i]>> \in sweep \/ [id |-> i, reg |-> reg[i]] \in calls
       \/ \E t \in Tokens \cup {NoTok} :
            reg[i].tok \in {NoTok, t} /\ (Register(i, t) \/ Deregister(i, t))]_vars

\* A dead provider does not stay on the page: it leaves the registry, the tab
\* goes, and an admin looking at it is taken back to the built-in source.
DeadTabsGo ==
  \A i \in Ids, k \in 1..MaxRegs :
    []<>(k \notin dead \/ reg[i].n # k) /\ []<>(active # i \/ reg[i] # NoReg)

\* "Never leave a previous provider's rows on display under a new active tab":
\* a cancel goes to the provider whose row it is.
CancelHitsItsProvider == \A c \in cancels : c[1] = c[2]
=============================================================================
