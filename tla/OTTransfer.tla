----------------------------- MODULE OTTransfer -----------------------------
(***************************************************************************)
(* What ot_client and ot_server together promise a caller, without         *)
(* connections, handlers or attempts: each call has one session on the     *)
(* server.  It is opened at most once and spent at most once, only within  *)
(* the request limit, and the call's messages come from its own session    *)
(* after that was spent.  A server crash loses the open sessions.          *)
(***************************************************************************)
EXTENDS Naturals

CONSTANTS Calls, MaxChosen, ReqLimitNum

VARIABLES
  k,        \* k[c]: how many messages call c chooses
  outcome,  \* outcome[c]: where the call stands with its caller
  session,  \* session[c]: where its session stands on the server
  from      \* from[c]: the call whose session the messages of c come from

vars == <<k, outcome, session, from>>

Init ==
  /\ k = [c \in Calls |-> 0]
  /\ outcome = [c \in Calls |-> "idle"]
  /\ session = [c \in Calls |-> "none"]
  /\ from = [c \in Calls |-> "none"]

Ask(c) ==
  /\ outcome[c] = "idle"
  /\ \E n \in 0..MaxChosen : k' = [k EXCEPT ![c] = n]
  /\ outcome' = [outcome EXCEPT ![c] = "asked"]
  /\ UNCHANGED <<session, from>>

\* A request outlives the call that sent it, so a session may be opened, and
\* spent, after its call has ended.
Open(c) ==
  /\ outcome[c] # "idle"
  /\ session[c] = "none"
  /\ \E s \in {"open", "lost"} : session' = [session EXCEPT ![c] = s]
  /\ UNCHANGED <<k, outcome, from>>

Spend(c) ==
  /\ session[c] = "open"
  /\ k[c] \in 1..ReqLimitNum
  /\ session' = [session EXCEPT ![c] = "spent"]
  /\ UNCHANGED <<k, outcome, from>>

Lose ==
  /\ session' = [c \in Calls |-> IF session[c] = "open" THEN "lost" ELSE session[c]]
  /\ UNCHANGED <<k, outcome, from>>

Obtain(c) ==
  /\ outcome[c] = "asked"
  /\ session[c] = "spent"
  /\ outcome' = [outcome EXCEPT ![c] = "messages"]
  /\ from' = [from EXCEPT ![c] = c]
  /\ UNCHANGED <<k, session>>

Fail(c) ==
  /\ outcome[c] = "asked"
  /\ \E o \in {"limit", "error"} : outcome' = [outcome EXCEPT ![c] = o]
  /\ UNCHANGED <<k, session, from>>

Abandon ==
  /\ outcome' = [c \in Calls |-> IF outcome[c] = "asked" THEN "crashed" ELSE outcome[c]]
  /\ UNCHANGED <<k, session, from>>

Next ==
  \/ \E c \in Calls : Ask(c) \/ Open(c) \/ Spend(c) \/ Obtain(c) \/ Fail(c)
  \/ Lose
  \/ Abandon

Spec == Init /\ [][Next]_vars /\ \A c \in Calls : WF_vars(Obtain(c) \/ Fail(c))
=============================================================================
