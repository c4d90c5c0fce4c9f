-------------------------------- MODULE Ledger ---------------------------------
(***************************************************************************)
(* What the request metrics promise whoever reads them, with the           *)
(* middleware, the wrapped body and its polls left out: an account per     *)
(* request, opened on its method's series, told how the request went, and  *)
(* settled by one entry that says so; a balance per series that counts the *)
(* accounts not settled. RequestMetrics is shown to implement it.          *)
(***************************************************************************)
EXTENDS Integers, FiniteSets

CONSTANTS
  Requests,
  Methods,
  Codes,  \* the grpc-status codes a client may be told
  None    \* and that it was told none

VARIABLES
  exporting,  \* whether the ledger is kept at all
  series,     \* the method of each request
  rpc,        \* whether it speaks gRPC
  account,    \* the state of its account
  told,       \* the status its client was told last
  entries,    \* what was entered for it
  balance     \* the accounts not settled, by series

vars == <<exporting, series, rpc, account, told, entries, balance>>

Outstanding == {"open", "abandoned", "answered"}

Init ==
  /\ exporting \in BOOLEAN
  /\ series \in [Requests -> Methods]
  /\ rpc \in [Requests -> BOOLEAN]
  /\ account = [r \in Requests |-> "none"]
  /\ told = [r \in Requests |-> None]
  /\ entries = [r \in Requests |-> <<>>]
  /\ balance = [m \in Methods |-> 0]

(* An account moves, and every series counts what is now outstanding on it. *)
Move(r, from, to) ==
  /\ account[r] = from
  /\ account' = [account EXCEPT ![r] = to]
  /\ balance' = [m \in Methods |-> Cardinality(
       {q \in Requests : account'[q] \in Outstanding /\ series[q] = m})]
  /\ UNCHANGED <<exporting, series, rpc>>

Open(r) == exporting /\ Move(r, "none", "open") /\ UNCHANGED <<told, entries>>

Ignore(r) == ~exporting /\ Move(r, "none", "ignored") /\ UNCHANGED <<told, entries>>

(* The request is given up before there is an answer: never settled.         *)
Abandon(r) == Move(r, "open", "abandoned") /\ UNCHANGED <<told, entries>>

Answer(r) ==
  /\ Move(r, "open", "answered")
  /\ \E code \in Codes \cup {None} : told' = [told EXCEPT ![r] = code]
  /\ UNCHANGED entries

(* The client is told better, as long as nothing is entered.                 *)
Correct(r) ==
  /\ Move(r, "answered", "answered")
  /\ \E code \in Codes : told' = [told EXCEPT ![r] = code]
  /\ UNCHANGED entries

(* The one entry: what the client of an RPC was told, and no such thing for  *)
(* any other request.                                                        *)
Entry(r) ==
  [code |-> IF rpc[r] THEN told[r] ELSE None,
   failed |-> rpc[r] /\ told[r] \notin {None, 0}]

Settle(r) ==
  /\ Move(r, "answered", "settled")
  /\ entries' = [entries EXCEPT ![r] = <<Entry(r)>>]
  /\ UNCHANGED told

Next ==
  \E r \in Requests :
    \/ Open(r)
    \/ Ignore(r)
    \/ Abandon(r)
    \/ Answer(r)
    \/ Correct(r)
    \/ Settle(r)

Spec == Init /\ [][Next]_vars
================================================================================
