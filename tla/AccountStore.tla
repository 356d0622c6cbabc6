---------------------------- MODULE AccountStore ----------------------------
(***************************************************************************)
(* What the account database promises to the server, whatever it does with *)
(* files: a view of the accounts that the running process works on, and a  *)
(* durable copy that is replaced by the whole view at once.  A call        *)
(* changes one account of the view; a crash loses the view; a restart      *)
(* starts from the durable copy.  JsonDB is shown to implement this.       *)
(***************************************************************************)

CONSTANTS
  Users,      \* the user names
  Account,    \* the records an account can be: password, uuid and game data
  NoAccount,  \* stands for a user with no account
  Down        \* the view while no process runs

VARIABLES
  durable,    \* the accounts a restart would find
  view        \* the accounts the running process sees, or Down

vars == <<durable, view>>

Accounts == [Users -> Account \cup {NoAccount}]

TypeOK ==
  /\ durable \in Accounts
  /\ view \in Accounts \cup {Down}

Init ==
  /\ durable = [u \in Users |-> NoAccount]
  /\ view = Down

(* A new account appears in the view of the running process. *)
Register(u) ==
  /\ view # Down
  /\ view[u] = NoAccount
  /\ \E a \in Account : view' = [view EXCEPT ![u] = a]
  /\ UNCHANGED durable

(* An account's game data changes; who it belongs to does not. *)
Change(u) ==
  /\ view # Down
  /\ view[u] # NoAccount
  /\ \E a \in Account :
       /\ a.password = view[u].password
       /\ a.uuid = view[u].uuid
       /\ view' = [view EXCEPT ![u] = a]
  /\ UNCHANGED durable

(* The whole view becomes durable in one step. *)
Commit ==
  /\ view # Down
  /\ durable' = view
  /\ UNCHANGED view

Crash ==
  /\ view # Down
  /\ view' = Down
  /\ UNCHANGED durable

Restart ==
  /\ view = Down
  /\ view' = durable
  /\ UNCHANGED durable

Next ==
  \/ \E u \in Users : Register(u) \/ Change(u)
  \/ Commit
  \/ Crash
  \/ Restart

Spec == Init /\ [][Next]_vars

=============================================================================
