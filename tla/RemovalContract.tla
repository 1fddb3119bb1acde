--------------------------- MODULE RemovalContract ---------------------------
(***************************************************************************)
(* What the privileged helper promises its callers, with every mechanism   *)
(* (threads, handles, callbacks, event loops) left out: a call is first    *)
(* authorized, then owns the package database alone, removes nothing but   *)
(* the packages it named, and answers "removed" only when all of them are  *)
(* gone.  It may fail at any time, possibly half way.  Other package       *)
(* managers use the database under the same lock.                          *)
(***************************************************************************)
CONSTANTS
  Pkgs,     \* packages that can be installed
  Calls,    \* removal calls
  Free,     \* the lock when nobody holds it
  Pacman    \* the lock when another package manager holds it

VARIABLES
  installed,  \* the packages in the local database
  holder,     \* who holds the database lock
  asked,      \* asked[c]: the packages call c names
  status      \* status[c]: how far call c is

contractVars == <<installed, holder, asked, status>>

Status == {"idle", "submitted", "authorized", "removing", "removed", "failed"}

Submit(c) ==
  /\ status[c] = "idle"
  /\ \E names \in (SUBSET Pkgs) \ {{}} : asked' = [asked EXCEPT ![c] = names]
  /\ status' = [status EXCEPT ![c] = "submitted"]
  /\ UNCHANGED <<installed, holder>>

Authorize(c) ==
  /\ status[c] = "submitted"
  /\ status' = [status EXCEPT ![c] = "authorized"]
  /\ UNCHANGED <<installed, holder, asked>>

Begin(c) ==
  /\ status[c] = "authorized"
  /\ holder = Free
  /\ holder' = c
  /\ status' = [status EXCEPT ![c] = "removing"]
  /\ UNCHANGED <<installed, asked>>

RemoveOne(c) ==
  /\ status[c] = "removing"
  /\ holder = c
  /\ \E p \in asked[c] : installed' = installed \ {p}
  /\ UNCHANGED <<holder, asked, status>>

Succeed(c) ==
  /\ status[c] = "removing"
  /\ holder = c
  /\ asked[c] \cap installed = {}
  /\ holder' = Free
  /\ status' = [status EXCEPT ![c] = "removed"]
  /\ UNCHANGED <<installed, asked>>

Fail(c) ==
  /\ status[c] \in {"submitted", "authorized", "removing"}
  /\ holder' = IF holder = c THEN Free ELSE holder
  /\ status' = [status EXCEPT ![c] = "failed"]
  /\ UNCHANGED <<installed, asked>>

OtherBegin ==
  /\ holder = Free
  /\ holder' = Pacman
  /\ UNCHANGED <<installed, asked, status>>

OtherEnd ==
  /\ holder = Pacman
  /\ holder' = Free
  /\ installed' \in SUBSET Pkgs
  /\ UNCHANGED <<asked, status>>

ContractInit ==
  /\ installed \in SUBSET Pkgs
  /\ holder = Free
  /\ asked = [c \in Calls |-> {}]
  /\ status = [c \in Calls |-> "idle"]

ContractNext ==
  \/ \E c \in Calls :
       \/ Submit(c) \/ Authorize(c) \/ Begin(c)
       \/ RemoveOne(c) \/ Succeed(c) \/ Fail(c)
  \/ OtherBegin
  \/ OtherEnd

ContractSpec == ContractInit /\ [][ContractNext]_contractVars

-----------------------------------------------------------------------------
(* What a caller may rely on. *)

\* The lock has one owner, and calls are neither of the others who may have it.
OwnersDistinct == Free # Pacman /\ Free \notin Calls /\ Pacman \notin Calls

ContractTypeOK ==
  /\ installed \in SUBSET Pkgs
  /\ holder \in Calls \cup {Free, Pacman}
  /\ asked \in [Calls -> SUBSET Pkgs]
  /\ status \in [Calls -> Status]

\* Who removes owns the database: no two calls remove at the same time, and none
\* removes while the other package manager works.
Exclusive == \A c \in Calls : status[c] = "removing" <=> holder = c

\* What a call names never changes, and how it ended neither.
EndsAreFinal ==
  [][\A c \in Calls :
       /\ status[c] # "idle" => asked'[c] = asked[c]
       /\ status[c] \in {"removed", "failed"} => status'[c] = status[c]]_contractVars

\* A package goes only because a call that was authorized and owns the database has
\* named it, or because the other package manager owns the database; nothing comes
\* but by the latter.
OnlyNamedPackagesGo ==
  [][\/ holder = Pacman
     \/ /\ installed' \subseteq installed
        /\ \A p \in installed \ installed' :
             \E c \in Calls : status[c] = "removing" /\ holder = c /\ p \in asked[c]]_contractVars

\* A call passes through authorization before it owns the database, and at the moment
\* it turns to "removed" everything it named is gone.
SuccessIsEarned ==
  [][\A c \in Calls :
       /\ status[c] # "removing" /\ status'[c] = "removing" => status[c] = "authorized"
       /\ status[c] # "removed" /\ status'[c] = "removed" =>
            /\ status[c] = "removing" /\ holder = c
            /\ asked'[c] \cap installed' = {}]_contractVars
=============================================================================
