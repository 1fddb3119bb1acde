---------------------------- MODULE ContractProofs ----------------------------
(***************************************************************************)
(* What follows from RemovalContract, for any packages and calls.  What    *)
(* implements the contract inherits it.                                    *)
(***************************************************************************)
EXTENDS RemovalContract, TLAPS

ContractInv == ContractTypeOK /\ Exclusive

LEMMA ContractInvStep ==
  ASSUME OwnersDistinct, ContractInv, [ContractNext]_contractVars
  PROVE  ContractInv'
<1> USE DEF OwnersDistinct, ContractInv, ContractTypeOK, Exclusive, Status
<1>1. ASSUME NEW c \in Calls, Submit(c) PROVE ContractInv'
  BY <1>1 DEF Submit
<1>2. ASSUME NEW c \in Calls, Authorize(c) PROVE ContractInv'
  BY <1>2 DEF Authorize
<1>3. ASSUME NEW c \in Calls, Begin(c) PROVE ContractInv'
  BY <1>3 DEF Begin
<1>4. ASSUME NEW c \in Calls, RemoveOne(c) PROVE ContractInv'
  BY <1>4 DEF RemoveOne
<1>5. ASSUME NEW c \in Calls, Succeed(c) PROVE ContractInv'
  BY <1>5 DEF Succeed
<1>6. ASSUME NEW c \in Calls, Fail(c) PROVE ContractInv'
  BY <1>6 DEF Fail
<1>7. CASE OtherBegin \/ OtherEnd
  BY <1>7 DEF OtherBegin, OtherEnd
<1>8. CASE UNCHANGED contractVars
  BY <1>8 DEF contractVars
<1> QED
  BY <1>1, <1>2, <1>3, <1>4, <1>5, <1>6, <1>7, <1>8 DEF ContractNext

LEMMA ContractInvariant ==
  ASSUME OwnersDistinct
  PROVE  ContractSpec => []ContractInv
<1>1. ContractInit => ContractInv
  BY DEF ContractInit, ContractInv, ContractTypeOK, Exclusive, OwnersDistinct, Status
<1>2. ContractInv /\ [ContractNext]_contractVars => ContractInv'
  BY ContractInvStep
<1> QED
  BY <1>1, <1>2, PTL DEF ContractSpec

\* Calls remove one at a time, each as the owner of the database.
THEOREM RemovingIsExclusive ==
  ASSUME OwnersDistinct
  PROVE  ContractSpec => []Exclusive
<1>1. ContractInv => Exclusive
  BY DEF ContractInv
<1> QED
  BY <1>1, ContractInvariant, PTL

\* What a call named and how it ended stay as they are.
THEOREM CallsEndOnce ==
  ASSUME OwnersDistinct
  PROVE  ContractSpec => EndsAreFinal
<1> DEFINE Final ==
      \A c \in Calls :
        /\ status[c] # "idle" => asked'[c] = asked[c]
        /\ status[c] \in {"removed", "failed"} => status'[c] = status[c]
<1>1. ASSUME ContractInv, ContractNext PROVE Final
  BY <1>1 DEF ContractNext, Submit, Authorize, Begin, RemoveOne, Succeed, Fail,
     OtherBegin, OtherEnd, ContractInv, ContractTypeOK
<1> HIDE DEF Final
<1>2. ContractInv /\ [ContractNext]_contractVars => [Final]_contractVars
  BY <1>1
<1>3. ContractSpec => [][Final]_contractVars
  BY <1>2, ContractInvariant, PTL DEF ContractSpec
<1> QED
  BY <1>3 DEF EndsAreFinal, Final

\* No package is lost but to a call that named it or to the other package manager.
THEOREM LossesAreNamed ==
  ASSUME OwnersDistinct
  PROVE  ContractSpec => OnlyNamedPackagesGo
<1> DEFINE Named ==
      \/ holder = Pacman
      \/ /\ installed' \subseteq installed
         /\ \A p \in installed \ installed' :
              \E c \in Calls : status[c] = "removing" /\ holder = c /\ p \in asked[c]
<1>1. ASSUME ContractInv, ContractNext PROVE Named
  <2>1. ASSUME NEW c \in Calls, RemoveOne(c) PROVE Named
    BY <2>1 DEF RemoveOne
  <2> QED
    BY <1>1, <2>1 DEF ContractNext, Submit, Authorize, Begin, Succeed, Fail, OtherBegin, OtherEnd
<1> HIDE DEF Named
<1>2. ContractInv /\ [ContractNext]_contractVars => [Named]_contractVars
  BY <1>1
<1>3. ContractSpec => [][Named]_contractVars
  BY <1>2, ContractInvariant, PTL DEF ContractSpec
<1> QED
  BY <1>3 DEF OnlyNamedPackagesGo, Named

\* "removed" is said by the owner of the database, with all of it gone.
THEOREM SuccessMeansGone ==
  ASSUME OwnersDistinct
  PROVE  ContractSpec => SuccessIsEarned
<1> DEFINE Earned ==
      \A c \in Calls :
        /\ status[c] # "removing" /\ status'[c] = "removing" => status[c] = "authorized"
        /\ status[c] # "removed" /\ status'[c] = "removed" =>
             /\ status[c] = "removing" /\ holder = c
             /\ asked'[c] \cap installed' = {}
<1>1. ASSUME ContractInv, ContractNext PROVE Earned
  <2> USE DEF ContractInv, ContractTypeOK
  <2>1. ASSUME NEW c \in Calls, Submit(c) \/ Authorize(c) \/ Begin(c) PROVE Earned
    BY <1>1, <2>1 DEF Submit, Authorize, Begin
  <2>2. ASSUME NEW c \in Calls, RemoveOne(c) \/ Succeed(c) \/ Fail(c) PROVE Earned
    BY <1>1, <2>2 DEF RemoveOne, Succeed, Fail
  <2>3. CASE OtherBegin \/ OtherEnd
    BY <1>1, <2>3 DEF OtherBegin, OtherEnd
  <2> QED
    BY <1>1, <2>1, <2>2, <2>3 DEF ContractNext
<1> HIDE DEF Earned
<1>2. ContractInv /\ [ContractNext]_contractVars => [Earned]_contractVars
  BY <1>1
<1>3. ContractSpec => [][Earned]_contractVars
  BY <1>2, ContractInvariant, PTL DEF ContractSpec
<1> QED
  BY <1>3 DEF SuccessIsEarned, Earned
=============================================================================
