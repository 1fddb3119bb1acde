---------------------------- MODULE LeftoverProofs ----------------------------
(***************************************************************************)
(* Proofs about LeftoverScan, for any packages, any home and any           *)
(* identities at hand.                                                     *)
(***************************************************************************)
EXTENDS LeftoverScan, TLAPS

-----------------------------------------------------------------------------
(* The scan. *)

LEMMA AreasAre ==
  Areas = {"config", "cache", "data", "state", "autostart", "applications", "units", "profiles"}
BY DEF Areas, Dir

LEMMA RatingTypes ==
  ASSUME NEW w, NEW k, NEW a, NEW p
  PROVE  Rating(w, k, a, p) \in Confidence
BY DEF Rating, Confidence

\* What was found was found by the rule for its place, and is rated by what the scan
\* has read, however many rules have run since.
Rated ==
  /\ DOMAIN rating = candidates
  /\ pc \in {"read", "failed"} => candidates = {}
  /\ \A p \in candidates :
       /\ p.area \in Areas
       /\ p \in Discover(system, IdentityAt(system, known, app), p.area)
       /\ rating[p] = Rating(system, known, app, p)

Inv == TypeOK /\ Rated

LEMMA DiscoverInHome ==
  ASSUME system \in Systems, NEW id, NEW area \in Areas
  PROVE  /\ Discover(system, id, area) \subseteq system.home
         /\ \A p \in Discover(system, id, area) : p.area = area
<1>1. CASE area = "profiles"
  BY <1>1 DEF Discover, FoundByPattern
<1>2. CASE area \in {"config", "cache", "data", "state"}
  BY <1>2 DEF Discover, FoundByToken
<1>3. CASE area \notin {"config", "cache", "data", "state", "profiles"}
  BY <1>3 DEF Discover, FoundById
<1> QED
  BY <1>1, <1>2, <1>3

LEMMA InvInit == Init => Inv
<1> SUFFICES ASSUME Init PROVE Inv
  OBVIOUS
<1>1. TypeOK
  BY WorldsOK DEF Init, TypeOK
<1> QED
  BY <1>1 DEF Init, Inv, Rated

LEMMA RunRuleStep ==
  ASSUME Inv, RunRule
  PROVE  Inv'
<1> DEFINE area == Head(rules)
<1> DEFINE found == Discover(system, IdentityAt(system, known, app), area)
<1>1. area \in Areas /\ Tail(rules) \in Seq(Areas)
  BY DEF RunRule, Inv, TypeOK
<1>2. found \subseteq system.home /\ \A p \in found : p.area = area
  BY <1>1, DiscoverInHome DEF Inv, TypeOK
<1>3. UNCHANGED inputVars /\ pc = "scan" /\ pc' = pc /\ rules' = Tail(rules)
  BY DEF RunRule
<1>4. candidates' = candidates \cup found
  BY DEF RunRule
<1>5. DOMAIN rating' = candidates'
  BY DEF RunRule
<1>6. \A p \in candidates' :
        rating'[p] = IF p \in candidates THEN rating[p] ELSE Rating(system, known, app, p)
  BY DEF RunRule
<1>7. \A p \in candidates' : rating'[p] = Rating(system, known, app, p)
  BY <1>6 DEF Inv, Rated
<1>8. \A p \in candidates' : p.area \in Areas
        /\ p \in Discover(system, IdentityAt(system, known, app), p.area)
  BY <1>1, <1>2, <1>4 DEF Inv, Rated
<1>9. rating' \in [candidates' -> Confidence]
  <2>1. rating' = [p \in candidates' |-> rating'[p]]
    BY DEF RunRule
  <2>2. \A p \in candidates' : rating'[p] \in Confidence
    BY <1>7, RatingTypes
  <2> QED
    BY <2>1, <2>2
<1>10. candidates' \in SUBSET system.home
  BY <1>2, <1>4 DEF Inv, TypeOK
<1> HIDE DEF area, found
<1>11. TypeOK'
  BY <1>1, <1>3, <1>9, <1>10 DEF Inv, TypeOK, inputVars
<1>12. Rated'
  BY <1>3, <1>5, <1>7, <1>8 DEF Rated, inputVars
<1> QED
  BY <1>11, <1>12 DEF Inv

LEMMA InvStep == Inv /\ [Next]_vars => Inv'
<1> SUFFICES ASSUME Inv, [Next]_vars PROVE Inv'
  OBVIOUS
<1>1. CASE Read
  <2>1. rules' \in Seq(Areas)
    <3>1. \A i \in 1..8 : RuleOrder[i] \in Areas
      BY AreasAre DEF RuleOrder
    <3>2. RuleOrder \in Seq(Areas)
      BY <3>1, AreasAre DEF RuleOrder
    <3> QED
      BY <1>1, <3>2 DEF Read
  <2>2. TypeOK'
    BY <1>1, <2>1 DEF Read, Inv, TypeOK, Rated
  <2> QED
    BY <1>1, <2>2 DEF Read, Inv, Rated
<1>2. CASE Fail
  BY <1>2 DEF Fail, Inv, TypeOK, Rated, inputVars
<1>3. CASE RunRule
  BY <1>3, RunRuleStep
<1>4. CASE Finish
  BY <1>4 DEF Finish, Inv, TypeOK, Rated, inputVars
<1>5. CASE UNCHANGED vars
  BY <1>5 DEF vars, inputVars, Inv, TypeOK, Rated
<1> QED
  BY <1>1, <1>2, <1>3, <1>4, <1>5 DEF Next

LEMMA Invariant == Spec => []Inv
BY InvInit, InvStep, PTL DEF Spec

\* Every variable of the scan keeps its type; what was found is rated.
THEOREM ScanTypeCorrect == Spec => []TypeOK
<1>1. Inv => TypeOK
  BY DEF Inv
<1> QED
  BY <1>1, Invariant, PTL

\* An offered place passed every veto.
LEMMA OfferedPassed ==
  ASSUME Inv, NEW p \in Offered
  PROVE  /\ p \in candidates /\ p \in system.home /\ p.area \in Areas
         /\ p \in Discover(system, IdentityAt(system, known, app), p.area)
         /\ Allowed(system, p)
         /\ Owners(system, app, p) = {}
         /\ SharedWith(system, known, app, p) = {}
<1>1. p \in candidates /\ rating[p] # "protected"
  BY DEF Offered
<1>2. Rating(system, known, app, p) # "protected"
  BY <1>1 DEF Inv, Rated
<1>3. p \in system.home
  BY <1>1 DEF Inv, TypeOK
<1> QED
  BY <1>1, <1>2, <1>3 DEF Inv, Rated, Rating

\* Rating with fewer identities at hand never vetoes more.
LEMMA SharingMonotone ==
  ASSUME NEW w, NEW a, NEW p, NEW more, a \in more, NEW fewer \in SUBSET more
  PROVE  SharedWith(w, fewer \cup {a}, a, p) \subseteq SharedWith(w, more, a, p)
<1>1. IdentityAt(w, fewer \cup {a}, a) = IdentityAt(w, more, a)
  BY DEF IdentityAt
<1> QED
  BY <1>1 DEF SharedWith

\* An installed package that is not at hand can only cost a veto.
THEOREM MoreIdentitiesVetoMore == Spec => []VetoesAreMonotone
<1>1. ASSUME Inv, NEW p \in Offered, NEW fewer \in SUBSET known, app \in known
      PROVE  Rating(system, fewer \cup {app}, app, p) # "protected"
  <2>1. SharedWith(system, fewer \cup {app}, app, p) = {}
    BY <1>1, OfferedPassed, SharingMonotone
  <2> QED
    BY <1>1, <2>1, OfferedPassed DEF Rating
<1>2. Inv => VetoesAreMonotone
  BY <1>1 DEF VetoesAreMonotone
<1> QED
  BY <1>2, Invariant, PTL

-----------------------------------------------------------------------------
(* Names. *)

LEMMA LowerNames ==
  ASSUME NEW n \in Seq(Words)
  PROVE  /\ LowerName(n) \in Seq(Words)
         /\ Len(LowerName(n)) = Len(n)
         /\ \A i \in 1..Len(n) : LowerName(n)[i] = Lower[n[i]]
         /\ LowerName(LowerName(n)) = LowerName(n)
<1>1. DOMAIN n = 1..Len(n) /\ \A i \in 1..Len(n) : n[i] \in Words
  OBVIOUS
<1>2. /\ LowerName(n) \in Seq(Words)
      /\ Len(LowerName(n)) = Len(n)
      /\ \A i \in 1..Len(n) : LowerName(n)[i] = Lower[n[i]]
  <2>1. LowerName(n) \in [1..Len(n) -> Words]
    BY <1>1, WordsOK DEF LowerName
  <2>2. Len(n) \in Nat
    OBVIOUS
  <2> QED
    BY <1>1, <2>1, <2>2 DEF LowerName
<1>3. LowerName(LowerName(n)) = [i \in 1..Len(n) |-> Lower[Lower[n[i]]]]
  BY <1>1, <1>2 DEF LowerName
<1>4. LowerName(n) = [i \in 1..Len(n) |-> Lower[n[i]]]
  BY <1>1 DEF LowerName
<1> QED
  BY <1>1, <1>2, <1>3, <1>4, WordsOK

\* What a package goes by is in lower case.
LEMMA CandidatesAreLower ==
  ASSUME NEW r \in Records, NEW n \in CandidateNames(IdentityOf(r))
  PROVE  n \in Names /\ LowerName(n) = n
<1>1. PICK m : n = LowerName(m) /\
        m \in {r.package} \cup {e.id : e \in Parsed(r)} \cup {Tail1(d) : d \in {e.id : e \in Parsed(r)}}
              \cup Executables(r)
  BY DEF CandidateNames, IdentityOf
<1>2. r.package \in Names /\ r.bins \subseteq Names
      /\ \A e \in r.entries : e.id \in Names /\ e.exec \in Names \cup {NoBinary}
  BY DEF Records
<1>3. \A d \in Names : Tail1(d) \in Names
  BY DEF Tail1, Names
<1>4. m \in Names
  BY <1>1, <1>2, <1>3 DEF Parsed, Executables
<1> QED
  BY <1>1, <1>4, LowerNames DEF Names

\* Two names that are alike but for their case and end in suffixes of which one is
\* not a drop-in directory's: what comes before is alike.
LEMMA StemsAlike ==
  ASSUME NEW d \in Names, NEW n \in Names,
         NEW s \in {<<w>> : w \in SuffixWords \ {"d"}},
         NEW t \in {<<w>> : w \in SuffixWords \ {"d"}} \cup {<<"service", "d">>},
         LowerName(d \o s) = n \o t
  PROVE  LowerName(Stem(d \o s)) = n
<1>1. d \in Seq(Words) /\ n \in Seq(Words) /\ Len(d) \in Nat \ {0} /\ Len(n) \in Nat \ {0}
  BY DEF Names
<1>2. PICK w \in SuffixWords \ {"d"} : s = <<w>>
  OBVIOUS
<1>3. d \o s \in Seq(Words) /\ Len(d \o s) = Len(d) + 1 /\ (d \o s)[Len(d) + 1] = w
      /\ \A i \in 1..Len(d) : (d \o s)[i] = d[i]
  BY <1>1, <1>2, WordsOK
<1>4. /\ Len(n \o t) = Len(d) + 1
      /\ (n \o t)[Len(d) + 1] = w
      /\ \A i \in 1..Len(d) : (n \o t)[i] = Lower[d[i]]
  <2>1. Len(LowerName(d \o s)) = Len(d) + 1
        /\ \A i \in 1..(Len(d) + 1) : LowerName(d \o s)[i] = Lower[(d \o s)[i]]
    BY <1>3, LowerNames
  <2> QED
    BY <1>1, <1>2, <1>3, <2>1, WordsOK
<1>5. t # <<"service", "d">>
  <2> SUFFICES ASSUME t = <<"service", "d">> PROVE FALSE
    OBVIOUS
  <2>1. Len(n \o t) = Len(n) + 2 /\ (n \o t)[Len(n) + 2] = "d"
    BY <1>1
  <2> QED
    BY <1>1, <1>2, <1>4, <2>1
<1>6. PICK v \in SuffixWords \ {"d"} : t = <<v>>
  BY <1>5
<1>7. Len(n) = Len(d) /\ \A i \in 1..Len(d) : n[i] = Lower[d[i]]
  BY <1>1, <1>4, <1>6
<1>8. Stem(d \o s) = d
  BY <1>1, <1>3 DEF Stem
<1>9. n = LowerName(d)
  BY <1>1, <1>7 DEF LowerName
<1> QED
  BY <1>8, <1>9

LEMMA SuffixesAre ==
  ASSUME NEW area \in DOMAIN Suffixes
  PROVE  /\ area \in {"autostart", "applications", "units"}
         /\ \A s \in Suffixes[area] :
              s \in {<<w>> : w \in SuffixWords \ {"d"}} \cup {<<"service", "d">>}
<1>1. area \in {"autostart", "applications", "units"}
  BY DEF Suffixes
<1> QED
  BY <1>1 DEF Suffixes, SuffixWords

\* An id of a package is a name.
LEMMA IdsAreNames ==
  ASSUME TypeOK
  PROVE  IdentityAt(system, known, app).ids \subseteq Names
<1>1. system.record[app] \in Records
  BY DEF TypeOK, Systems
<1>2. \A e \in system.record[app].entries : e.id \in Names
  BY <1>1 DEF Records
<1> QED
  BY <1>2 DEF IdentityAt, Identity, IdentityOf, BareIdentity, Parsed

\* The two names agree for a place that is none of the exceptions.
LEMMA TokenIsTheName ==
  ASSUME TypeOK, NEW p \in system.home, p.area \in Areas \ {"profiles"},
         p \in Discover(system, IdentityAt(system, known, app), p.area),
         ~ Inexact(p),
         NEW n \in Names, LowerName(n) = n,
         FoundAs([p EXCEPT !.name = LowerName(@)], n)
  PROVE  Token(p) = n
<1>1. p.name \in Names /\ p.name \in Seq(Words) /\ p \in Places
  BY DEF TypeOK, Systems, Places, Names
<1>2. /\ [p EXCEPT !.name = LowerName(@)].name = LowerName(p.name)
      /\ [p EXCEPT !.name = LowerName(@)].area = p.area
  BY <1>1 DEF Places
<1>3. CASE p.area \in DOMAIN Suffixes
  <2>1. PICK t \in Suffixes[p.area] : LowerName(p.name) = n \o t
    BY <1>2, <1>3 DEF FoundAs
  <2>2. p \in FoundById(system, IdentityAt(system, known, app), p.area)
    BY <1>3, SuffixesAre DEF Discover
  <2>3. PICK d \in Names, s \in Suffixes[p.area] : p.name = d \o s
    BY <2>2, IdsAreNames DEF FoundById
  <2>4. s # <<"service", "d">>
    <3> SUFFICES ASSUME s = <<"service", "d">> PROVE FALSE
      OBVIOUS
    <3>1. Len(p.name) = Len(d) + 2 /\ p.name[Len(d) + 2] = "d"
      BY <2>3 DEF Names
    <3> QED
      BY <1>3, <3>1 DEF Inexact, Tail1
  <2>5. /\ s \in {<<w>> : w \in SuffixWords \ {"d"}}
        /\ t \in {<<w>> : w \in SuffixWords \ {"d"}} \cup {<<"service", "d">>}
    BY <1>3, <2>4, SuffixesAre
  <2>6. LowerName(d \o s) = n \o t
    BY <2>1, <2>3
  <2>7. LowerName(Stem(d \o s)) = n
    BY <2>5, <2>6, StemsAlike
  <2> QED
    BY <1>3, <2>3, <2>7 DEF Inexact, Token
<1>4. CASE p.area \notin DOMAIN Suffixes
  <2>1. LowerName(LowerName(p.name)) = LowerName(n)
    BY <1>2, <1>4 DEF FoundAs
  <2>2. LowerName(p.name) = n
    BY <1>1, <2>1, LowerNames
  <2>3. p.kind = "file" => Stem(p.name) = p.name
    BY <1>1, <1>4 DEF Inexact, Stem, Names
  <2> QED
    BY <2>2, <2>3 DEF Token
<1> QED
  BY <1>3, <1>4

\* Sharing lets through only what the exceptions let through, package by package.
THEOREM SharingHasNoOtherGaps == Spec => []OnlyGapsInSharing
<1>1. ASSUME Inv, NEW p \in Offered, NEW b \in Apps \ {app}, UsedBy(b, p),
             ~ Inexact(p), b \in known, system.record[b].intact
      PROVE  FALSE
  <2>1. PICK n \in TrueNames(b) : FoundAs([p EXCEPT !.name = LowerName(@)], n)
    BY <1>1 DEF UsedBy
  <2>2. n \in Names /\ LowerName(n) = n
    BY CandidatesAreLower, <1>1 DEF TrueNames, Inv, TypeOK, Systems
  <2>3. Token(p) = n
    BY <1>1, <2>1, <2>2, OfferedPassed, TokenIsTheName DEF UsedBy, Inv
  <2>4. Token(p) \in CandidateNames(Identity(system, b))
    BY <1>1, <2>3 DEF TrueNames, Identity
  <2>5. b \in SharedWith(system, known, app, p)
    BY <1>1, <2>4 DEF SharedWith, UsedBy
  <2> QED
    BY <1>1, <2>5, OfferedPassed
<1>2. Inv => OnlyGapsInSharing
  BY <1>1 DEF OnlyGapsInSharing
<1> QED
  BY <1>2, Invariant, PTL

-----------------------------------------------------------------------------
(* Places below offered places. *)

\* A path that is at or below another one continues it.
LEMMA BelowContinues ==
  ASSUME NEW S, NEW d \in Seq(S), NEW n \in S, NEW e \in Seq(S), NEW m \in S,
         AtOrBelow(Append(d, n), Append(e, m))
  PROVE  /\ Len(d) <= Len(e)
         /\ \A i \in 1..Len(d) : e[i] = d[i]
         /\ Len(d) = Len(e) => n = m
         /\ Len(d) < Len(e) => e[Len(d) + 1] = n
<1> DEFINE path == Append(d, n)
<1> DEFINE file == Append(e, m)
<1>1. path \in Seq(S) /\ Len(path) = Len(d) + 1 /\ Len(d) \in Nat
      /\ path[Len(d) + 1] = n /\ \A i \in 1..Len(d) : path[i] = d[i]
  OBVIOUS
<1>2. file \in Seq(S) /\ Len(file) = Len(e) + 1 /\ Len(e) \in Nat
      /\ file[Len(e) + 1] = m /\ \A i \in 1..Len(e) : file[i] = e[i]
  OBVIOUS
<1>3. Len(path) <= Len(file) /\ SubSeq(file, 1, Len(path)) = path
  BY DEF AtOrBelow
<1> HIDE DEF path, file
<1>4. \A i \in 1..Len(path) : path[i] = file[i]
  <2>1. \A i \in 1..Len(path) : SubSeq(file, 1, Len(path))[i] = file[i]
    BY <1>1, <1>2, <1>3
  <2> QED
    BY <1>3, <2>1
<1>5. Len(d) <= Len(e)
  BY <1>1, <1>2, <1>3
<1>6. ASSUME NEW i \in 1..Len(d) PROVE e[i] = d[i]
  <2>1. i \in 1..Len(path) /\ i \in 1..Len(e)
    BY <1>1, <1>5, <1>2
  <2>2. path[i] = d[i] /\ file[i] = e[i] /\ path[i] = file[i]
    BY <1>1, <1>2, <1>4, <2>1
  <2> QED
    BY <2>2
<1>7. n = file[Len(d) + 1]
  <2>1. Len(d) + 1 \in 1..Len(path)
    BY <1>1
  <2> QED
    BY <1>1, <1>4, <2>1
<1>8. Len(d) = Len(e) => n = m
  BY <1>2, <1>7
<1>9. ASSUME Len(d) < Len(e) PROVE e[Len(d) + 1] = n
  <2>1. Len(d) + 1 \in 1..Len(e)
    BY <1>1, <1>2, <1>9
  <2> QED
    BY <1>2, <1>7, <2>1
<1> QED
  BY <1>5, <1>6, <1>8, <1>9

\* Names of different words, or of which one is hidden, differ.
LEMMA NamesDiffer ==
  ASSUME NEW x, NEW y
  PROVE  /\ Plain(x) # Hidden(y)
         /\ x # y => Plain(x) # Plain(y) /\ Hidden(x) # Hidden(y)
<1>1. <<x>> # <<"", y>>
  <2>1. Len(<<x>>) = 1 /\ Len(<<"", y>>) = 2
    OBVIOUS
  <2> QED
    BY <2>1
<1>2. ASSUME x # y PROVE <<x>> # <<y>>
  <2>1. <<x>>[1] = x /\ <<y>>[1] = y
    OBVIOUS
  <2> QED
    BY <1>2, <2>1
<1>3. ASSUME x # y PROVE <<"", x>> # <<"", y>>
  <2>1. <<"", x>>[2] = x /\ <<"", y>>[2] = y
    OBVIOUS
  <2> QED
    BY <1>3, <2>1
<1> QED
  BY <1>1, <1>2, <1>3 DEF Plain, Hidden

\* Names of words of the rules' directories or of anything else.
DirWords ==
  {"", "config", "cache", "local", "share", "state", "autostart", "applications", "systemd",
   "user", "mozilla", "firefox"}
AnyNames == Seq(Words \cup DirWords)

LEMMA DirNames ==
  \A x \in DirWords : Plain(x) \in AnyNames /\ Hidden(x) \in AnyNames
<1>1. ASSUME NEW S, NEW a \in S, NEW b \in S PROVE <<b>> \in Seq(S) /\ <<a, b>> \in Seq(S)
  OBVIOUS
<1> QED
  BY <1>1 DEF Plain, Hidden, AnyNames, DirWords

\* A directory that the rules look into, element by element.
IsPath1(d, a) == d \in Seq(AnyNames) /\ Len(d) = 1 /\ d[1] = a
IsPath2(d, a, b) == d \in Seq(AnyNames) /\ Len(d) = 2 /\ d[1] = a /\ d[2] = b
IsPath3(d, a, b, c) ==
  d \in Seq(AnyNames) /\ Len(d) = 3 /\ d[1] = a /\ d[2] = b /\ d[3] = c

LEMMA TuplesArePaths ==
  ASSUME NEW a \in AnyNames, NEW b \in AnyNames
  PROVE  IsPath1(<<a>>, a) /\ IsPath2(<<a, b>>, a, b)
<1>1. ASSUME NEW S, NEW x \in S, NEW y \in S
      PROVE  /\ <<x>> \in Seq(S) /\ Len(<<x>>) = 1 /\ <<x>>[1] = x
             /\ <<x, y>> \in Seq(S) /\ Len(<<x, y>>) = 2 /\ <<x, y>>[1] = x /\ <<x, y>>[2] = y
  OBVIOUS
<1> QED
  BY <1>1 DEF IsPath1, IsPath2

LEMMA PathsGrow ==
  ASSUME NEW d, NEW a, NEW b, NEW c \in AnyNames
  PROVE  /\ IsPath1(d, a) => IsPath2(Append(d, c), a, c)
         /\ IsPath2(d, a, b) => IsPath3(Append(d, c), a, b, c)
<1>1. ASSUME NEW S, NEW s \in Seq(S), NEW e \in S
      PROVE  /\ Append(s, e) \in Seq(S) /\ Len(Append(s, e)) = Len(s) + 1
             /\ Append(s, e)[Len(s) + 1] = e
             /\ \A i \in 1..Len(s) : Append(s, e)[i] = s[i]
  OBVIOUS
<1> SUFFICES ASSUME d \in Seq(AnyNames) PROVE
      /\ IsPath1(d, a) => IsPath2(Append(d, c), a, c)
      /\ IsPath2(d, a, b) => IsPath3(Append(d, c), a, b, c)
  BY DEF IsPath1, IsPath2
<1>2. /\ Append(d, c) \in Seq(AnyNames) /\ Len(Append(d, c)) = Len(d) + 1
      /\ Append(d, c)[Len(d) + 1] = c
      /\ \A i \in 1..Len(d) : Append(d, c)[i] = d[i]
  BY <1>1
<1> DEFINE grown == Append(d, c)
<1> HIDE DEF grown
<1>3. /\ grown \in Seq(AnyNames) /\ Len(grown) = Len(d) + 1 /\ grown[Len(d) + 1] = c
      /\ \A i \in 1..Len(d) : grown[i] = d[i]
  BY <1>2 DEF grown
<1>4. /\ IsPath1(d, a) => IsPath2(grown, a, c)
      /\ IsPath2(d, a, b) => IsPath3(grown, a, b, c)
  BY <1>3 DEF IsPath1, IsPath2, IsPath3
<1> QED
  BY <1>4 DEF grown

LEMMA DirsAre ==
  /\ IsPath1(Dir["config"], Hidden("config"))
  /\ IsPath1(Dir["cache"], Hidden("cache"))
  /\ IsPath2(Dir["data"], Hidden("local"), Plain("share"))
  /\ IsPath2(Dir["state"], Hidden("local"), Plain("state"))
  /\ IsPath2(Dir["autostart"], Hidden("config"), Plain("autostart"))
  /\ IsPath3(Dir["applications"], Hidden("local"), Plain("share"), Plain("applications"))
  /\ IsPath3(Dir["units"], Hidden("config"), Plain("systemd"), Plain("user"))
  /\ IsPath2(Dir["profiles"], Hidden("mozilla"), Plain("firefox"))
<1>1. /\ Dir["config"] = <<Hidden("config")>>
      /\ Dir["cache"] = <<Hidden("cache")>>
      /\ Dir["data"] = <<Hidden("local"), Plain("share")>>
      /\ Dir["state"] = <<Hidden("local"), Plain("state")>>
      /\ Dir["autostart"] = Append(<<Hidden("config")>>, Plain("autostart"))
      /\ Dir["applications"] = Append(<<Hidden("local"), Plain("share")>>, Plain("applications"))
      /\ Dir["units"] = Append(Append(<<Hidden("config")>>, Plain("systemd")), Plain("user"))
      /\ Dir["profiles"] = <<Hidden("mozilla"), Plain("firefox")>>
  BY DEF Dir, Config, Share
<1>2. /\ Hidden("config") \in AnyNames /\ Hidden("cache") \in AnyNames
      /\ Hidden("local") \in AnyNames /\ Hidden("mozilla") \in AnyNames
      /\ Plain("share") \in AnyNames /\ Plain("state") \in AnyNames
      /\ Plain("autostart") \in AnyNames /\ Plain("applications") \in AnyNames
      /\ Plain("systemd") \in AnyNames /\ Plain("user") \in AnyNames
      /\ Plain("firefox") \in AnyNames
  BY DirNames DEF DirWords
<1>3. ASSUME NEW a \in AnyNames, NEW b \in AnyNames, NEW c \in AnyNames
      PROVE  /\ IsPath1(<<a>>, a) /\ IsPath2(<<a, b>>, a, b) /\ IsPath2(Append(<<a>>, b), a, b)
             /\ IsPath3(Append(<<a, b>>, c), a, b, c)
             /\ IsPath3(Append(Append(<<a>>, b), c), a, b, c)
  <2>1. IsPath1(<<a>>, a) /\ IsPath2(<<a, b>>, a, b)
    BY TuplesArePaths
  <2>2. IsPath2(Append(<<a>>, b), a, b)
    BY <2>1, PathsGrow
  <2> QED
    BY <2>1, <2>2, PathsGrow
<1> QED
  BY <1>1, <1>2, <1>3

\* Of the directories that the rules look into, only those of menu entries, autostart
\* entries and units lie in others, and below one of these three names there.
LEMMA NestedDirs ==
  ASSUME NEW outer \in Areas, NEW inner \in Areas,
         Len(Dir[outer]) <= Len(Dir[inner]),
         \A i \in 1..Len(Dir[outer]) : Dir[inner][i] = Dir[outer][i]
  PROVE  \/ outer = inner
         \/ /\ Len(Dir[outer]) < Len(Dir[inner])
            /\ Dir[inner][Len(Dir[outer]) + 1] \in
                 {Plain("autostart"), Plain("applications"), Plain("systemd")}
<1> DEFINE hConfig == Hidden("config")
<1> DEFINE hCache == Hidden("cache")
<1> DEFINE hLocal == Hidden("local")
<1> DEFINE hMozilla == Hidden("mozilla")
<1> DEFINE pShare == Plain("share")
<1> DEFINE pState == Plain("state")
<1> DEFINE pAuto == Plain("autostart")
<1> DEFINE pApps == Plain("applications")
<1> DEFINE pSystemd == Plain("systemd")
<1> DEFINE o == Dir[outer]
<1> DEFINE n == Dir[inner]
<1>1. /\ hConfig # hCache /\ hConfig # hLocal /\ hConfig # hMozilla
      /\ hCache # hLocal /\ hCache # hMozilla /\ hLocal # hMozilla
      /\ pShare # pState /\ pAuto # pSystemd
  BY NamesDiffer
<1>2. /\ \/ outer = "config" /\ Len(o) = 1 /\ o[1] = hConfig
         \/ outer = "cache" /\ Len(o) = 1 /\ o[1] = hCache
         \/ outer = "data" /\ Len(o) = 2 /\ o[1] = hLocal /\ o[2] = pShare
         \/ outer = "state" /\ Len(o) = 2 /\ o[1] = hLocal /\ o[2] = pState
         \/ outer = "autostart" /\ Len(o) = 2 /\ o[1] = hConfig /\ o[2] = pAuto
         \/ outer = "applications" /\ Len(o) = 3 /\ o[1] = hLocal /\ o[2] = pShare /\ o[3] = pApps
         \/ outer = "units" /\ Len(o) = 3 /\ o[1] = hConfig /\ o[2] = pSystemd
         \/ outer = "profiles" /\ Len(o) = 2 /\ o[1] = hMozilla
  BY AreasAre, DirsAre DEF IsPath1, IsPath2, IsPath3
<1>3. /\ \/ inner = "config" /\ Len(n) = 1 /\ n[1] = hConfig
         \/ inner = "cache" /\ Len(n) = 1 /\ n[1] = hCache
         \/ inner = "data" /\ Len(n) = 2 /\ n[1] = hLocal /\ n[2] = pShare
         \/ inner = "state" /\ Len(n) = 2 /\ n[1] = hLocal /\ n[2] = pState
         \/ inner = "autostart" /\ Len(n) = 2 /\ n[1] = hConfig /\ n[2] = pAuto
         \/ inner = "applications" /\ Len(n) = 3 /\ n[1] = hLocal /\ n[2] = pShare /\ n[3] = pApps
         \/ inner = "units" /\ Len(n) = 3 /\ n[1] = hConfig /\ n[2] = pSystemd
         \/ inner = "profiles" /\ Len(n) = 2 /\ n[1] = hMozilla
  BY AreasAre, DirsAre DEF IsPath1, IsPath2, IsPath3
<1>4. Len(o) <= Len(n) /\ \A i \in 1..Len(o) : n[i] = o[i]
  OBVIOUS
<1> HIDE DEF hConfig, hCache, hLocal, hMozilla, pShare, pState, pAuto, pApps, pSystemd, o, n
<1>5. Len(o) \in Nat /\ n[1] = o[1] /\ (Len(o) >= 2 => n[2] = o[2])
  BY <1>2, <1>4
<1>6. outer = inner \/ (Len(o) < Len(n) /\ n[Len(o) + 1] \in {pAuto, pApps, pSystemd})
  <2>1. CASE Len(o) = 1
    BY <1>1, <1>2, <1>3, <1>5, <2>1
  <2>2. CASE Len(o) = 2
    BY <1>1, <1>2, <1>3, <1>4, <1>5, <2>2
  <2>3. CASE Len(o) = 3
    BY <1>1, <1>2, <1>3, <1>4, <1>5, <2>3
  <2> QED
    BY <1>2, <2>1, <2>2, <2>3
<1> QED
  BY <1>6 DEF o, n, pAuto, pApps, pSystemd

\* A directory that is offered holds nothing that would be found for another package,
\* unless it is the one of all menu entries or of all autostart entries.
THEOREM EntryDirectoriesAreTheOnlyHolders == Spec => []OnlyEntryDirectoriesHoldOthers
<1>1. ASSUME Inv, NEW p \in Offered, NEW b \in Apps \ {app}, NEW area \in Areas,
             NEW q \in Discover(system, Identity(system, b), area),
             AtOrBelow(PathOf(p), PathOf(q)), p # q
      PROVE  p.name \in {Plain("autostart"), Plain("applications")}
  <2>1. p \in system.home /\ p.area \in Areas /\ Allowed(system, p)
    BY <1>1, OfferedPassed
  <2>2. q \in system.home /\ q.area = area
    BY <1>1, DiscoverInHome DEF Inv, TypeOK
  <2>3. p.name \in AnyNames /\ q.name \in AnyNames
    <3>1. p.name \in Seq(Words) /\ q.name \in Seq(Words)
      BY <1>1, <2>1, <2>2 DEF Inv, TypeOK, Systems, Places, Names
    <3> QED
      BY <3>1 DEF AnyNames
  <2>4. \A a \in Areas : Dir[a] \in Seq(AnyNames)
    BY AreasAre, DirsAre DEF IsPath1, IsPath2, IsPath3
  <2>5. /\ Len(Dir[p.area]) <= Len(Dir[area])
        /\ \A i \in 1..Len(Dir[p.area]) : Dir[area][i] = Dir[p.area][i]
        /\ Len(Dir[p.area]) = Len(Dir[area]) => p.name = q.name
        /\ Len(Dir[p.area]) < Len(Dir[area]) => Dir[area][Len(Dir[p.area]) + 1] = p.name
    BY <1>1, <2>1, <2>2, <2>3, <2>4, BelowContinues DEF PathOf
  <2>6. p.area # area
    BY <1>1, <2>1, <2>2, <2>5 DEF Inv, TypeOK, Systems, OnePlacePerName
  <2>7. p.name \in {Plain("autostart"), Plain("applications"), Plain("systemd")}
    BY <2>1, <2>5, <2>6, NestedDirs
  <2>8. p.name # Plain("systemd")
    BY <2>1 DEF Allowed, ProtectedBasenames
  <2> QED
    BY <2>7, <2>8
<1>2. Inv => OnlyEntryDirectoriesHoldOthers
  BY <1>1 DEF OnlyEntryDirectoriesHoldOthers
<1> QED
  BY <1>2, Invariant, PTL
=============================================================================
