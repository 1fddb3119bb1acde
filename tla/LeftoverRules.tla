----------------------------- MODULE LeftoverRules -----------------------------
(***************************************************************************)
(* What the leftover scanner says of one place in the user's home: which   *)
(* names an installed package goes by, which rules find the place, and the *)
(* vetoes of path policy, ownership and sharing.  Pure operators over a    *)
(* system w: the packages' records and the home directory.                 *)
(*                                                                         *)
(* A file name is the sequence of its words between dots, so that stems,   *)
(* tails and suffixes are what pathlib and str.split() make of them.  No   *)
(* name that a rule finds begins or ends with a dot.                       *)
(***************************************************************************)
EXTENDS Naturals, Sequences

CONSTANTS
  Words,  \* words of names
  Lower,  \* Lower[word]: str.lower()
  Apps    \* installed packages

\* Words of suffixes, in lower case.
SuffixWords == {"desktop", "service", "timer", "socket", "path", "d"}

ASSUME WordsOK ==
  /\ SuffixWords \subseteq Words
  /\ Lower \in [Words -> Words]
  /\ \A w \in Words : Lower[Lower[w]] = Lower[w]
  /\ \A w \in SuffixWords : Lower[w] = w

Names == Seq(Words) \ {<<>>}
NoBinary == <<>>

\* A name without a dot, and a hidden one.
Plain(word)  == <<word>>
Hidden(word) == <<"", word>>

\* The directories the rules look into, by their path below the home.
Config == <<Hidden("config")>>
Share  == <<Hidden("local"), Plain("share")>>
Dir ==
  [config       |-> Config,
   cache        |-> <<Hidden("cache")>>,
   data         |-> Share,
   state        |-> <<Hidden("local"), Plain("state")>>,
   autostart    |-> Append(Config, Plain("autostart")),
   applications |-> Append(Share, Plain("applications")),
   units        |-> Append(Append(Config, Plain("systemd")), Plain("user")),
   profiles     |-> <<Hidden("mozilla"), Plain("firefox")>>]
Areas == DOMAIN Dir

\* What is in one of them; a link is one to a directory, and `marked` says that
\* _verify_firefox_profile() finds a marker.
Places == [area : Areas, name : Names, kind : {"file", "dir", "link"}, marked : BOOLEAN]
PathOf(p) == Append(Dir[p.area], p.name)

\* A package: its name, what its file list says of programs and menu entries, the
\* files it owns below the home, and whether its record can be read.  The home:
\* what is there, one thing of a name in a directory, and the directories that resolve
\* to where they should be.
Records ==
  [package : Names,
   bins    : SUBSET Names,
   entries : SUBSET [id : Names, ok : BOOLEAN, exec : Names \cup {NoBinary}],
   owned   : SUBSET Seq(Names),
   intact  : BOOLEAN]
OnePlacePerName(home) == \A p, q \in home : p.area = q.area /\ p.name = q.name => p = q
Systems ==
  {w \in [record : [Apps -> Records], home : SUBSET Places, inside : SUBSET Areas] :
     OnePlacePerName(w.home)}

-----------------------------------------------------------------------------
(* Identities. *)

LowerName(n) == [i \in DOMAIN n |-> Lower[n[i]]]
Tail1(n) == <<n[Len(n)]>>
Stem(n) == IF Len(n) > 1 THEN SubSeq(n, 1, Len(n) - 1) ELSE n

\* parse_desktop_file() leaves out what is no application's menu entry.
Parsed(r) == {e \in r.entries : e.ok}

Executables(r) == r.bins \cup ({e.exec : e \in Parsed(r)} \ {NoBinary})

\* identity_for_package(), of a record with a file list.
IdentityOf(r) ==
  [package |-> r.package,
   ids     |-> {e.id : e \in Parsed(r)},
   exes    |-> Executables(r)]

\* Identity(package=name): of a fallback record, or without any.
BareIdentity(r) == [package |-> r.package, ids |-> {}, exes |-> {}]

\* build_identity_index().
Identity(w, a) == IF w.record[a].intact THEN IdentityOf(w.record[a]) ELSE BareIdentity(w.record[a])

\* identities.get(name, Identity(package=name)), with the identities of `known` at hand.
IdentityAt(w, known, a) == IF a \in known THEN Identity(w, a) ELSE BareIdentity(w.record[a])

\* Identity.candidate_names.
CandidateNames(id) ==
  {LowerName(n) : n \in {id.package} \cup id.ids \cup {Tail1(d) : d \in id.ids} \cup id.exes}

-----------------------------------------------------------------------------
(* Discovery. *)

\* _exact_token_dirs().
FoundByToken(w, id, area) ==
  {p \in w.home : p.area = area /\ LowerName(p.name) \in CandidateNames(id)}

\* The suffixes a desktop id has in each of the other directories.
Suffixes ==
  [autostart    |-> {<<"desktop">>},
   applications |-> {<<"desktop">>},
   units        |-> {<<"service">>, <<"timer">>, <<"socket">>, <<"path">>, <<"service", "d">>}]

FoundById(w, id, area) ==
  {p \in w.home : p.area = area /\ \E d \in id.ids, s \in Suffixes[area] : p.name = d \o s}

\* AppDataRule.applies_to() for the one rule there is.
FirefoxIds == {<<"firefox">>, <<"org", "mozilla", "firefox">>, <<"mozilla-firefox">>}
AppliesTo(id) ==
  \E n \in {id.package} \cup id.ids \cup id.exes : LowerName(n) \in FirefoxIds

\* _firefox_profile_pattern().
FoundByPattern(w, id) ==
  {p \in w.home : p.area = "profiles" /\ p.kind = "dir" /\ AppliesTo(id)}

\* rule.discover(), for the rule that looks into this directory.
Discover(w, id, area) ==
  CASE area \in {"config", "cache", "data", "state"} -> FoundByToken(w, id, area)
    [] area = "profiles"                             -> FoundByPattern(w, id)
    [] OTHER                                         -> FoundById(w, id, area)

-----------------------------------------------------------------------------
(* Vetoes. *)

ProtectedBasenames ==
  {Plain(w) : w \in {"cachyuninstall", "fontconfig", "dconf", "gnupg", "kwalletd", "kwallet",
                      "plasma-workspace", "systemd"}}

\* Mutant of Allowed: the names are not looked at.
AllowedByPlace(w, p) == p.area \in w.inside

\* PathPolicy.classify() is ALLOWED_USER: the parent resolves to an allowed
\* directory, and neither of the last two names is protected.
Allowed(w, p) ==
  /\ p.area \in w.inside
  /\ p.name \notin ProtectedBasenames
  /\ Dir[p.area][Len(Dir[p.area])] \notin ProtectedBasenames

AtOrBelow(path, file) ==
  Len(path) <= Len(file) /\ SubSeq(file, 1, Len(path)) = path

\* package_claims_below() or package_owners(), without the package itself.
Owners(w, a, p) ==
  {b \in Apps \ {a} : \E f \in w.record[b].owned : AtOrBelow(PathOf(p), f)}

\* Mutant of Token: the case of the name on disk is kept.
TokenAsWritten(p) == IF p.kind = "file" THEN Stem(p.name) ELSE p.name

\* The name that sharing is decided by: the stem, unless it is a directory.
Token(p) == LowerName(IF p.kind = "file" THEN Stem(p.name) ELSE p.name)

\* Mutant of SharedWith: a name that several others have is taken for a common word.
SharedWithOne(w, known, a, p) ==
  LET users == {b \in known \ {a} : Token(p) \in CandidateNames(Identity(w, b))}
  IN IF \E b \in users : users = {b} THEN users ELSE {}

\* The others that have this name, too; for a profile, any name of a.
SharedWith(w, known, a, p) ==
  {b \in known \ {a} :
     CandidateNames(Identity(w, b)) \cap
       (IF p.area = "profiles" THEN CandidateNames(IdentityAt(w, known, a)) ELSE {Token(p)}) # {}}

\* What earns a candidate that passed the vetoes the better rating.
Evident(w, a, p) ==
  CASE p.area = "profiles"         -> p.marked
    [] p.area \in DOMAIN Suffixes -> TRUE
    [] OTHER                       -> Token(p) = LowerName(w.record[a].package)

\* _evaluate_candidate() and _evaluate_app_data_candidate().
Rating(w, known, a, p) ==
  IF ~ Allowed(w, p) \/ Owners(w, a, p) # {} \/ SharedWith(w, known, a, p) # {} THEN "protected"
  ELSE IF Evident(w, a, p) THEN "high"
  ELSE "medium"
=============================================================================
