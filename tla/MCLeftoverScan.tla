----------------------------- MODULE MCLeftoverScan -----------------------------
(* LeftoverScan with three packages and a home full of places with like names. *)
EXTENDS LeftoverScan, TLC

CONSTANTS a, b, c

MCApps  == {a, b, c}
MCWords == {"", "ed", "Ed", "edit", "view", "3", "org", "mozilla", "firefox",
            "mozilla-firefox", "cachyuninstall", "systemd", "autostart", "applications",
            "abc", "xyz", "rc", "config", "cache", "local", "share", "state", "user",
            "desktop", "service", "timer", "socket", "path", "d"}
MCLower == [w \in MCWords |-> IF w = "Ed" THEN "ed" ELSE w]

Entry(id, ok, exec) == [id |-> id, ok |-> ok, exec |-> exec]
Record(package, bins, entries, owned, intact) ==
  [package |-> package, bins |-> bins, entries |-> entries, owned |-> owned, intact |-> intact]

\* The scanned one: its names in several spellings, or names other things have.
EdRecords ==
  {Record(<<"ed">>, bins, entries, {}, TRUE) :
     bins    \in {{}, {<<"Ed">>}, {<<"ed", "3">>}},
     entries \in {{}, {Entry(<<"org", "ed">>, TRUE, <<"ed">>)},
                  {Entry(<<"org", "ed">>, FALSE, NoBinary)}, {Entry(<<"ed">>, TRUE, NoBinary)}}}
OddRecords ==
  {Record(<<package>>, {}, entries, {}, TRUE) :
     package \in {"firefox", "autostart", "cachyuninstall", "systemd"},
     entries \in {{}, {Entry(<<"applications">>, TRUE, <<"ed">>)}}}

\* Another that may share names, own files in the home, or be unreadable.
OtherRecords ==
  {Record(<<"view">>, bins, entries, owned, TRUE) :
     bins    \in {{}, {<<"ed">>}, {<<"ed", "3">>}},
     entries \in {{}, {Entry(<<"ed">>, TRUE, NoBinary)}, {Entry(<<"firefox">>, TRUE, NoBinary)}},
     owned   \in {{}, {Append(Append(Dir.config, <<"ed">>), <<"rc">>)}}}
  \cup {Record(<<"view">>, {}, {}, {Append(Dir.data, <<"ed", "3">>)}, TRUE),
        Record(<<"view">>, {<<"ed">>}, {}, {}, FALSE)}

ThirdRecord(bins) == Record(<<"edit">>, bins, {}, {}, TRUE)

Place(area, kind, name) == [area |-> area, name |-> name, kind |-> kind, marked |-> FALSE]
Home ==
  {Place("config", "dir", n) : n \in {<<"ed">>, <<"Ed">>, <<"org", "ed">>, <<"autostart">>,
                                      <<"cachyuninstall">>, <<"systemd">>, <<"firefox">>}}
  \cup {Place("config", "file", <<"ed", "3">>)}
  \cup {Place("cache", "link", <<"Ed">>), Place("state", "file", <<"ed">>)}
  \cup {Place("data", "dir", n) : n \in {<<"ed", "3">>, <<"applications">>, <<"cachyuninstall">>}}
  \cup {Place("autostart", "file", d \o <<"desktop">>) : d \in {<<"ed">>, <<"org", "ed">>}}
  \cup {Place("applications", "file", <<"org", "ed", "desktop">>)}
  \cup {Place("units", "file", <<"ed", "service">>), Place("units", "file", <<"org", "ed", "timer">>),
        Place("units", "dir", <<"ed", "service", "d">>)}
  \cup {[Place("profiles", "dir", <<"abc">>) EXCEPT !.marked = TRUE],
        Place("profiles", "dir", <<"xyz">>), Place("profiles", "link", <<"xyz", "abc">>)}

World(ra, rb, bins, inside) ==
  [record |-> a :> ra @@ b :> rb @@ c :> ThirdRecord(bins), home |-> Home, inside |-> inside]
MCWorlds ==
  {World(ra, rb, {}, inside) :
     ra \in EdRecords \cup OddRecords, rb \in OtherRecords,
     inside \in {Areas, Areas \ {"config", "autostart", "units"}}}
  \cup {World(ra, rb, {<<"ed">>}, Areas) : ra \in EdRecords \cup OddRecords, rb \in OtherRecords}
=============================================================================
