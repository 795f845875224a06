------------------------------- MODULE Parsers -------------------------------
(***************************************************************************)
(* The parsers of src/ulpf/parsing and the registry that picks one.  They   *)
(* are functions of the record: its text is abstracted to what they ask.    *)
(*                                                                         *)
(* A record is [reads, form, body]: the syntaxes it matches, what its JSON  *)
(* or XML text or its header decodes to, and its fields, a function from    *)
(* the names that are present to values.  A value is a token: the           *)
(* operations on it (title, int, ip_address, fromisoformat) are tables.     *)
(***************************************************************************)
EXTENDS Integers, Sequences, FiniteSets

\* The dictionary {**g, **f}.
f ++ g == [x \in DOMAIN f \cup DOMAIN g |-> IF x \in DOMAIN f THEN f[x] ELSE g[x]]

\* A list or an object where a scalar belongs.
Nested == "[]"

\* The value at the first of some places in a list of names.
AtFirst(item, names, places, default) ==
  IF places = {} THEN default
  ELSE item[names[CHOOSE i \in places : \A j \in places : i <= j]]

\* item.get(a, item.get(b, ... default)): the first name that is present.
Get(item, names, default) ==
  AtFirst(item, names, {i \in DOMAIN names : names[i] \in DOMAIN item}, default)

\* item.get(a) or item.get(b) or ...: the first that is not empty.
Or(item, names) ==
  AtFirst(item, names,
          {i \in DOMAIN names : names[i] \in DOMAIN item /\ item[names[i]] # ""}, "")

\* What int() makes of a value; the others raise.
Numerals == {"-1", "0", "4", "7", "9", "200", "401", "500", "65535", "65536"}
IntOf ==
  [v \in Numerals |->
     CASE v = "-1" -> -1 [] v = "0" -> 0 [] v = "4" -> 4 [] v = "7" -> 7 [] v = "9" -> 9
       [] v = "200" -> 200 [] v = "401" -> 401 [] v = "500" -> 500
       [] v = "65535" -> 65535 [] v = "65536" -> 65536]

\* What a parser returns when it cannot read the record; default is the value
\* that the normalizer fills in.
NotParsed ==
  [parsed |-> FALSE, class |-> 0, category |-> 0, activity |-> 0,
   severity |-> "Informational", status |-> "default", time |-> "", missing_ok |-> FALSE,
   src_ip |-> "", dst_ip |-> "", src_port |-> "", dst_port |-> "",
   user |-> "", metadata |-> <<>>]
Parsed(class, category, fields) ==
  fields ++ [parsed |-> TRUE, class |-> class, category |-> category] ++ NotParsed

----------------------------------------------------------------------------
\* authentication.py

AuthActions ==
  [login |-> <<1, "Unknown">>, login_success |-> <<1, "Success">>,
   login_failure |-> <<1, "Failure">>, logout |-> <<2, "Unknown">>]
Outcomes == [success |-> "Success", failed |-> "Failure"]
OutcomeOf(value) == IF value \in DOMAIN Outcomes THEN Outcomes[value] ELSE "Unknown"

\* The outcomes that the action and the fields name.
\* (variant) the first field that is present decides
FirstOutcome(action, item) ==
  {OutcomeOf(Get(item, <<"status", "outcome">>, "")), AuthActions[action][2]} \ {"Unknown"}
KnownOutcomes(action, item) ==
  ({OutcomeOf(item[key]) : key \in {"status", "outcome"} \cap DOMAIN item}
     \cup {AuthActions[action][2]}) \ {"Unknown"}

----------------------------------------------------------------------------
\* structured.py: JSON objects, CSV rows and XML events.

TimeFields == <<"timestamp", "@timestamp", "time">>
UserFields == <<"user", "username", "actor">>
SrcFields == <<"src_ip", "source_ip", "client_ip", "ip">>
MappedFields ==
  {"timestamp", "@timestamp", "time", "user", "username", "actor", "src_ip", "source_ip",
   "client_ip", "ip", "dst_ip", "destination_ip", "server", "src_port", "source_port",
   "client_port", "dst_port", "destination_port", "server_port", "severity", "level",
   "risk", "event_type", "action", "operation", "service", "app"}

\* str(...).lower(), the synonyms, and title().
SeverityNames ==
  [info |-> "Informational", warn |-> "Medium", error |-> "High", high |-> "High",
   Informational |-> "Informational"]
SeverityOf(value) ==
  IF value \in DOMAIN SeverityNames THEN SeverityNames[value] ELSE "Unheard-Of"

ApiActions == [create |-> 1, read |-> 2, update |-> 3, delete |-> 4]

\* metadata keeps the fields that are not mapped, and names the service of a logon.
Metadata(item, service) ==
  [f \in DOMAIN item \ MappedFields |-> item[f]]
    ++ IF service = "" THEN <<>> ELSE [service |-> service]

StructuredRecord(item) ==
  LET action == Get(item, <<"event_type", "action", "operation">>, "Observed")
      is_auth == action \in DOMAIN AuthActions
      known == KnownOutcomes(action, item)
      server_ip == IF Get(item, <<"server">>, "") = "ip" THEN "ip" ELSE ""
      common ==
        [severity |-> SeverityOf(Get(item, <<"severity", "level", "risk">>, "Informational")),
         time |-> Get(item, TimeFields, ""),
         missing_ok |-> \A i \in DOMAIN TimeFields : TimeFields[i] \notin DOMAIN item,
         user |-> Get(item, UserFields, ""),
         src_ip |-> Get(item, SrcFields, ""),
         dst_ip |-> Get(item, <<"dst_ip", "destination_ip">>, server_ip),
         src_port |-> Get(item, <<"src_port", "source_port", "client_port">>, ""),
         dst_port |-> Get(item, <<"dst_port", "destination_port", "server_port">>, "")]
      refused == \/ \E f \in MappedFields \cap DOMAIN item : item[f] = Nested
                 \/ is_auth /\ Cardinality(known) > 1   \* ValueError
  IN IF refused THEN NotParsed
     ELSE IF is_auth
     THEN Parsed(3002, 3, common ++
            [activity |-> AuthActions[action][1],
             status |-> IF known = {} THEN "Unknown" ELSE CHOOSE s \in known : TRUE,
             metadata |-> Metadata(item, Or(item, <<"service", "app">>))])
     ELSE Parsed(6003, 6, common ++
            [activity |-> IF action \in DOMAIN ApiActions THEN ApiActions[action] ELSE 99,
             status |-> IF action = "denied" THEN "Failure" ELSE "Success",
             metadata |-> Metadata(item, "")])

\* The three parsers differ in what they decode; a record that is no object has no fields.
Structured(r) == IF r.form = "object" THEN StructuredRecord(r.body) ELSE NotParsed

----------------------------------------------------------------------------
\* security.py: findings of CEF and LEEF.  The severity in a CEF header, which may be
\* empty, is given as raw_severity among the fields of the extension.

\* A number on a scale of ten, or a name: title() knows no synonyms.
FindingSeverity(value) ==
  IF value \notin DOMAIN IntOf
  THEN IF value = "high" THEN "High"
       ELSE IF value \in {"Informational", "Unknown"} THEN value ELSE "Unheard-Of"
  ELSE LET n == IntOf[value]
       IN IF n >= 9 THEN "Critical" ELSE IF n >= 7 THEN "High"
          ELSE IF n >= 4 THEN "Medium" ELSE "Low"

Finding(time, severity, fields) ==
  Parsed(2004, 2, fields ++ [activity |-> 1, status |-> "New", time |-> time,
                             missing_ok |-> time = "", severity |-> FindingSeverity(severity)])

Cef(r) ==
  LET ext == r.body
  IN IF r.form # "header" THEN NotParsed
     ELSE Finding(Or(ext, <<"rt", "start", "end">>), Get(ext, <<"raw_severity">>, "Unknown"),
            [src_ip |-> Get(ext, <<"src">>, ""), dst_ip |-> Get(ext, <<"dst">>, ""),
             src_port |-> Get(ext, <<"spt">>, ""), dst_port |-> Get(ext, <<"dpt">>, ""),
             user |-> Get(ext, <<"suser", "duser">>, ""),
             metadata |-> [f \in DOMAIN ext \ {"raw_severity"} |-> ext[f]]])

Leef(r) ==
  LET ext == r.body
  IN IF r.form # "header" THEN NotParsed
     ELSE Finding(Or(ext, <<"devTime">>), Get(ext, <<"sev", "severity">>, "Informational"),
            [src_ip |-> Get(ext, <<"src">>, ""), dst_ip |-> Get(ext, <<"dst">>, ""),
             user |-> Get(ext, <<"usrName">>, ""), metadata |-> ext])

----------------------------------------------------------------------------
\* text.py

\* Errors are application errors, the other levels are API activity.
Log4j(r) ==
  LET error == r.body.level \in {"ERROR", "FATAL"}
  IN Parsed(IF error THEN 6008 ELSE 6003, 6,
       [activity |-> IF error THEN 1 ELSE 99,
        severity |-> CASE r.body.level = "FATAL" -> "Critical" [] r.body.level = "ERROR" -> "High"
                       [] r.body.level = "WARN" -> "Medium" [] OTHER -> "Informational",
        status |-> IF error THEN "Failure" ELSE "Success",
        time |-> r.body.ts])

HttpActivities == [CONNECT |-> 1, DELETE |-> 2, GET |-> 3, HEAD |-> 4, OPTIONS |-> 5,
                   POST |-> 6, PUT |-> 7, TRACE |-> 8, PATCH |-> 9]
Apache(r) ==
  LET code == IntOf[r.body.status]
  IN Parsed(4002, 4,
       [activity |-> IF r.body.method \in DOMAIN HttpActivities
                     THEN HttpActivities[r.body.method] ELSE 99,
        severity |-> IF code >= 500 THEN "High" ELSE IF code >= 400 THEN "Low"
                     ELSE "Informational",
        status |-> IF code >= 400 THEN "Failure" ELSE "Success",
        time |-> r.body.ts, src_ip |-> r.body.ip,
        user |-> IF r.body.user = "-" THEN "" ELSE r.body.user,
        metadata |-> [http_status |-> code]])

\* The date of an RFC 3164 record gets the year nearest to the observation, and with it
\* the zone of the observation; a date that no year has raises ValueError.
Syslog(r) ==
  LET kv == r.body
      old == "rfc5424" \notin r.reads
      time == IF old THEN "zoned" ELSE IF kv.ts = "-" THEN "" ELSE kv.ts
      denied == kv.word \in {"deny", "deny critical"}
  IN IF old /\ kv.ts = "no date" THEN NotParsed
     ELSE Parsed(4001, 4,
       [activity |-> IF denied THEN 5 ELSE IF kv.word = "allow" THEN 1 ELSE 6,
        severity |-> IF kv.word = "deny critical" THEN "Critical"
                     ELSE IF denied THEN "Medium" ELSE "Informational",
        status |-> IF denied THEN "Failure" ELSE "Success",
        time |-> time, missing_ok |-> time = "",
        src_ip |-> Or(kv, <<"src", "srcip", "src_ip">>),
        dst_ip |-> Or(kv, <<"dst", "dstip", "dst_ip">>),
        src_port |-> Get(kv, <<"sport">>, ""), dst_port |-> Get(kv, <<"dport">>, ""),
        metadata |-> kv])

----------------------------------------------------------------------------
\* registry.py

Registered == <<"log4j", "cef", "leef", "json", "apache", "syslog", "xml", "csv">>

\* What detect answers, in hundredths.
Confidence(p, r) ==
  CASE p = "syslog" -> IF "rfc5424" \in r.reads THEN 96
                       ELSE IF "rfc3164" \in r.reads THEN 82 ELSE 0
    [] p \in r.reads \cap {"cef", "leef"} -> 100
    [] p \in r.reads \cap {"json"} -> 95 [] p \in r.reads \cap {"apache"} -> 92
    [] p \in r.reads \cap {"log4j"} -> 90 [] p \in r.reads \cap {"xml"} -> 80
    [] OTHER -> 0

\* The first registered parser of the highest confidence, if it is above zero.
Best(r) ==
  LET better(i, j) == \/ Confidence(Registered[i], r) > Confidence(Registered[j], r)
                      \/ Confidence(Registered[i], r) = Confidence(Registered[j], r) /\ i < j
  IN CHOOSE i \in DOMAIN Registered : \A j \in DOMAIN Registered \ {i} : better(i, j)
Detected(r) == IF Confidence(Registered[Best(r)], r) = 0 THEN "unknown" ELSE Registered[Best(r)]

\* forced is the format of the document, or "none".  What parse raises is no parse.
Parse(r, forced) ==
  LET p == IF forced = "none" THEN Detected(r) ELSE forced
  IN [format |-> p] ++
     CASE p = "unknown" -> NotParsed
       [] p = "log4j" -> Log4j(r) [] p = "apache" -> Apache(r) [] p = "syslog" -> Syslog(r)
       [] p = "cef" -> Cef(r) [] p = "leef" -> Leef(r)
       [] OTHER -> Structured(r)
=============================================================================
