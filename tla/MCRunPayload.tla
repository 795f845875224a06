---------------------------- MODULE MCRunPayload ----------------------------
(***************************************************************************)
(* RunPayload for TLC: files of lines, documents of a few short records in  *)
(* every text, and documents of one record with up to three fields in every *)
(* format.                                                                  *)
(***************************************************************************)
EXTENDS RunPayload

CONSTANT MaxLines   \* bound: the longest file of lines

Document(text, rs) == [text |-> text, xml_name |-> FALSE, records |-> rs]
UpTo(n, S) == UNION {[1..k -> S] : k \in 0..n}
Record(reads, form, body, json) ==
  [reads |-> reads, form |-> form, body |-> body, json |-> json,
   text |-> TRUE, trails |-> FALSE, head |-> FALSE]

\* Files of lines: every kind of line of LogicalEvents.
Kinds == {k \in [text : BOOLEAN, trails : BOOLEAN, head : BOOLEAN] : k.head => k.text}
Line(k) ==
  k @@ (IF k.head THEN Record({"log4j"}, "line", [ts |-> "zoned", level |-> "ERROR"], "other")
        ELSE Record({}, "line", <<>>, "other"))
Files == {Document("lines", rs) : rs \in UpTo(MaxLines, {Line(k) : k \in Kinds})}

\* Short records in documents.
Good == Record({"json", "xml"}, "object", [timestamp |-> "zoned"], "object")
Bad == Record({"json", "xml"}, "object", [timestamp |-> "naive"], "object")
Json(what) == Record({"json"}, "none", <<>>, what)
Blank == [Record({}, "line", <<>>, "other") EXCEPT !.text = FALSE]
Row(r, what) == [r EXCEPT !.json = what]
Values == {Good, Bad, Json("ambiguous"), Json("surrogate"), Row(Json("other"), "other")}
Tagged == Record({"xml"}, "object", [timestamp |-> "zoned"], "tag")
Untagged == Record({}, "none", <<>>, "tag")
Batches ==
  {d \in {Document("lines", rs) :
            rs \in UpTo(4, Values \cup {Json("broken"), Blank, Tagged, Untagged})} :
     OneTag(d) => Tagged \notin Range(d.records)}
    \cup {Document("list", rs) : rs \in UpTo(4, Values)}
    \cup {Document(text, rs) : text \in {"events", "deep", "binary"}, rs \in UpTo(4, {Good, Bad})}
    \cup {Document(text, rs) : text \in {"table", "headless"},
           rs \in UpTo(5, {Row(Good, "row"), Row(Bad, "row"), Row(Good, "blank"), Row(Good, "ragged")})}
Batched == Batches \cup {[d EXCEPT !.xml_name = TRUE] : d \in {e \in Batches : Len(e.records) <= 2}}

\* One record with some of the fields of a format: two of S and one of T.
Fields(name, values) == {name :> v : v \in values}
Bodies(S, T) == {<<>>} \cup {a @@ b @@ c : a, b \in S, c \in T \cup {<<>>}}

StructuredFields ==
  UNION {Fields("timestamp", {"zoned", "", "naive", "garbage", "milliseconds", Nested}),
         Fields("time", {"zoned", "garbage"}), Fields("severity", {"high", "bizarre"}),
         Fields("level", {"info"}), Fields("event_type", {"login"}),
         Fields("action", {"denied", "create", Nested}),
         Fields("status", {"success", "failed", "pending", Nested}),
         Fields("outcome", {"success", "failed"}),
         Fields("user", {"alice"}), Fields("username", {"bob"}),
         Fields("src_ip", {"ip", "", "bad", "null"}), Fields("source_ip", {"ip", "bad"}),
         Fields("dst_ip", {"bad"}), Fields("server", {"ip", "host"}),
         Fields("src_port", {"0", "65535", "65536", "-1", "true", "1.5", ""}),
         Fields("dst_port", {"65536"}), Fields("service", {"ssh", ""}), Fields("app", {"web"}),
         Fields("normalized_context", {"vendor"})}
Logons == Fields("action", {"login", "login_success", "login_failure", "logout"})
FindingFields ==
  UNION {Fields("rt", {"zoned", "", "garbage", "milliseconds"}), Fields("start", {"zoned"}),
         Fields("devTime", {"zoned", "naive"}), Fields("src", {"ip", "bad"}),
         Fields("dst", {"ip", "bad"}), Fields("spt", {"0", "65536"}), Fields("dpt", {"65536"}),
         Fields("suser", {"alice"}),
         Fields("usrName", {"bob"}), Fields("raw_severity", {"9", "0", "info"}),
         Fields("severity", {"7", "high"}), Fields("sev", {"4"})}
VendorContext == Fields("normalized_context", {"vendor"})
SyslogFields ==
  UNION {Fields("src", {"ip", "bad", ""}), Fields("srcip", {"ip", "bad"}),
         Fields("sport", {"65535", "65536"}), Fields("dst", {"ip", "bad", ""}),
         Fields("dstip", {"ip", "bad"}), Fields("dport", {"0", "65536"})}

Words == {"none", "allow", "deny", "deny critical"}
TextRecords ==
  {Record({p}, "header", b, "other") : p \in {"cef", "leef"}, b \in Bodies(FindingFields, VendorContext)}
    \cup {Record({"cef"}, "none", <<>>, "other")}
    \cup {Record(reads, "line", [ts |-> ts, word |-> w] @@ b, "other") :
           reads \in {{"rfc5424"}, {"rfc5424", "xml"}, {"rfc5424", "apache"}},
           ts \in {"-", "zoned", "naive"}, w \in Words, b \in Bodies(SyslogFields, {})}
    \cup {Record({"rfc3164"}, "line", [ts |-> ts, word |-> w] @@ b, "other") :
           ts \in {"date", "no date"}, w \in Words, b \in Bodies(SyslogFields, {})}
    \cup {Record({"apache"}, "line",
                 [ts |-> ts, ip |-> ip, user |-> u, method |-> m, status |-> s], "other") :
           ts \in {"zoned", "garbage"}, ip \in {"ip", "bad"}, u \in {"-", "alice"},
           m \in {"GET", "PURGE"}, s \in {"200", "401", "500"}}
    \cup {Record({"log4j"}, "line", [ts |-> ts, level |-> l], "other") :
           ts \in {"zoned", "garbage"}, l \in {"FATAL", "ERROR", "WARN", "INFO"}}
\* Times in digits.
NumericTimes ==
  {Record({"json"}, "object", [timestamp |-> t], "object") : t \in DOMAIN Digits}
    \cup {Record({"cef"}, "header", [rt |-> t], "other") : t \in DOMAIN Digits}
    \cup {Record({"leef"}, "header", [devTime |-> t], "other") : t \in DOMAIN Digits}
    \cup {Record({"rfc5424"}, "line", [ts |-> t, word |-> "none"], "other") : t \in DOMAIN Digits}
Singles ==
  {Document("lines", <<Record({"json"}, "object", b, "object")>>) : b \in Bodies(StructuredFields, Logons)}
    \cup {Document("element", <<Record({"xml"}, "object", b, "other")>>) :
           b \in Fields("action", {"login", Nested}) \cup Fields("user", {Nested, "alice"})}
    \cup {Document("lines", <<r>>) : r \in TextRecords \cup NumericTimes}

MCDocuments == Files \cup Batched \cup Singles
=============================================================================
