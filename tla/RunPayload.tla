----------------------------- MODULE RunPayload -----------------------------
(***************************************************************************)
(* run_payload (src/ulpf/pipeline.py): how a document is read, as JSON,     *)
(* XML, CSV or lines, and turned into normalized events, or refused as a    *)
(* whole, or for its number of events.  The lines of every reading go       *)
(* through the loop of LogicalEvents.                                       *)
(*                                                                         *)
(* A document is [text, xml_name, records].  text says what its bytes are:  *)
(*   "binary"   not UTF-8                                                   *)
(*   "lines"    the records, one a line (JSON lines and log files), that    *)
(*              together are no JSON list, no XML document and no table     *)
(*   "list"     a JSON list of the records                                  *)
(*   "events"   an XML element events, logs or records around the records   *)
(*   "element"  one other XML element; "deep" one nested too deeply, or     *)
(*              broken                                                      *)
(*   "table"    rows below a header, in a file .csv or with a header that   *)
(*              _looks_like_csv knows; "headless" when its header is bad    *)
(* xml_name tells that the file is named .xml, or is a table whose header   *)
(* begins as "tag" does.  A record adds to those of Parsers what            *)
(* LogicalEvents asks of a line (text, trails, head), and what its text is  *)
(* to a JSON decoder: "object", "ambiguous" (a key twice, a number that is  *)
(* not finite), "surrogate", or "broken" after { or [; "tag" when it begins *)
(* with < and a letter, _, : or ?, and "other" text; for a row of a table   *)
(* "row", "blank" or "ragged".                                              *)
(***************************************************************************)
EXTENDS Normalizer, SequencesExt

CONSTANTS
  Documents,   \* the inputs
  MaxEvents    \* the budget max_events

ASSUME BudgetAssumption == MaxEvents \in Nat \ {0}

\* Lines with a tag at the beginning of the only one that has text.
OneTag(d) ==
  /\ d.text = "lines"
  /\ \E i \in DOMAIN d.records :
       /\ d.records[i].json = "tag"
       /\ \A j \in DOMAIN d.records : d.records[j].text <=> i = j

\* The documents are documents: only lines may be without text or belong together, the
\* rows of a table are rows, a syslog record of RFC 5424 has a timestamp ("-" for none),
\* and one of RFC 3164 a date that is in the calendar or not.  Lines of which one alone has
\* text are an element when that text is one.
ASSUME DocumentsAssumption ==
  \A d \in Documents :
    /\ OneTag(d) => ~ \E i \in DOMAIN d.records : d.records[i].form = "object"
    /\ d.text \in {"binary", "lines", "list", "events", "element", "deep", "table", "headless"}
    /\ d.xml_name \in BOOLEAN
    /\ d.records \in Seq(Range(d.records))
    /\ \A i \in DOMAIN d.records :
         LET r == d.records[i]
         IN /\ DOMAIN r = {"reads", "form", "body", "json", "text", "trails", "head"}
            /\ {r.text, r.trails, r.head} \subseteq BOOLEAN
            /\ r.head => r.text
            /\ d.text # "lines" => r.text /\ ~ r.trails /\ ~ r.head
            /\ d.text = "table" => r.json \in {"row", "blank", "ragged"}
            /\ "rfc5424" \in r.reads => r.body.ts # ""
            /\ "rfc3164" \in r.reads /\ "rfc5424" \notin r.reads =>
                 r.body.ts \in {"date", "no date"}

VARIABLES
  document,    \* the input
  reading,     \* "no", or what run_payload decided: a format, or how it ended
  output,      \* the normalized events, with their offsets
  lines, index, events, chunks, offset, accepts, ended   \* of LogicalEvents

loop == <<lines, index, events, chunks, offset, accepts, ended>>
vars == <<document, reading, output, loop>>

Loop == INSTANCE LogicalEvents

Init ==
  /\ document \in Documents
  /\ reading = "no" /\ output = <<>>
  /\ lines = <<>> /\ Loop!Init

----------------------------------------------------------------------------
\* What the decoders make of the text.

records == document.records

\* The records at some places, in their order.
InOrder(places) ==
  [k \in 1..Cardinality(places) |->
     CHOOSE i \in places : Cardinality({j \in places : j < i}) = k - 1]
RecordsAt(places) ==
  [k \in 1..Cardinality(places) |-> records[InOrder(places)[k]]]

Texts == RecordsAt({i \in DOMAIN records : records[i].text})

\* It begins with { or [.
StartsLikeJson ==
  \/ document.text = "list"
  \/ document.text = "lines" /\ Texts # <<>> /\ Texts[1].json \notin {"tag", "other"}

AnyLineRefused == \E i \in DOMAIN Texts : Texts[i].json \in {"ambiguous", "surrogate"}

\* decode_json reads one value, checking its keys and numbers as it goes; only then is
\* more text a syntax error (which is no reason to refuse the document), and only then
\* are surrogates looked for.
DecodeJson ==
  CASE document.text = "list" -> IF AnyLineRefused THEN "refused" ELSE "value"
    [] OTHER -> IF Texts[1].json = "ambiguous" THEN "refused"
                ELSE IF Len(Texts) > 1 \/ Texts[1].json = "broken" THEN "error"
                ELSE IF Texts[1].json = "surrogate" THEN "refused" ELSE "value"

\* Only the first characters of the text are asked, or the name of the file: lines count
\* as an XML document, which they are not, when the first of them begins with a tag.
LooksLikeXml ==
  \/ document.text \in {"events", "element", "deep"} \/ document.xml_name
  \/ document.text = "lines" /\ Texts # <<>> /\ Texts[1].json = "tag"
DecodesAsXml == document.text \in {"events", "element"}
LooksLikeTable == document.text \in {"table", "headless"}

\* The first format that fits; JSON that cannot be decoded is tried as the others.
Format ==
  IF document.text = "binary" THEN "unknown"
  ELSE IF StartsLikeJson /\ DecodeJson # "error" THEN "json"
  ELSE IF LooksLikeXml THEN "xml" ELSE IF LooksLikeTable THEN "csv" ELSE "none"

\* The rows of a table that are not empty, and those before the first that is ragged.
Rows == RecordsAt({i \in DOMAIN records : records[i].json # "blank"})
Ragged == {i \in DOMAIN Rows : Rows[i].json = "ragged"}
RowsRead == IF Ragged = {} THEN Len(Rows)
            ELSE (CHOOSE i \in Ragged : \A j \in Ragged : i <= j) - 1

\* The lines that run gets: one made for each record, whatever it looks like, or those
\* of the file.  A container without children is a record itself, without fields.
Made(r) == [text |-> TRUE, trails |-> FALSE, head |-> FALSE] ++ r
Childless == [reads |-> {"xml"}, form |-> "none", body |-> <<>>, json |-> "other"]
LinesOf(format) ==
  LET made(rs) == [i \in DOMAIN rs |-> Made(rs[i])]
  IN CASE format = "json" -> made(Texts)
       [] format = "xml" -> made(IF records = <<>> THEN <<Childless>> ELSE records)
       [] format = "csv" -> made(Rows)
       [] OTHER -> records

\* The document as a whole cannot be read.
\* (variant) a ragged row is left to the parser
MalformedOrNot(format) ==
  \/ format = "unknown"
  \/ format = "json" /\ DecodeJson = "refused"
  \/ format = "xml" /\ ~ DecodesAsXml
  \/ format = "csv" /\ document.text = "headless"
Malformed(format) ==
  \/ format = "unknown"
  \/ format = "json" /\ DecodeJson = "refused"
  \/ format = "xml" /\ ~ DecodesAsXml
  \/ format = "csv" /\ (document.text = "headless" \/ Ragged # {})

\* check_event_limit before the lines are normalized.  A table is counted row by row, so
\* that the row in excess is met first when it stands before a ragged one.
\* (variant) every row is counted, blank or not
CountEveryRow(format) ==
  \/ format \in {"json", "xml"} /\ ~ Malformed(format) /\ Len(LinesOf(format)) > MaxEvents
  \/ format = "csv" /\ document.text = "table" /\ Len(records) > MaxEvents
OverBudget(format) ==
  \/ format \in {"json", "xml"} /\ ~ Malformed(format) /\ Len(LinesOf(format)) > MaxEvents
  \/ format = "csv" /\ document.text = "table" /\ RowsRead > MaxEvents

----------------------------------------------------------------------------
Event(r, forced, at) ==
  [record |-> r, offset |-> at, event |-> Normalize(Parse(r, forced))]

\* The document as one event that is not parsed.
Whole == [reads |-> {}, form |-> "document", body |-> <<>>, json |-> "other"]
Rejected(format) ==
  <<[record |-> Whole, offset |-> 0, event |-> Normalize([format |-> format] ++ NotParsed)]>>

\* InputLimitError leaves run_payload.
Exceed ==
  /\ reading = "no" /\ OverBudget(Format)
  /\ reading' = "raised"
  /\ UNCHANGED <<document, output, loop>>

Refuse ==
  /\ reading = "no" /\ ~ OverBudget(Format) /\ Malformed(Format)
  /\ output' = Rejected(Format)
  /\ reading' = "refused"
  /\ UNCHANGED <<document, loop>>

\* The document is split, and run takes its lines.
Split ==
  /\ reading = "no" /\ ~ OverBudget(Format) /\ ~ Malformed(Format)
  /\ reading' = Format
  /\ lines' = LinesOf(Format)
  /\ UNCHANGED <<document, output, index, events, chunks, offset, accepts, ended>>

Group ==
  /\ reading \notin {"no", "refused", "raised", "done"}
  /\ Loop!Next
  /\ UNCHANGED <<document, reading, output>>

\* run: each logical event is parsed and normalized at its offset; it is read by its
\* first line, the rest of a stack trace only extends the message.
NormalizeEvents ==
  /\ reading \notin {"no", "refused", "raised", "done"} /\ ended = "returned"
  /\ output' = [i \in DOMAIN events |->
                  Event(lines[events[i].lines[1]], reading, events[i].offset)]
  /\ reading' = "done"
  /\ UNCHANGED <<document, loop>>

Raise ==
  /\ reading # "raised" /\ ended = "raised"
  /\ reading' = "raised"
  /\ UNCHANGED <<document, output, loop>>

Next == Exceed \/ Refuse \/ Split \/ Group \/ NormalizeEvents \/ Raise

Spec == Init /\ [][Next]_vars
----------------------------------------------------------------------------
(***************************************************************************)
(* Reference: the records a document holds, read off its text.              *)
(***************************************************************************)

Held ==
  CASE document.text = "table" ->
         {i \in DOMAIN records : /\ records[i].json = "row"
                                 /\ \A j \in 1..i : records[j].json # "ragged"}
    [] reading \in {"none", "done", "raised"} /\ document.text = "lines" /\ lines = records ->
         Loop!Beginnings
    [] OTHER -> {i \in DOMAIN records : records[i].text}
HeldInOrder == InOrder(Held)

\* Nothing is lost and nothing is counted twice: a document that is read gives one event
\* for each record that it holds, in their order and each at an offset of its own (one for
\* an empty container); a table with a row of the wrong length gives none of them
\* ("quarantined as a whole rather than partially accepted").  A record that cannot be
\* read spoils the others only where the document is one value or one table.  Among lines
\* only the first can, in two ways: a key that it repeats is met before the text behind it
\* shows that the document is no JSON value, and a tag that it begins with makes the
\* document XML, which cannot be read: XML lines give one event that is quarantined.
EveryRecordIsOneEvent ==
  /\ reading = "done" =>
       /\ \/ records = <<>> /\ LooksLikeXml /\ Len(output) = 1
          \/ [i \in DOMAIN output |-> output[i].record.body]
               = [i \in DOMAIN HeldInOrder |-> records[HeldInOrder[i]].body]
       /\ \A i, j \in DOMAIN output : i < j => output[i].offset < output[j].offset
       /\ document.text = "table" => \A i \in DOMAIN records : records[i].json # "ragged"
  /\ reading = "refused" /\ document.text = "lines" /\ ~ document.xml_name =>
       Len(Texts) = 1 \/ Texts[1].json \in {"ambiguous", "tag"}

\* The budget is exact for every reading: a document is refused for its size when it
\* holds more than max_events records (of a table, before its first ragged row), and
\* only then; otherwise no more than that are normalized.
BudgetIsExact ==
  /\ reading = "raised" => Cardinality(Held) > MaxEvents
  /\ reading = "done" => Len(output) <= MaxEvents
  /\ reading = "refused" /\ document.text = "table" /\ ~ document.xml_name =>
       Cardinality(Held) <= MaxEvents

\* The lines of the file that belong to one event (see LogicalEvents).
EventsAreTraces == Loop!EventsAreTraces

----------------------------------------------------------------------------
(***************************************************************************)
(* The verdicts.                                                            *)
(***************************************************************************)
Accepted == {output[i] : i \in {j \in DOMAIN output : output[j].event.parse_success}}

\* What a record of a format says of its time, its addresses and its ports.
Said(format, body) ==
  CASE format \in {"json", "xml", "csv"} ->
         [times |-> {Get(body, TimeFields, "zoned")},
          ips |-> {Get(body, SrcFields, ""), Get(body, <<"dst_ip", "destination_ip">>, "")},
          ports |-> {Get(body, <<"src_port", "source_port", "client_port">>, ""),
                     Get(body, <<"dst_port", "destination_port", "server_port">>, "")}]
    [] format = "cef" ->
         [times |-> {Or(body, <<"rt", "start", "end">>)} \ {""},
          ips |-> {Get(body, <<"src">>, ""), Get(body, <<"dst">>, "")},
          ports |-> {Get(body, <<"spt">>, ""), Get(body, <<"dpt">>, "")}]
    [] format = "leef" ->
         [times |-> {Get(body, <<"devTime">>, "")} \ {""},
          ips |-> {Get(body, <<"src">>, ""), Get(body, <<"dst">>, "")}, ports |-> {}]
    [] format = "syslog" ->
         [times |-> {body.ts} \ {"-"},
          ips |-> {Or(body, <<"src", "srcip", "src_ip">>), Or(body, <<"dst", "dstip", "dst_ip">>)},
          ports |-> {Get(body, <<"sport">>, ""), Get(body, <<"dport">>, "")}]
    [] format = "apache" -> [times |-> {body.ts}, ips |-> {body.ip}, ports |-> {}]
    [] format = "log4j" -> [times |-> {body.ts}, ips |-> {}, ports |-> {}]

\* "invalid timestamps, IP addresses, and ports routed to quarantine": an accepted event
\* comes from a record whose time is an instant, or that has none, whose addresses are
\* addresses and whose ports are whole numbers below 65536, in every format.
InvalidFieldsAreQuarantined ==
  \A a \in Accepted :
    LET said == Said(a.event.format, a.record.body)
    IN /\ said.times \subseteq Instants \cup {"date"}
       /\ said.ips \subseteq {"ip", "", "null"}
       /\ \A port \in said.ports :
            Empty(port) \/ (port \in DOMAIN IntOf /\ IntOf[port] \in Ports)
       /\ a.event.time_source = "collector" <=>
            \/ said.times = {}
            \/ /\ a.event.format \in {"json", "xml", "csv"}
               /\ \A i \in DOMAIN TimeFields : TimeFields[i] \notin DOMAIN a.record.body

\* A time in digits has no unit.  Of an instant from 1978-01-11T21:31:41Z to the last whose
\* seconds are taken for seconds (2286-11-20T17:46:40Z), in seconds, milliseconds or
\* microseconds, it is read as that instant or quarantined, never as another one.
NumericTimesAreNotMistaken ==
  \A a \in Accepted :
    \A t \in Said(a.event.format, a.record.body).times \cap DOMAIN Meant :
      a.event.timestamp = Meant[t]

Says(body, outcome, action) ==
  \/ \E f \in {"status", "outcome"} \cap DOMAIN body : body[f] = outcome
  \/ Get(body, <<"event_type", "action", "operation">>, "") = action

\* A logon succeeds or fails for the rules of detection only when its record says so, in
\* status, in outcome or in its action, and none of the three says the contrary.  The action
\* is the first of event_type, action and operation that is present: what a record with two
\* of them says in the later one (event_type login, action login_failure) does not count.
LogonOutcomeIsExplicit ==
  \A a \in Accepted :
    a.event.class_uid = 3002 =>
      LET success == Says(a.record.body, "success", "login_success")
          failure == Says(a.record.body, "failed", "login_failure")
      IN /\ ~ (success /\ failure)
         /\ a.event.status_id = IF success THEN 1 ELSE IF failure THEN 2 ELSE 0

\* What an event has no evidence for.
NoEvidence(a) ==
  {attribute \in {"src_endpoint", "dst_endpoint", "user", "service"} :
     \/ attribute = "src_endpoint" /\ a.event.src_ip = "" /\ a.event.src_port = NoPort
     \/ attribute = "dst_endpoint" /\ a.event.dst_ip = "" /\ a.event.dst_port = NoPort
     \/ attribute = "user" /\ Get(a.record.body, UserFields, "") = ""
     \/ attribute = "service" /\ Or(a.record.body, <<"service", "app">>) = ""}

\* The interchange record of an accepted event keeps the contract of its class: no
\* attribute that the class does not know, no identifier out of its range, and nothing
\* missing but what the record gives no evidence of (the documented gap).
OnlyEvidenceIsMissing ==
  \A a \in Accepted :
    LET record == ToOcsfDict(a.event)
    IN /\ Unknown(record) = {} /\ WrongValues(record) = {}
       /\ Missing(record) \subseteq NoEvidence(a)

\* What the projection on a class takes out of the record stays in the context, and the
\* vendor's fields stay where they were, or under source_fields when they use its name;
\* only the actor of a logon gets another name.
ContextSurvivesExport ==
  \A a \in Accepted :
    LET before == Interchange(a.event)
        after == ToOcsfDict(a.event)
        taken == DOMAIN before \ DOMAIN after
        fields == a.event.metadata
        collides == "normalized_context" \in DOMAIN fields
    IN CASE taken = {} -> after.unmapped = fields
         [] taken # {} /\ a.event.class_uid = 3002 ->
              taken = {"actor"} /\ after.user = before.actor
         [] OTHER ->
              /\ after.unmapped["normalized_context"] = [x \in taken |-> before[x]]
              /\ collides => /\ "source_fields" \in DOMAIN after.unmapped
                             /\ after.unmapped["source_fields"] = fields
              /\ ~ collides => \A f \in DOMAIN fields : after.unmapped[f] = fields[f]

=============================================================================
