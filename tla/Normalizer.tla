----------------------------- MODULE Normalizer -----------------------------
(***************************************************************************)
(* OCSFNormalizer.normalize, the verdict on what a parser returned, and the *)
(* interchange record made of an event (models.to_ocsf_dict, ocsf.py), with *)
(* the top-level contract of its class (validation/ocsf_contract.py).       *)
(***************************************************************************)
EXTENDS Parsers

ClassCategories ==
  [class \in {2004, 3002, 4001, 4002, 6003, 6008} |->
     CASE class = 2004 -> 2 [] class = 3002 -> 3 [] class \in {4001, 4002} -> 4
       [] class \in {6003, 6008} -> 6]
SeverityIds == [Unknown |-> 0, Informational |-> 1, Low |-> 2, Medium |-> 3, High |-> 4,
                Critical |-> 5, Fatal |-> 6]
StatusIds(class) ==
  IF class = 2004 THEN [Unknown |-> 0, New |-> 1] ELSE [Unknown |-> 0, Success |-> 1, Failure |-> 2]

Empty(value) == value \in {"", "null"}
NoPort == -1
Ports == 0..65535

\* _port: no port, a whole number that fits, or an error.
\* (variant) the bound of an unsigned 16 bit number is off by one
PortTooLarge(value) ==
  IF value \in DOMAIN IntOf /\ IntOf[value] \in 0..65536
  THEN [port |-> IntOf[value], errors |-> {}]
  ELSE [port |-> NoPort, errors |-> IF Empty(value) THEN {} ELSE {"port"}]
Port(value) ==
  IF value \in DOMAIN IntOf /\ IntOf[value] \in Ports
  THEN [port |-> IntOf[value], errors |-> {}]
  ELSE [port |-> NoPort, errors |-> IF Empty(value) THEN {} ELSE {"port"}]

Ip(value) == [ip |-> IF value = "ip" THEN "ip" ELSE "",
              errors |-> IF value = "ip" \/ Empty(value) THEN {} ELSE {"ip"}]

\* Times in digits, of instants in 1978, 2026 and 2286: <<n, m>> is n millions and m.
Digits ==
  [seconds_1978 |-> <<253, 402301>>, milliseconds_1978 |-> <<253402, 301000>>,
   microseconds_1978 |-> <<253402301, 0>>,
   seconds |-> <<1767, 225600>>, milliseconds |-> <<1767225, 600000>>,
   microseconds |-> <<1767225600, 0>>,
   seconds_2286 |-> <<10000, 0>>, milliseconds_2286 |-> <<10000000, 0>>,
   last |-> <<253402300, 799999>>, beyond |-> <<253402300, 800000>>]
\* The instants that they mean, in milliseconds.
Meant ==
  [t \in DOMAIN Digits \ {"last", "beyond"} |->
     CASE t \in {"seconds_1978", "milliseconds_1978", "microseconds_1978"} -> <<253402, 301000>>
       [] t \in {"seconds", "milliseconds", "microseconds"} -> <<1767225, 600000>>
       [] t \in {"seconds_2286", "milliseconds_2286"} -> <<10000000, 0>>]

Above(a, b) == a[1] > b[1] \/ (a[1] = b[1] /\ a[2] > b[2])
Thousandfold(a) == <<a[1] * 1000 + (a[2] \div 1000), (a[2] % 1000) * 1000>>

\* Digits are milliseconds above 10_000_000_000, and seconds up to it.
\* (variant) they are milliseconds from 10_000_000_000 on
InstantFrom(digits) == IF Above(<<10000, 0>>, digits) THEN Thousandfold(digits) ELSE digits
InstantOf(digits) == IF Above(digits, <<10000, 0>>) THEN digits ELSE Thousandfold(digits)

\* The calendar ends with the year 9999.
OnCalendar(instant) == Above(<<253402300, 800000>>, instant)
Epochs == {t \in DOMAIN Digits : OnCalendar(InstantOf(Digits[t]))}

\* _timestamp: a time without a zone, a text that is none, and one beyond the calendar are
\* errors.  The instant is kept for times in digits only.
Instants == {"zoned"} \cup Epochs
Time(value, missing_ok) ==
  CASE value = "" /\ missing_ok -> [source |-> "collector", errors |-> {}, instant |-> <<>>]
    [] value \in Instants ->
         [source |-> "source", errors |-> {},
          instant |-> IF value \in Epochs THEN InstantOf(Digits[value]) ELSE <<>>]
    [] OTHER -> [source |-> "source", errors |-> {"time"}, instant |-> <<>>]

ClassErrors(p) ==
  IF p.parsed /\ (p.class \notin DOMAIN ClassCategories \/ ClassCategories[p.class] # p.category)
  THEN {"class"} ELSE {}

\* parse_success: what was parsed, is free of errors and has a class and an activity.
ParseSuccess(p, errors) == p.parsed /\ errors = {} /\ p.class > 0 /\ p.activity > 0

\* The fields of normalize that depend on the record.
Normalize(p) ==
  LET time == Time(p.time, p.missing_ok)
      src == Ip(p.src_ip)
      dst == Ip(p.dst_ip)
      src_port == Port(p.src_port)
      dst_port == Port(p.dst_port)
      errors == time.errors \cup src.errors \cup dst.errors \cup src_port.errors
                  \cup dst_port.errors \cup ClassErrors(p)
                  \cup (IF p.severity \in DOMAIN SeverityIds THEN {} ELSE {"severity"})
      success == ParseSuccess(p, errors)
      status == IF p.status # "default" THEN p.status
                ELSE IF p.class = 2004 THEN "New" ELSE IF success THEN "Success" ELSE "Failure"
      ids == StatusIds(p.class)
  IN [parse_success |-> success, format |-> p.format,
      time_source |-> time.source, timestamp |-> time.instant,
      class_uid |-> p.class, category_uid |-> p.category, activity_id |-> p.activity,
      type_uid |-> IF p.activity = 0 THEN 0 ELSE p.class * 100 + p.activity,
      severity_id |-> IF p.severity \in DOMAIN SeverityIds THEN SeverityIds[p.severity] ELSE 0,
      status |-> status,
      status_id |-> IF status \in DOMAIN ids THEN ids[status] ELSE 99,
      src_ip |-> src.ip, src_port |-> src_port.port,
      dst_ip |-> dst.ip, dst_port |-> dst_port.port,
      user |-> p.user, metadata |-> p.metadata]

----------------------------------------------------------------------------
\* The interchange record: a function from attributes to values.

CommonAttributes ==
  {"activity_name", "category_name", "class_name", "type_name", "severity", "status",
   "time", "timezone_offset", "message", "metadata"}
None == <<>>

EndpointOf(attribute, ip, port) ==
  IF ip = "" /\ port = NoPort THEN None ELSE [a \in {attribute} |-> [ip |-> ip, port |-> port]]
Without(record, names) == [a \in DOMAIN record \ names |-> record[a]]

\* retain_context: what the class has no attribute for goes to unmapped, and the
\* metadata of the vendor is wrapped when it uses the name already.
\* (variant) the context replaces a field of the vendor
RetainContextOver(record, names) ==
  LET found == names \cap DOMAIN record
      context == [a \in found |-> record[a]]
  IN IF found = {} THEN record
     ELSE [Without(record, names) EXCEPT
             !.unmapped = [normalized_context |-> context] ++ record.unmapped]
RetainContext(record, names) ==
  LET found == names \cap DOMAIN record
      context == [a \in found |-> record[a]]
      original == IF "normalized_context" \in DOMAIN record.unmapped
                  THEN [source_fields |-> record.unmapped] ELSE record.unmapped
  IN IF found = {} THEN record
     ELSE [Without(record, names) EXCEPT
             !.unmapped = [normalized_context |-> context] ++ original]

\* to_ocsf_dict before the projection on the class.
Interchange(e) ==
  [a \in CommonAttributes |-> "text"]
    ++ [class_uid |-> e.class_uid, category_uid |-> e.category_uid,
        activity_id |-> e.activity_id, type_uid |-> e.type_uid,
        severity_id |-> e.severity_id, status_id |-> e.status_id, unmapped |-> e.metadata]
    ++ EndpointOf("src_endpoint", e.src_ip, e.src_port)
    ++ EndpointOf("dst_endpoint", e.dst_ip, e.dst_port)
    ++ (IF e.user # "" THEN [actor |-> e.user] ELSE None)
    ++ (CASE e.class_uid = 2004 -> [finding_info |-> "text", is_alert |-> TRUE]
          [] e.class_uid = 6003 -> [actor |-> "unknown", api |-> "text"]
          [] OTHER -> None)

\* (variant) nothing is moved
ProjectNothing(e, record) == record
ProjectClass(e, record) ==
  CASE e.class_uid = 2004 -> RetainContext(record, {"src_endpoint", "dst_endpoint", "actor"})
    [] e.class_uid = 3002 ->
         (IF e.user = "" THEN None ELSE [user |-> e.user])
           ++ (IF "service" \in DOMAIN e.metadata
                THEN [service |-> e.metadata["service"]] ELSE None)
           ++ Without(record, IF e.user = "" THEN {} ELSE {"actor"})
    [] e.class_uid = 4002 ->
         (IF "http_status" \in DOMAIN e.metadata
           THEN [http_response |-> e.metadata["http_status"]] ELSE None)
           ++ RetainContext(record, {"actor"})
    [] OTHER -> record

ToOcsfDict(e) == ProjectClass(e, Interchange(e))

----------------------------------------------------------------------------
\* The contracts of the six classes: required attributes, of which one is needed,
\* and further attributes and values that are allowed.

Contract(class) ==
  CASE class = 2004 -> [required |-> {"finding_info"}, one_of |-> {}, more |-> {"is_alert"},
                        activities |-> 0..3, statuses |-> 0..6]
    [] class = 3002 -> [required |-> {"user"}, one_of |-> {"service", "dst_endpoint"},
                        more |-> {"src_endpoint", "actor"},
                        activities |-> 0..7, statuses |-> 0..2]
    [] class = 4001 -> [required |-> {}, one_of |-> {"src_endpoint", "dst_endpoint"}, more |-> {},
                        activities |-> 0..7, statuses |-> 0..2]
    [] class = 4002 -> [required |-> {}, one_of |-> {"http_request", "http_response"},
                        more |-> {"src_endpoint", "dst_endpoint"},
                        activities |-> 0..9, statuses |-> 0..2]
    [] class = 6003 -> [required |-> {"api", "src_endpoint", "actor"}, one_of |-> {},
                        more |-> {"dst_endpoint"}, activities |-> 0..4, statuses |-> 0..2]
    [] class = 6008 -> [required |-> {}, one_of |-> {}, more |-> {},
                        activities |-> 0..2, statuses |-> 0..2]

BaseAttributes ==
  CommonAttributes \cup {"class_uid", "category_uid", "activity_id", "type_uid",
                         "severity_id", "status_id", "unmapped"}

\* check: the attributes that break the contract.
Missing(record) ==
  LET c == Contract(record.class_uid)
  IN (c.required \ DOMAIN record)
       \cup (IF c.one_of # {} /\ c.one_of \cap DOMAIN record = {} THEN c.one_of ELSE {})
Unknown(record) ==
  LET c == Contract(record.class_uid)
  IN DOMAIN record \ (BaseAttributes \cup c.required \cup c.one_of \cup c.more)
WrongValues(record) ==
  LET c == Contract(record.class_uid)
  IN {a \in {"activity_id", "status_id", "severity_id", "type_uid"} :
        \/ a = "activity_id" /\ record.activity_id \notin c.activities \cup {99}
        \/ a = "status_id" /\ record.status_id \notin c.statuses \cup {99}
        \/ a = "severity_id" /\ record.severity_id \notin 0..6
        \/ a = "type_uid" /\ record.type_uid # record.class_uid * 100 + record.activity_id}
=============================================================================
