---------------------------- MODULE SyslogExport ----------------------------
(***************************************************************************)
(* send_to_syslog_with_config (src/intelligence/siem.rs): a result as one  *)
(* CEF or LEEF line, sent in a datagram of its own or on a connection of   *)
(* its own where a newline ends it.                                        *)
(*                                                                         *)
(* A line is a sequence of symbols: characters that mean something to a    *)
(* receiver ("\\", "=", "|", "nl", "cr", " ") and words without any.  The   *)
(* hash, the numbers, the drivers and the rest of the header, which the    *)
(* program makes itself, are such words.  The CVE ids are not: they are    *)
(* free strings of signatures/cve_map.yaml and cve-db.json.                *)
(***************************************************************************)
EXTENDS Processes, SequencesExt

VARIABLES
    sent,       \* the bytes of the TCP connection of a process
    datagrams   \* the UDP datagrams of a process

syslogVars == <<sent, datagrams>>

ExportPrograms ==
    [name : {"export"}, format : {"cef", "leef"}, protocol : {"udp", "tcp"},
     result : [detected_type : Seq(STRING), algorithm : Seq(STRING), weakness : Seq(STRING),
               weakness_cve : Seq(STRING),
               risk_level : {"Critical", "High", "Medium", "Low", "Unknown"}]]

SyslogInit ==
    /\ sent = [p \in Procs |-> <<>>]
    /\ datagrams = [p \in Procs |-> {}]

Letter(symbol) == IF symbol = "nl" THEN "n" ELSE IF symbol = "cr" THEN "r" ELSE symbol

\* Slip: an escape character is left as it is.
EscapedButBackslash(text) ==
    FoldLeft(LAMBDA line, s : line \o IF s \in {"=", "|", "nl", "cr"}
                                      THEN <<"\\", Letter(s)>> ELSE <<s>>,
             <<>>, text)

\* escape_cef, escape_leef_value.
Escaped(text) ==
    FoldLeft(LAMBDA line, s : line \o IF s \in {"\\", "=", "|", "nl", "cr"}
                                      THEN <<"\\", Letter(s)>> ELSE <<s>>,
             <<>>, text)

\* cef_severity and leef_severity.
Severity(risk) ==
    IF risk = "Critical" THEN "10" ELSE IF risk = "High" THEN "8"
    ELSE IF risk = "Medium" THEN "5" ELSE IF risk = "Low" THEN "2" ELSE "3"

Field(key, text) == <<[key |-> key, text |-> text]>>

Optional(key, text) == IF text = Absent THEN <<>> ELSE Field(key, text)

\* The extension of format_cef, as the fields it has; the ids are joined already.
CefFields(r) ==
    Field("detectedType", r.detected_type) \o Optional("algorithm", r.algorithm)
    \o Field("riskLevel", <<r.risk_level>>) \o Optional("weakness", r.weakness)
    \o Optional("cveIds", r.weakness_cve) \o Field("primaryDrivers", <<"drivers">>)

\* The extension of format_leef, which has neither weakness nor ids.
LeefFields(r) ==
    Field("cat", r.detected_type) \o Field("sev", <<Severity(r.risk_level)>>)
    \o Optional("algorithm", r.algorithm) \o Field("riskLevel", <<r.risk_level>>)
    \o Field("primaryDrivers", <<"drivers">>)

\* Joined lists go into the line as they are.
Joined == {"cveIds", "primaryDrivers"}

Written(f) == IF f.key \in Joined THEN f.text ELSE Escaped(f.text)

Extension(fields) ==
    FoldLeft(LAMBDA line, f : line \o (IF line = <<>> THEN <<>> ELSE <<" ">>)
                                   \o <<f.key, "=">> \o Written(f),
             <<>>, fields)

\* format_cef has the severity in its header, format_leef does not.
FieldsOf(format, r) == IF format = "cef" THEN CefFields(r) ELSE LeefFields(r)

Header(format, r) == IF format = "cef" THEN <<Severity(r.risk_level), "|">> ELSE <<"100", "|">>

Message(format, r) == Header(format, r) \o Extension(FieldsOf(format, r))

MessageOf(p) == Message(program[p].format, program[p].result)

-----------------------------------------------------------------------------

SendUdp(p) ==
    /\ Goes(p, "export", "done")
    /\ program[p].protocol = "udp"
    /\ datagrams' = [datagrams EXCEPT ![p] = @ \cup {MessageOf(p)}]
    /\ UNCHANGED sent

\* The connection, and write_all of the message.
SendTcp(p) ==
    /\ Goes(p, "export", "newline")
    /\ program[p].protocol = "tcp"
    /\ sent' = [sent EXCEPT ![p] = MessageOf(p)]
    /\ UNCHANGED datagrams

SendNewline(p) ==
    /\ Goes(p, "newline", "done")
    /\ sent' = [sent EXCEPT ![p] = Append(@, "nl")]
    /\ UNCHANGED datagrams

\* What a message that is cut short leaves: nothing, or any part of the line.
SentInPart(p) ==
    /\ \E n \in IF program[p].protocol = "tcp" THEN 0..Len(MessageOf(p)) ELSE {0} :
        sent' = [sent EXCEPT ![p] = SubSeq(MessageOf(p), 1, n)]
    /\ UNCHANGED datagrams

\* No socket or connection, or one that breaks.
SendFails(p) ==
    \/ Faulty(p, "export", "failed") /\ SentInPart(p)
    \/ Faulty(p, "newline", "failed") /\ UNCHANGED syslogVars

ExportKilled(p) == IF pc[p] = "export" THEN SentInPart(p) ELSE UNCHANGED syslogVars

ExportStep(p) == SendUdp(p) \/ SendTcp(p) \/ SendNewline(p)

-----------------------------------------------------------------------------
(* A receiver of such lines.                                               *)

\* What stands between the newlines of a connection, each with one at its end.
Lines(bytes) ==
    LET ends == {i \in DOMAIN bytes : bytes[i] = "nl"}
    IN  {SubSeq(bytes, Max({0} \cup {i \in ends : i < j}) + 1, j - 1) : j \in ends}

\* What it has in full.
Received(p) == datagrams[p] \cup Lines(sent[p])

\* It takes escapes back; a bare "=" ends a key, which began at the last blank.
ReadSymbol(state, s) ==
    IF state.escape
    THEN [state EXCEPT !.escape = FALSE,
                       !.text = Append(@, IF s = "n" THEN "nl" ELSE IF s = "r" THEN "cr" ELSE s)]
    ELSE IF s = "\\" THEN [state EXCEPT !.escape = TRUE]
    ELSE IF s # "=" THEN [state EXCEPT !.text = Append(@, s)]
    ELSE LET n == Len(state.text) IN
         [state EXCEPT !.fields = Append(@, [key |-> state.key, text |-> SubSeq(state.text, 1, n - 2)]),
                       !.key = IF n = 0 THEN "" ELSE state.text[n],
                       !.text = <<>>]

ReadBack(extension) ==
    LET end == FoldLeft(ReadSymbol, [escape |-> FALSE, key |-> "", text |-> <<>>, fields |-> <<>>],
                        extension)
    IN  Tail(Append(end.fields, [key |-> end.key, text |-> end.text]))

\* The header ends at the first "|"; what has none is no event.
ReadLine(line) ==
    LET bars == {i \in DOMAIN line : line[i] = "|"}
        bar == IF bars = {} THEN 0 ELSE Min(bars)
    IN  [header |-> SubSeq(line, 1, bar), fields |-> ReadBack(SubSeq(line, bar + 1, Len(line)))]
=============================================================================
