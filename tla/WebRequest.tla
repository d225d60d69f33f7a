----------------------------- MODULE WebRequest -----------------------------
(***************************************************************************)
(* What the web server makes of the text of a request and of an answer:    *)
(* parse_url, the choice that webserver_recv makes, the JSON trees with    *)
(* their callbacks, json_ws_send and json_parse, app/user/user_webserver.c *)
(* and user_json.c.                                                        *)
(*                                                                         *)
(* Texts are sequences of words.  What a command does is in WebConfig,     *)
(* ScanPages and LocalUpgrade; here it is answered.  Each request is taken *)
(* for itself.                                                             *)
(***************************************************************************)
EXTENDS Integers, Sequences, SequencesExt, FiniteSetsExt

CONSTANTS Requests,   \* bound: the requests sent, [type, select, filename,
                      \*  page, headers]: whether "&page=1" follows, and how
                      \*  many characters of headers stand before Host
          Width(_),   \* the number of characters of a word
          Forms,      \* bound: the POSTed settings, sequences of [name, value]
          Nets        \* bound: the networks of a scan, a sequence

ASSUME NetsAssumption == Nets \in Seq(Range(Nets))

VARIABLES
    sent,       \* the last request
    urlFrame,   \* what parse_url made of it
    answers,    \* what it was answered
    scanStarted,  \* json_scan_cb is to answer it
    form,       \* the last settings POSTed
    staFields, apFields,   \* what the callbacks wrote into sta_conf and ap_conf
    results     \* the networks of the last page sent: what was printed of each

webVars == <<sent, urlFrame, answers, scanStarted, form, staFields, apFields, results>>

-----------------------------------------------------------------------------
(* parse_url                                                               *)

NoRequest == [type |-> "GET", select |-> "", filename |-> "", page |-> FALSE, headers |-> 0]

\* The text of a request: words, a blank with the one it is next to, and "headers"
\* for those before Host
Text(req) ==
    <<req.type, "/", req.select, "?", "command", "=", req.filename>>
    \o (IF req.page THEN <<"&", "page", "=", "1">> ELSE <<>>)
    \o <<"HTTP", "headers", "Host:">>

\* The words that end a part of a URL stand nowhere else in it.
ASSUME RequestsAssumption ==
    /\ NoRequest \notin Requests
    /\ \A req \in Requests :
           /\ req.type \in {"GET", "POST"} /\ req.page \in BOOLEAN /\ req.headers \in Nat
           /\ {req.select, req.filename} \cap {"?", "=", "&", "HTTP", "Host:"} = {}
           /\ \A word \in Range(Text(req)) : Width(word) \in Nat

Chars(req, word) == IF word = "headers" THEN req.headers ELSE Width(word)

\* The characters of the first i words, for each i
CharsUpTo(req, words) ==
    LET n[i \in 0..Len(words)] == IF i = 0 THEN 0 ELSE n[i - 1] + Chars(req, words[i])
    IN  n

\* Where w is first, or the end
FoundAt(words, w) == Min({i \in 1..Len(words) : words[i] = w} \cup {Len(words) + 1})

Before(words, w) == SubSeq(words, 1, FoundAt(words, w) - 1)

After(words, w) == SubSeq(words, FoundAt(words, w) + 1, Len(words))

\* What is copied: the length is 8 bits wide, and the word that is cut is none.
Copied(req, words) ==
    LET chars == CharsUpTo(req, words)
    IN  SubSeq(words, 1, Max({n \in 0..Len(words) : chars[n] <= chars[Len(words)] % 256}))

\* Mutant: the file's name ends at HTTP only.
FilenameToHttp(words) ==
    IF "HTTP" \in Range(words) THEN Before(words, "HTTP") ELSE <<>>

FilenameIn(words) ==
    IF "&" \in Range(words) THEN Before(words, "&")
    ELSE IF "HTTP" \in Range(words) THEN Before(words, "HTTP") ELSE <<>>

\* A field of URL_Frame has 10 bytes, which are written to without looking at its
\* size.  A part, a word, that fills it has no end there, and what is read of it is longer
\* than every name it is compared with: the model keeps a mark for it.
URLSize == 10

Overlong == <<"overlong">>

Field(part) == IF part = <<>> \/ Width(Head(part)) < URLSize THEN part ELSE Overlong

\* Beyond the last field it is the memory of others that is written to.
Overruns(req) == Width(req.select) > 3 * URLSize \/ Width(req.filename) > URLSize

NoFrame == [Type |-> "GET", pSelect |-> <<>>, pCommand |-> <<>>, pFilename |-> <<>>]

\* An overlong pSelect runs into pCommand and pFilename, for which nothing asks then.
ParseUrl(req) ==
    LET copy == Copied(req, Before(Text(req), "Host:"))
        url == SubSeq(copy, 3, Len(copy))
        query == After(url, "?")
    IN  [NoFrame EXCEPT
            !.Type = IF copy # <<>> /\ Head(copy) = "POST" THEN "POST" ELSE "GET",
            !.pSelect = IF "?" \in Range(url) THEN Field(Before(url, "?")) ELSE <<>>,
            !.pCommand = IF "=" \in Range(query) THEN Field(Before(query, "=")) ELSE <<>>,
            !.pFilename = IF "=" \in Range(query) THEN Field(FilenameIn(After(query, "="))) ELSE <<>>]

-----------------------------------------------------------------------------
(* webserver_recv: the answers, BadRequest or what is sent with OK         *)

BadRequest == <<"400">>

\* data_send: an answer with a text, or without
Ok(text) == IF text = "" THEN <<"200">> ELSE <<text>>

\* json_send of a tree
JsonSend(parmType) == Ok(parmType)

StationField == {"ssid", "password", "token"}

SoftapField == {"ssid", "password", "authmode", "channel"}

\* sta_conf and ap_conf before a form
Empty == [f \in StationField \cup SoftapField |-> ""]

\* Mutant: "client" has no answer to what it does not know.
OfClientSilent(file) ==
    CASE file = "info" -> JsonSend("INFOMATION")
      [] file = "status" -> JsonSend("CONNECT_STATUS")
      [] OTHER -> <<>>

\* GET client?command=..., but a scan
OfClient(file) ==
    (IF file = "info" THEN JsonSend("INFOMATION") ELSE <<>>)
    \o (IF file = "status" THEN JsonSend("CONNECT_STATUS") ELSE BadRequest)

OfGet(frame) ==
    LET file == IF frame.pFilename = <<>> THEN "" ELSE Head(frame.pFilename)
    IN  IF frame.pCommand # <<"command">> THEN BadRequest
        ELSE CASE frame.pSelect = <<"client">> -> OfClient(file)
               [] frame.pSelect = <<"config">> -> (CASE file = "wifi" -> JsonSend("WIFI")
                                                     [] file = "reboot" -> JsonSend("REBOOT")
                                                     [] OTHER -> BadRequest)
               [] frame.pSelect = <<"upgrade">> ->
                      IF file = "getuser" THEN JsonSend("USER_BIN") ELSE <<>>
               [] OTHER -> BadRequest

OfPost(frame) ==
    IF /\ frame.pCommand = <<"command">>
       /\ \/ frame.pSelect = <<"config">> /\ frame.pFilename \in {<<"sleep">>, <<"wifi">>}
          \/ frame.pSelect = <<"upgrade">> /\ frame.pFilename \in {<<"start">>, <<"reset">>}
    THEN Ok("") ELSE BadRequest

IsScan(frame) == /\ frame.Type = "GET" /\ frame.pSelect = <<"client">>
                 /\ frame.pCommand = <<"command">> /\ frame.pFilename = <<"scan">>

\* A scan's pages are sent or refused; a scan itself is answered at its end.  The
\* page is looked for in all the text.  Where a part overran the structure the
\* device may be lost before it answers.
RecvRequest(req) ==
    LET frame == ParseUrl(req) IN
    /\ sent' = req
    /\ urlFrame' = frame
    /\ scanStarted' = (IsScan(frame) /\ ~req.page)
    /\ \/ /\ IsScan(frame)
          /\ IF req.page THEN \E a \in {JsonSend("SCAN"), BadRequest} : answers' = a
                         ELSE answers' = <<>>
       \/ /\ ~IsScan(frame)
          /\ answers' = IF frame.Type = "GET" THEN OfGet(frame) ELSE OfPost(frame)
       \/ Overruns(req) /\ answers' = <<>>
    /\ form' = <<>> /\ staFields' = Empty /\ apFields' = Empty /\ results' = <<>>

\* json_scan_cb
ScanAnswer ==
    /\ scanStarted
    /\ scanStarted' = FALSE
    /\ answers' = Append(answers, "total")
    /\ UNCHANGED <<sent, urlFrame, form, staFields, apFields, results>>

-----------------------------------------------------------------------------
(* json_parse, with wifi_station_set and wifi_softap_set.  Each goes       *)
(* through the names of the whole text; station_tree and softap_tree tell  *)
(* where it is, and are not set before the first of their names is there.  *)

\* In a form a field stands in a section: a field before the first of them would
\* go where station_tree and softap_tree, undefined, happen to say.
ASSUME FormsAssumption ==
    \A pairs \in Forms :
        /\ pairs \in Seq(Range(pairs))
        /\ \A i \in DOMAIN pairs :
               pairs[i].name \in StationField \cup SoftapField =>
                   \E k \in 1..i : pairs[k].name \in {"Station", "Softap"}

\* Mutant: the other name does not end it.
InTreeForEver(tree, name, own, other) == tree \/ name = own

InTree(tree, name, own, other) ==
    IF name = own THEN TRUE ELSE IF name = other THEN FALSE ELSE tree

Modes == {"OPEN", "WPAPSK", "WPA2PSK", "WPAPSK/WPA2PSK"}

StationName(s, pair) ==
    LET tree == InTree(s.tree, pair.name, "Station", "Softap")
    IN  [tree |-> tree,
         conf |-> IF tree /\ pair.name \in StationField
                  THEN [s.conf EXCEPT ![pair.name] = pair.value] ELSE s.conf]

\* What wifi_station_set has after each name
StationStates(pairs, undefined) ==
    LET s[i \in 0..Len(pairs)] == IF i = 0 THEN [tree |-> undefined, conf |-> Empty]
                                  ELSE StationName(s[i - 1], pairs[i])
    IN  s

StationSet(pairs, undefined) == StationStates(pairs, undefined)[Len(pairs)].conf

\* An unknown authmode counts as OPEN, and ends the callback.
SoftapName(s, pair) ==
    LET tree == InTree(s.tree, pair.name, "Softap", "Station")
        value == IF pair.name = "authmode" /\ pair.value \notin Modes THEN "OPEN"
                 ELSE pair.value
    IN  IF s.done THEN s
        ELSE [tree |-> tree, done |-> tree /\ value # pair.value,
              conf |-> IF tree /\ pair.name \in SoftapField
                       THEN [s.conf EXCEPT ![pair.name] = value] ELSE s.conf]

SoftapStates(pairs, undefined) ==
    LET s[i \in 0..Len(pairs)] ==
            IF i = 0 THEN [tree |-> undefined, done |-> FALSE, conf |-> Empty]
            ELSE SoftapName(s[i - 1], pairs[i])
    IN  s

SoftapSet(pairs, undefined) == SoftapStates(pairs, undefined)[Len(pairs)].conf

RecvForm(pairs) ==
    /\ form' = pairs
    /\ \E undefined \in BOOLEAN : /\ staFields' = StationSet(pairs, undefined)
                                  /\ apFields' = SoftapSet(pairs, undefined)
    /\ sent' = NoRequest /\ urlFrame' = NoFrame /\ answers' = BadRequest /\ scanStarted' = FALSE
    /\ results' = <<>>

-----------------------------------------------------------------------------
(* The networks of a page: scaninfo_tree's leaves, for each of which       *)
(* scan_get is called                                                      *)

\* Mutant: the authmode comes before the channel.
ScanLeavesSwapped == <<"bssid", "ssid", "rssi", "authmode", "channel">>

ScanLeaves == <<"bssid", "ssid", "rssi", "channel", "authmode">>

\* scan_get: bss is a static variable, set for "bssid", and the network is taken
\* off the list for "authmode".  The values are those of the network printed.
ScanGet(s, name) ==
    CASE name = "bssid" -> [s EXCEPT !.bss = Head(s.list), !.printed = Append(@, Head(s.list))]
      [] name = "authmode" -> [s EXCEPT !.printed = Append(@, s.bss), !.bss = "freed",
                                        !.list = Tail(@)]
      [] OTHER -> [s EXCEPT !.printed = Append(@, s.bss)]

\* scaninfo_tree, printed n times, by json_ws_send or by json_send: what scan_get
\* has after each leaf
PrintStates(n) ==
    LET s[i \in 0..5 * n] == IF i = 0 THEN [bss |-> "freed", list |-> Nets, printed |-> <<>>]
                             ELSE ScanGet(s[i - 1], ScanLeaves[((i - 1) % 5) + 1])
    IN  s

SendPageOf(n) == /\ n <= Len(Nets)
                 /\ results' = PrintStates(n)[5 * n].printed
                 /\ sent = NoRequest /\ form = <<>>
                 /\ UNCHANGED <<sent, urlFrame, answers, scanStarted, form, staFields, apFields>>

-----------------------------------------------------------------------------

WebRequestInit ==
    /\ sent = NoRequest /\ urlFrame = NoFrame /\ answers = BadRequest /\ scanStarted = FALSE
    /\ form = <<>> /\ staFields = Empty /\ apFields = Empty /\ results = <<>>

WebRequestNext == \/ \E req \in Requests : RecvRequest(req)
                  \/ ScanAnswer
                  \/ \E pairs \in Forms : RecvForm(pairs)
                  \/ \E n \in 1..Len(Nets) : SendPageOf(n)

WebRequestSpec == WebRequestInit /\ [][WebRequestNext]_webVars

-----------------------------------------------------------------------------
(* Properties *)

\* Whether the parts leave room for their ends in the fields of URL_Frame
Fits(req) == \A word \in {req.select, "command", req.filename} : Width(word) < URLSize

\* Whether Host begins within what 8 bits count
Short(req) == LET words == Before(Text(req), "Host:")
              IN  CharsUpTo(req, words)[Len(words)] < 256

\* A request is understood as it was meant, with or without a page, wherever the
\* headers before Host end within 255 characters and each part of its URL has at
\* most 9.  (Beyond, the rest of the length by 256 is taken, or the part has no end,
\* and the request may not be recognised.)
UrlRoundTrip ==
    sent \in Requests /\ Short(sent) /\ Fits(sent) =>
        urlFrame = [Type |-> sent.type, pSelect |-> <<sent.select>>, pCommand |-> <<"command">>,
                    pFilename |-> <<sent.filename>>]

\* A request has one answer, at once or from the scan - but "client?command=info",
\* which is refused after it was answered, and a GET of "upgrade" with another
\* command than getuser, which has none.  (A request with a part that overran
\* URL_Frame may have none either.)
AnsweredOnce ==
    ~ \/ Overruns(sent)
      \/ sent.select = "client" /\ sent.filename = "info"
      \/ sent.select = "upgrade" /\ sent.type = "GET"
    => Len(answers) = IF scanStarted THEN 0 ELSE 1

\* The last value that a text gives for a field of Station or of Softap
InSection(pairs, section, other, i) ==
    \E k \in 1..i : pairs[k].name = section /\ \A j \in k..i : pairs[j].name # other

Given(pairs, section, other, field) ==
    LET at == {i \in 1..Len(pairs) : /\ pairs[i].name = field
                                    /\ InSection(pairs, section, other, i)}
    IN  IF at = {} THEN "" ELSE pairs[Max(at)].value

\* Each section's fields reach their own configuration, in whichever order sections
\* and fields come, though both have an ssid and a password.  (Behind an unknown
\* authmode the soft access point's fields are lost.)
FieldsArrive ==
    /\ \A f \in StationField : staFields[f] = Given(form, "Station", "Softap", f)
    /\ (\A i \in 1..Len(form) : form[i].name = "authmode" => form[i].value \in Modes) =>
           \A f \in SoftapField : apFields[f] = Given(form, "Softap", "Station", f)

\* What is printed of a network is all of one network, and each network comes
\* once: the five values come in calls of their own, through a static variable.
NetworksWhole ==
    \A i \in DOMAIN results : results[i] = Nets[((i - 1) \div 5) + 1]

\* webserver_recv meets the request that was sent, and with one answer.
RequestsMet == UrlRoundTrip /\ AnsweredOnce

\* The JSON callbacks mix nothing, of what they read and of what they print.
JsonKept == FieldsArrive /\ NetworksWhole
=============================================================================
