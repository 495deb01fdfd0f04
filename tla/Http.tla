-------------------------------- MODULE Http --------------------------------
(***************************************************************************)
(* HTTP messages as text: the parser of shared/src/http.cpp, and parse and *)
(* to_string of http_request and http_response.                            *)
(*                                                                         *)
(* A text is a sequence of characters, at offsets from 0.  A method, the   *)
(* version, a status with its phrase, the name Content-Length and a number *)
(* count as one character each, wherever they are: the code compares and   *)
(* copies them whole.  Where it skips a character of a first line that it  *)
(* has not looked at, one of them is split (Splits).                       *)
(*                                                                         *)
(* A message is a record of the fields of both classes; the uri and the    *)
(* method mean nothing in a response, the status nothing in a request.     *)
(***************************************************************************)
EXTENDS Integers, Sequences, SequencesExt, FiniteSetsExt, TLC

CONSTANTS
  Char,    \* the characters of texts
  SizeMod  \* 2^64: the arithmetic of size_t is modulo SizeMod

ASSUME SizeModAssumption == SizeMod \in Nat \ {0}

Kinds == {"request", "response"}

Space == <<"SP">>
Colon == <<":">>
crlf == <<"CR", "LF">>

http_method_strings == [get |-> <<"GET">>, head |-> <<"HEAD">>, post |-> <<"POST">>]
http_version_strings == [http_1_1 |-> <<"HTTP/1.1">>]
http_status_strings ==
  [ok |-> <<"200_OK">>, bad_request |-> <<"400_Bad_Request">>,
   not_found |-> <<"404_Not_Found">>, internal_server_error |-> <<"500_Internal_Server_Error">>]

ContentLength == <<"Content-Length">>

Text == Seq(Char)

\* The characters of these strings are characters.
ASSUME CharAssumption ==
  /\ {Space, Colon, crlf, ContentLength} \subseteq Text
  /\ \A strings \in {http_method_strings, http_version_strings, http_status_strings} :
       \A key \in DOMAIN strings : strings[key] \in Text

NoHeaders == [name \in {} |-> <<>>]

\* A default-constructed message.
EmptyMessage ==
  [method |-> "get", uri |-> <<>>, status |-> "ok", version |-> "http_1_1",
   headers |-> NoHeaders, body |-> <<>>]

-----------------------------------------------------------------------------
(* std::string.                                                            *)

npos == SizeMod - 1

substr(text, offset) == SubSeq(text, offset + 1, Len(text))

starts_with(text, offset, part) == IsPrefix(part, substr(text, offset))

find(text, part, start) ==
  LET found == {i \in start .. Len(text) - Len(part) : starts_with(text, i, part)}
  IN IF found = {} THEN npos ELSE Min(found)

\* substr(from, count), count a size_t; the end of the text ends it.
Copy(text, from, count) == SubSeq(text, from + 1, Min({from + (count % SizeMod), Len(text)}))

-----------------------------------------------------------------------------
(* The parts of a message: what was found and the offset after it, or an   *)
(* error.  out_of_range is the exception of at and substr.                 *)

Found(value, offset) == [error |-> "success", value |-> value, offset |-> offset]
Fails(error) == [error |-> error]
Then(r, Next(_, _)) == IF r.error = "success" THEN Next(r.value, r.offset) ELSE r

\* Mutant: the exception comes one character early.
Literal_AtEnd(strings, text, offset, error) ==
  LET found == {k \in DOMAIN strings : starts_with(text, offset, strings[k])}
      key == CHOOSE k \in found : TRUE
  IN IF offset >= Len(text) THEN Fails("out_of_range")
     ELSE IF found = {} THEN Fails(error)
     ELSE Found(key, offset + Len(strings[key]))

\* The key of a map whose string the text has at the offset.
Literal(strings, text, offset, error) ==
  LET found == {k \in DOMAIN strings : starts_with(text, offset, strings[k])}
      key == CHOOSE k \in found : TRUE
  IN IF offset > Len(text) THEN Fails("out_of_range")
     ELSE IF found = {} THEN Fails(error)
     ELSE Found(key, offset + Len(strings[key]))

try_get_method(text, offset) ==
  Literal(http_method_strings, text, offset, "parse_error_method")

try_get_version(text, offset) ==
  Literal(http_version_strings, text, offset, "parse_error_version")

try_get_status(text, offset) ==
  Literal(http_status_strings, text, offset, "parse_error_status")

try_get_uri(text, offset) ==
  LET end == find(text, Space, offset) IN
    IF offset >= Len(text) THEN Fails("out_of_range")
    ELSE IF text[offset + 1] # "/" \/ end = npos THEN Fails("parse_error_uri")
    ELSE Found(SubSeq(text, offset + 1, end), end)

\* Mutant: a colon after the end of the line will do.
try_get_header_AnyColon(text, offset) ==
  LET end == find(text, crlf, offset)
      colon == find(text, Colon, offset)
  IN IF colon = npos \/ end = npos THEN Fails("parse_error_headers")
     ELSE Found([name |-> Copy(text, offset, colon - offset),
                 value |-> Copy(text, colon + 2, end - (colon + 2))],
                end + Len(crlf))

\* Mutant: the line may also end with the text.
try_get_header_ToEnd(text, offset) ==
  LET end == Min({find(text, crlf, offset), Len(text)})
      colon == find(text, Colon, offset)
  IN IF colon = npos \/ colon > end THEN Fails("parse_error_headers")
     ELSE Found([name |-> Copy(text, offset, colon - offset),
                 value |-> Copy(text, colon + 2, end - (colon + 2))],
                end + Len(crlf))

\* Mutant: the character after the colon is kept.
try_get_header_KeepsSpace(text, offset) ==
  LET end == find(text, crlf, offset)
      colon == find(text, Colon, offset)
  IN IF colon = npos \/ end = npos \/ colon > end THEN Fails("parse_error_headers")
     ELSE Found([name |-> Copy(text, offset, colon - offset),
                 value |-> Copy(text, colon + 1, end - (colon + 1))],
                end + Len(crlf))

\* A line of a name, a colon, one character that is skipped, and a value.  When the
\* colon ends the line, the length of the value wraps.
try_get_header(text, offset) ==
  LET end == find(text, crlf, offset)
      colon == find(text, Colon, offset)
  IN IF colon = npos \/ end = npos \/ colon > end THEN Fails("parse_error_headers")
     ELSE Found([name |-> Copy(text, offset, colon - offset),
                 value |-> Copy(text, colon + 2, end - (colon + 2))],
                end + Len(crlf))

\* A line before others: insert_or_assign of a later one of its name replaces it.
Before(header, later) ==
  [name \in DOMAIN later \cup {header.name} |->
     IF name \in DOMAIN later THEN later[name] ELSE header.value]

\* Mutant: the empty line is not skipped.
try_get_headers_KeepsCrlf(text, start) ==
  LET from[offset \in Nat] ==
        IF offset >= Len(text) \/ starts_with(text, offset, crlf)
        THEN Found(NoHeaders, offset)
        ELSE Then(try_get_header(text, offset), LAMBDA header, next :
             Then(from[next], LAMBDA later, end :
               Found(Before(header, later), end)))
  IN from[start]

\* The lines up to an empty one or to the end of the text; of two lines with one name
\* the later counts.
try_get_headers(text, start) ==
  LET from[offset \in Nat] ==
        IF offset >= Len(text) THEN Found(NoHeaders, offset)
        ELSE IF starts_with(text, offset, crlf) THEN Found(NoHeaders, offset + Len(crlf))
        ELSE Then(try_get_header(text, offset), LAMBDA header, next :
             Then(from[next], LAMBDA later, end :
               Found(Before(header, later), end)))
  IN from[start]

try_get_body(text, offset) ==
  IF offset >= Len(text) THEN Fails("parse_error_body")
  ELSE Found(substr(text, offset), Len(text))

\* Mutant: a message without a body is not expected.
Rest_AlwaysBody(text, offset, message) ==
  Then(try_get_headers(text, offset), LAMBDA headers, start :
  Then(try_get_body(text, start), LAMBDA body, end :
    Found([message EXCEPT !.headers = headers, !.body = body], end)))

\* The headers, and the rest of the text as the body.
Rest(text, offset, message) ==
  Then(try_get_headers(text, offset), LAMBDA headers, start :
    IF start < Len(text)
    THEN Then(try_get_body(text, start), LAMBDA body, end :
           Found([message EXCEPT !.headers = headers, !.body = body], end))
    ELSE Found([message EXCEPT !.headers = headers], start))

\* The character skipped at the offset is the first of several that count as one; what is
\* left of them begins neither a uri nor a status.
Splits(text, offset) ==
  /\ offset < Len(text)
  /\ <<text[offset + 1]>> \in Range(http_method_strings) \cup Range(http_version_strings)
                              \cup Range(http_status_strings) \cup {ContentLength}

\* http_request::parse
parse_request(text) ==
  Then(try_get_method(text, 0), LAMBDA method, after_method :
  IF Splits(text, after_method) THEN Fails("parse_error_uri") ELSE
  Then(try_get_uri(text, after_method + 1), LAMBDA uri, after_uri :
  Then(try_get_version(text, after_uri + 1), LAMBDA version, after_version :
    Rest(text, after_version + Len(crlf),
         [EmptyMessage EXCEPT !.method = method, !.uri = uri, !.version = version]))))

\* http_response::parse
parse_response(text) ==
  Then(try_get_version(text, 0), LAMBDA version, after_version :
  IF Splits(text, after_version) THEN Fails("parse_error_status") ELSE
  Then(try_get_status(text, after_version + 1), LAMBDA status, after_status :
    Rest(text, after_status + Len(crlf),
         [EmptyMessage EXCEPT !.status = status, !.version = version])))

parse(kind, text) ==
  IF kind = "request" THEN parse_request(text) ELSE parse_response(text)

-----------------------------------------------------------------------------
(* to_string, and get_header.                                              *)

\* std::map keeps the names in an order of its own.
Lines(headers) ==
  LET names == SetToSeq(DOMAIN headers)
  IN FlattenSeq([i \in 1..Len(names) |->
                   names[i] \o Colon \o Space \o headers[names[i]] \o crlf])

start_line(kind, m) ==
  IF kind = "request"
  THEN http_method_strings[m.method] \o Space \o m.uri \o Space
       \o http_version_strings[m.version]
  ELSE http_version_strings[m.version] \o Space \o http_status_strings[m.status]

to_string(kind, m) ==
  start_line(kind, m) \o crlf \o Lines(m.headers) \o crlf \o m.body

get_header(m, name) == IF name \in DOMAIN m.headers THEN m.headers[name] ELSE <<>>

-----------------------------------------------------------------------------

\* Texts that name no other part of a message than their own.
Holds(text, part) == \E i \in 0..Len(text) : starts_with(text, i, part)

\* The value of a header whose length has wrapped: the colon was the last character of
\* its line, and all that follows the CR is the value.
RunsOn(text, value) ==
  \E i \in 0..Len(text) : starts_with(text, i, Colon \o crlf) /\ value = substr(text, i + 2)

\* The messages that their own text describes.
WellFormed(kind, m) ==
  /\ kind = "request" => m.uri # <<>> /\ m.uri[1] = "/" /\ ~Holds(m.uri, Space)
  /\ \A name \in DOMAIN m.headers :
       /\ ~Holds(name, Colon) /\ ~Holds(name, crlf)
       /\ ~Holds(m.headers[name], crlf)
=============================================================================
