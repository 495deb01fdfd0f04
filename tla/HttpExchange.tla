---------------------------- MODULE HttpExchange ----------------------------
(***************************************************************************)
(* One direction of a connection: a program builds a message with the      *)
(* setters and sends its text (send_request, send_response); the other end *)
(* takes texts from the stream until one is refused.                       *)
(*                                                                         *)
(* Receive is receive_request and receive_response as they are: the        *)
(* co_await of receive_raw_message throws (AwaitNeverDelivers), so that    *)
(* the text is lost and parse is never reached.  Parse is the call behind  *)
(* it: parse of a beginning of the stream, a part of a message or several, *)
(* as receive_raw_message returns it (Connection).  The properties of      *)
(* texts are statements about parse, which is public and is what the unit  *)
(* tests call.  The text may also come from another program.               *)
(***************************************************************************)
EXTENDS Http

CONSTANTS Methods, Statuses,  \* those used
          Uris, Names, Texts, \* uris, names of headers, and values or bodies, of messages
          PeerTexts,          \* texts sent by other programs
          MaxEdits, MaxSends  \* bounds: calls of setters, and of send

ASSUME HttpExchangeAssumption ==
  /\ Methods \subseteq DOMAIN http_method_strings
  /\ Statuses \subseteq DOMAIN http_status_strings
  /\ Uris \cup Names \cup Texts \cup PeerTexts \subseteq Text
  /\ MaxEdits \in Nat /\ MaxSends \in Nat

\* A number is a character.
ASSUME ToStringAssumption == \A body \in Texts : ToString(Len(body)) \in Char

VARIABLES
  kind,       \* of the messages of this direction, fixed for a behaviour
  message,    \* the message being built
  by_hand,    \* history: Content-Length or the body was set other than by set_body
  edits,      \* history: the number of setters called
  sent,       \* history: the messages sent
  sends,      \* history: the number of texts sent
  stream,     \* the texts sent and not yet taken
  connected,  \* the other end goes on
  text,       \* the last text passed to parse
  result      \* what came of it, or of a receive

vars == <<kind, message, by_hand, edits, sent, sends, stream, connected, text, result>>

Sender == <<message, by_hand, edits, sent, sends>>
Receiver == <<connected, text, result>>

NoResult == [error |-> "none"]

Init ==
  /\ kind \in Kinds
  /\ message = EmptyMessage /\ by_hand = FALSE /\ edits = 0
  /\ sent = <<>> /\ sends = 0
  /\ stream = <<>>
  /\ connected = TRUE /\ text = <<>> /\ result = NoResult

-----------------------------------------------------------------------------
(* The message being built.                                                *)

\* A setter and a parse share no variable; setters after a parse are left out.
Edit(m, hand) ==
  /\ edits < MaxEdits /\ text = <<>> /\ connected
  /\ edits' = edits + 1
  /\ message' = m
  /\ by_hand' = hand
  /\ UNCHANGED <<kind, sent, sends, stream, Receiver>>

\* insert_or_assign and erase of std::map.
insert_or_assign(headers, name, value) ==
  [n \in DOMAIN headers \cup {name} |-> IF n = name THEN value ELSE headers[n]]
erase(headers, name) == [n \in DOMAIN headers \ {name} |-> headers[n]]

\* http_request(method, uri, version, headers, body): the fields as they are given.
Construct(method, uri, headers, body) ==
  /\ kind = "request"
  /\ Edit([EmptyMessage EXCEPT !.method = method, !.uri = uri,
                               !.headers = headers, !.body = body], TRUE)

set_method(method) == kind = "request" /\ Edit([message EXCEPT !.method = method], by_hand)
set_uri(uri) == kind = "request" /\ Edit([message EXCEPT !.uri = uri], by_hand)
set_status(status) == kind = "response" /\ Edit([message EXCEPT !.status = status], by_hand)

set_header(name, value) ==
  Edit([message EXCEPT !.headers = insert_or_assign(@, name, value)],
       by_hand \/ name = ContentLength)

\* Mutant: an empty body leaves the length of the old one.
set_body_KeepsLength(body) ==
  LET length == <<ToString(Len(body))>> IN
    Edit([message EXCEPT !.body = body,
                         !.headers = IF body = <<>> THEN @
                                     ELSE insert_or_assign(@, ContentLength, length)],
         FALSE)

set_body(body) ==
  LET length == <<ToString(Len(body))>> IN
    Edit([message EXCEPT !.body = body,
                         !.headers = IF body = <<>> THEN erase(@, ContentLength)
                                     ELSE insert_or_assign(@, ContentLength, length)],
         FALSE)

-----------------------------------------------------------------------------
(* The exchange.                                                           *)

\* send_request, send_response.
Send ==
  /\ sends < MaxSends
  /\ sends' = sends + 1
  /\ sent' = Append(sent, message)
  /\ stream' = stream \o to_string(kind, message)
  /\ UNCHANGED <<kind, message, by_hand, edits, Receiver>>

\* The other end is another program.
PeerSends(t) ==
  /\ edits = 0 /\ sends = 0
  /\ edits' = MaxEdits /\ sends' = MaxSends
  /\ stream' = t
  /\ UNCHANGED <<kind, message, by_hand, sent, Receiver>>

\* parse returns the message; the offset is its local variable.
Returned(r) == IF r.error = "success" THEN [error |-> "success", value |-> r.value] ELSE r

\* parse of the first n characters of the stream, in a std::string: they are fewer than
\* npos.  An exception leaves parse as it is.  The caller stops at the first failure.
Parse(n) ==
  /\ connected
  /\ n \in 1..Len(stream) /\ n < npos
  /\ stream' = substr(stream, n)
  /\ text' = SubSeq(stream, 1, n)
  /\ result' = Returned(parse(kind, text'))
  /\ connected' = (result'.error = "success")
  /\ UNCHANGED <<kind, Sender>>

\* receive_request or receive_response: receive_raw_message has taken n characters, or
\* none and failed, and the co_await of it throws.  unhandled_exception stores the error,
\* and the loop of start is left by the same exception.
Receive(n) ==
  /\ connected
  /\ n \in 0..Len(stream)
  /\ stream' = substr(stream, n)
  /\ text' = <<>> /\ result' = Fails("operation_canceled")
  /\ connected' = FALSE
  /\ UNCHANGED <<kind, Sender>>

Next ==
  \/ \E method \in Methods :
       \/ set_method(method)
       \/ \E uri \in Uris, body \in Texts : Construct(method, uri, NoHeaders, body)
  \/ \E status \in Statuses : set_status(status)
  \/ \E uri \in Uris : set_uri(uri)
  \/ \E name \in Names, value \in Texts : set_header(name, value)
  \/ \E body \in Texts : set_body(body)
  \/ Send
  \/ \E t \in PeerTexts : PeerSends(t)
  \/ \E n \in 1..Len(stream) : Parse(n)
  \/ \E n \in 0..Len(stream) : Receive(n)

Spec == Init /\ [][Next]_vars
-----------------------------------------------------------------------------
(* Properties.                                                             *)

Errors == {"parse_error_method", "parse_error_uri", "parse_error_version",
           "parse_error_headers", "parse_error_body", "parse_error_status",
           "out_of_range", "operation_canceled"}

IsMessage(m) ==
  /\ m.method \in DOMAIN http_method_strings /\ m.status \in DOMAIN http_status_strings
  /\ m.version \in DOMAIN http_version_strings
  /\ DOMAIN m.headers \subseteq Text /\ Range(m.headers) \subseteq Text
  /\ {m.uri, m.body} \subseteq Text

\* The values of the variables; a body that is there is not reported as an error.
TypeOK ==
  /\ kind \in Kinds /\ by_hand \in BOOLEAN /\ connected \in BOOLEAN
  /\ IsMessage(message) /\ \A i \in DOMAIN sent : IsMessage(sent[i])
  /\ result.error \in {"none", "success"} \cup (Errors \ {"parse_error_body"})
  /\ result.error = "success" => IsMessage(result.value)

\* Whatever setters were called before, and in whatever order, Content-Length is there
\* exactly when there is a body, and says its length, unless the program has set it or
\* has passed a body to the constructor, which does not set it.  SettersAndGetters of
\* http_request_tests.cpp expects one header after a set_header and a set_body.
ContentLengthTracksBody ==
  ~by_hand =>
    get_header(message, ContentLength) =
      IF message.body = <<>> THEN <<>> ELSE <<ToString(Len(message.body))>>

\* A message that was parsed whole and alone has been understood as it was built if
\* it is well formed: to_string writes any uri, name and value as they are, and parse
\* undoes it when none of them has a separator in it.  One that is not well formed is
\* understood as something else, or not at all, unless a value that runs on happens to
\* be the value that was sent.
RoundTrip ==
  \A i \in DOMAIN sent :
    text = to_string(kind, sent[i]) =>
      LET understood == result = [error |-> "success", value |-> sent[i]] IN
        /\ WellFormed(kind, sent[i]) => understood
        /\ understood => \/ WellFormed(kind, sent[i])
                         \/ \E value \in Range(sent[i].headers) : RunsOn(text, value)

Submap(f, g) == \A x \in DOMAIN f : x \in DOMAIN g /\ f[x] = g[x]

\* A message of which only the first part was parsed is either refused or taken for
\* a whole one that has the same first line, some of the headers and the beginning of
\* the body: parse does not look at Content-Length, and the end of the text ends it.
CutIsPart ==
  \A i \in DOMAIN sent :
    /\ WellFormed(kind, sent[i])
    /\ IsPrefix(text, to_string(kind, sent[i]))
    /\ result.error = "success"
    => /\ [result.value EXCEPT !.headers = NoHeaders, !.body = <<>>]
            = [sent[i] EXCEPT !.headers = NoHeaders, !.body = <<>>]
       /\ Submap(result.value.headers, sent[i].headers)
       /\ IsPrefix(result.value.body, sent[i].body)

\* When a message and what follows it in the stream are parsed together, the
\* message is understood, and all that follows, be it another message, has become
\* part of its body.
RestIsBody ==
  \A i \in DOMAIN sent :
    LET whole == to_string(kind, sent[i]) IN
      WellFormed(kind, sent[i]) /\ IsPrefix(whole, text) =>
        result = [error |-> "success",
                  value |-> [sent[i] EXCEPT !.body = @ \o substr(text, Len(whole))]]

\* The texts that end before a first line can be told from an error: a method and at
\* most one character that is no part of several, or a version.
EndsTooSoon(t) ==
  IF kind = "request"
  THEN Len(t) \in {1, 2} /\ <<t[1]>> \in Range(http_method_strings) /\ ~Splits(t, 1)
  ELSE Len(t) = 1 /\ t \in Range(http_version_strings)

\* parse, which returns its errors, lets an exception of at or substr out for these texts
\* and for no other.
ThrowsExactly == result.error = "out_of_range" <=> EndsTooSoon(text)

\* A header takes nothing from outside its line, unless the length of its value wraps.
HeadersStayInLine ==
  result.error = "success" =>
    \A name \in DOMAIN result.value.headers :
      LET value == result.value.headers[name]
      IN ~Holds(name, crlf) /\ (~Holds(value, crlf) \/ RunsOn(text, value))
=============================================================================
