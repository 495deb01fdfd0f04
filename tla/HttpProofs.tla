----------------------------- MODULE HttpProofs -----------------------------
(***************************************************************************)
(* Theorems about HttpExchange, for every set of methods, uris, names and  *)
(* texts, and every number of setters called and messages sent.            *)
(***************************************************************************)
EXTENDS HttpExchange, HttpParserProofs

\* Setting one header leaves every other as it is.
LEMMA PutHeader ==
  ASSUME NEW h, NEW name, NEW value
  PROVE  /\ name \in DOMAIN insert_or_assign(h, name, value)
         /\ insert_or_assign(h, name, value)[name] = value
         /\ \A n : n # name =>
              /\ n \in DOMAIN insert_or_assign(h, name, value) <=> n \in DOMAIN h
              /\ n \in DOMAIN h => insert_or_assign(h, name, value)[n] = h[n]
  BY DEF insert_or_assign

\* Erasing one header leaves every other as it is.
LEMMA EraseHeader ==
  ASSUME NEW h, NEW name
  PROVE  /\ name \notin DOMAIN erase(h, name)
         /\ \A n : n # name =>
              /\ n \in DOMAIN erase(h, name) <=> n \in DOMAIN h
              /\ n \in DOMAIN h => erase(h, name)[n] = h[n]
  BY DEF erase

\* A message has these fields.
IsRecord(m) ==
  m = [method |-> m.method, uri |-> m.uri, status |-> m.status, version |-> m.version,
       headers |-> m.headers, body |-> m.body]

\* The message being built has the fields of one, and its length is tracked.
BuildInv == IsRecord(message) /\ by_hand \in BOOLEAN /\ ContentLengthTracksBody

\* Every setter keeps BuildInv: a step of set_body makes the header follow the body,
\* every other one leaves both or is by hand.
LEMMA BuildStep == BuildInv /\ [Next]_vars => BuildInv'
<1> SUFFICES ASSUME BuildInv, [Next]_vars
             PROVE  BuildInv'
  OBVIOUS
<1>1. ASSUME NEW method \in Methods, set_method(method)
      PROVE  BuildInv'
  <2>1. message' = [message EXCEPT !.method = method] /\ by_hand' = by_hand
    BY <1>1 DEF set_method, Edit
  <2>2. QED
    BY <2>1 DEF BuildInv, IsRecord, ContentLengthTracksBody, get_header
<1>2. ASSUME NEW method \in Methods, NEW uri \in Uris, NEW body \in Texts,
             Construct(method, uri, NoHeaders, body)
      PROVE  BuildInv'
  <2>1. /\ message' = [EmptyMessage EXCEPT !.method = method, !.uri = uri,
                                           !.headers = NoHeaders, !.body = body]
        /\ by_hand' = TRUE
    BY <1>2 DEF Construct, Edit
  <2>2. QED
    BY <2>1 DEF BuildInv, IsRecord, ContentLengthTracksBody, EmptyMessage
<1>3. ASSUME NEW status \in Statuses, set_status(status)
      PROVE  BuildInv'
  <2>1. message' = [message EXCEPT !.status = status] /\ by_hand' = by_hand
    BY <1>3 DEF set_status, Edit
  <2>2. QED
    BY <2>1 DEF BuildInv, IsRecord, ContentLengthTracksBody, get_header
<1>4. ASSUME NEW uri \in Uris, set_uri(uri)
      PROVE  BuildInv'
  <2>1. message' = [message EXCEPT !.uri = uri] /\ by_hand' = by_hand
    BY <1>4 DEF set_uri, Edit
  <2>2. QED
    BY <2>1 DEF BuildInv, IsRecord, ContentLengthTracksBody, get_header
<1>5. ASSUME NEW name \in Names, NEW value \in Texts, set_header(name, value)
      PROVE  BuildInv'
  <2> DEFINE h == message.headers
             g == insert_or_assign(h, name, value)
  <2>1. /\ message' = [message EXCEPT !.headers = g]
        /\ by_hand' = (by_hand \/ name = ContentLength)
    BY <1>5 DEF set_header, Edit
  <2>4. IsRecord(message') /\ message'.headers = g /\ message'.body = message.body
    BY <2>1 DEF BuildInv, IsRecord
  <2>5. ASSUME ~by_hand'
        PROVE  get_header(message', ContentLength) = get_header(message, ContentLength)
    <3>1. name # ContentLength
      BY <2>1, <2>5
    <3>2. /\ ContentLength \in DOMAIN g <=> ContentLength \in DOMAIN h
          /\ ContentLength \in DOMAIN h => g[ContentLength] = h[ContentLength]
      BY <3>1, PutHeader
    <3>3. QED
      BY <2>4, <3>2 DEF get_header
  <2>6. QED
    BY <2>1, <2>4, <2>5 DEF BuildInv, ContentLengthTracksBody
<1>6. ASSUME NEW body \in Texts, set_body(body)
      PROVE  BuildInv'
  <2> DEFINE h == message.headers
             length == <<ToString(Len(body))>>
             g == IF body = <<>> THEN erase(h, ContentLength)
                  ELSE insert_or_assign(h, ContentLength, length)
  <2>1. message' = [message EXCEPT !.body = body, !.headers = g] /\ by_hand' = FALSE
    BY <1>6 DEF set_body, Edit
  <2> HIDE DEF length
  <2>4. /\ body = <<>> => ContentLength \notin DOMAIN g
        /\ body # <<>> => ContentLength \in DOMAIN g /\ g[ContentLength] = length
    BY PutHeader, EraseHeader
  <2>5. IsRecord(message') /\ message'.headers = g /\ message'.body = body
    BY <2>1 DEF BuildInv, IsRecord
  <2>6. get_header(message', ContentLength) = IF body = <<>> THEN <<>> ELSE length
    BY <2>4, <2>5 DEF get_header
  <2>7. QED
    BY <2>1, <2>5, <2>6 DEF BuildInv, ContentLengthTracksBody, length
<1>7. ASSUME UNCHANGED <<message, by_hand>>
      PROVE  BuildInv'
  BY <1>7 DEF BuildInv, ContentLengthTracksBody
<1>8. CASE Send
  BY <1>7, <1>8 DEF Send
<1>9. ASSUME NEW t \in PeerTexts, PeerSends(t)
      PROVE  BuildInv'
  BY <1>7, <1>9 DEF PeerSends
<1>10. ASSUME NEW n \in 1..Len(stream), Parse(n)
       PROVE  BuildInv'
  BY <1>7, <1>10 DEF Parse, Sender
<1>11. ASSUME NEW n \in 0..Len(stream), Receive(n)
       PROVE  BuildInv'
  BY <1>7, <1>11 DEF Receive, Sender
<1>12. CASE UNCHANGED vars
  BY <1>7, <1>12 DEF vars
<1>13. QED
  BY <1>1, <1>2, <1>3, <1>4, <1>5, <1>6, <1>8, <1>9, <1>10, <1>11, <1>12 DEF Next

\* The message being built always has its fields, and its length is tracked.
LEMMA BuildInvariant == Spec => []BuildInv
<1>1. Init => BuildInv
  <2> SUFFICES ASSUME Init
               PROVE  BuildInv
    OBVIOUS
  <2>1. IsRecord(message) /\ message.headers = NoHeaders /\ message.body = <<>>
    BY DEF Init, EmptyMessage, IsRecord
  <2>2. get_header(message, ContentLength) = <<>>
    BY <2>1 DEF get_header, NoHeaders
  <2>3. by_hand \in BOOLEAN
    BY DEF Init
  <2>4. QED
    BY <2>1, <2>2, <2>3 DEF BuildInv, ContentLengthTracksBody
<1>2. QED
  BY <1>1, BuildStep, PTL DEF Spec

\* Whatever setters are called, Content-Length says the length of the body.
THEOREM HttpContentLength == Spec => []ContentLengthTracksBody
<1>1. BuildInv => ContentLengthTracksBody
  BY DEF BuildInv
<1>2. QED
  BY <1>1, BuildInvariant, PTL

-----------------------------------------------------------------------------
(* Every variable has its value, and what was received is what parse makes *)
(* of the text.                                                            *)

\* The inductive invariant of the exchange: what is sent are messages of the kind, what
\* is received is their text or that of another program, and the result is parse's.
ExchangeInv ==
  /\ kind \in Kinds /\ by_hand \in BOOLEAN /\ connected \in BOOLEAN
  /\ MessageOf(kind, message)
  /\ sent \in Seq(Range(sent)) /\ \A m \in Range(sent) : MessageOf(kind, m)
  /\ stream \in Text /\ text \in Text
  /\ \/ text = <<>> /\ result \in {NoResult, Fails("operation_canceled")}
     \/ Len(text) > 0 /\ Len(text) < npos /\ result = Returned(parse(kind, text))

\* Setting or erasing a header leaves headers.
LEMMA PutIsHeaders ==
  ASSUME NEW h, IsHeaders(h), NEW name \in Text, NEW value \in Text
  PROVE  IsHeaders(insert_or_assign(h, name, value))
<1> DEFINE g == insert_or_assign(h, name, value)
<1>1. DOMAIN g = DOMAIN h \cup {name} /\ g = [n \in DOMAIN g |-> g[n]]
  BY DEF insert_or_assign
<1>2. \A n \in DOMAIN g : g[n] \in Text
  BY DEF insert_or_assign, IsHeaders
<1>3. IsFiniteSet(DOMAIN h \cup {name})
  BY FS_AddElement DEF IsHeaders
<1> HIDE DEF g
<1>4. QED
  BY <1>1, <1>2, <1>3 DEF IsHeaders, g

\* Erasing a header leaves headers.
LEMMA EraseIsHeaders ==
  ASSUME NEW h, IsHeaders(h), NEW name
  PROVE  IsHeaders(erase(h, name))
<1> DEFINE g == erase(h, name)
<1>1. DOMAIN g = DOMAIN h \ {name} /\ g = [n \in DOMAIN g |-> g[n]]
  BY DEF erase
<1>2. \A n \in DOMAIN g : g[n] \in Text
  BY DEF erase, IsHeaders
<1>3. IsFiniteSet(DOMAIN h \ {name})
  BY FS_RemoveElement DEF IsHeaders
<1> HIDE DEF g
<1>4. QED
  BY <1>1, <1>2, <1>3 DEF IsHeaders, g

\* No headers are headers.
LEMMA NoIsHeaders == IsHeaders(NoHeaders) /\ DOMAIN NoHeaders = {}
<1>1. NoHeaders = [name \in {} |-> NoHeaders[name]] /\ DOMAIN NoHeaders = {}
  BY DEF NoHeaders
<1>2. QED
  BY <1>1, FS_EmptySet DEF IsHeaders

\* The step of a setter: only the message changes, and it stays one of the kind.
LEMMA EditStep ==
  ASSUME ExchangeInv, NEW m, NEW hand \in BOOLEAN, MessageOf(kind, m), Edit(m, hand)
  PROVE  ExchangeInv'
<1>1. /\ message' = m /\ by_hand' = hand
      /\ UNCHANGED <<kind, sent, stream, connected, text, result>>
  BY DEF Edit, Receiver
<1>2. MessageOf(kind, m)' = MessageOf(kind, m)
  BY <1>1
<1>3. QED
  BY <1>1 DEF ExchangeInv

\* Every setter builds a message of the kind, and a receive has the result of parse.
LEMMA ExchangeStep == ExchangeInv /\ [Next]_vars => ExchangeInv'
<1> SUFFICES ASSUME ExchangeInv, [Next]_vars
             PROVE  ExchangeInv'
  OBVIOUS
<1>0. by_hand \in BOOLEAN /\ MessageOf(kind, message)
  BY DEF ExchangeInv
<1>1. ASSUME NEW method \in Methods, set_method(method)
      PROVE  ExchangeInv'
  <2> DEFINE m == [message EXCEPT !.method = method]
  <2>1. method \in DOMAIN http_method_strings /\ kind = "request" /\ Edit(m, by_hand)
    BY <1>1, HttpExchangeAssumption DEF set_method
  <2>2. MessageOf(kind, m)
    BY <1>0, <2>1 DEF MessageOf, Message
  <2> HIDE DEF m
  <2>3. QED
    BY <1>0, <2>1, <2>2, EditStep
<1>2. ASSUME NEW method \in Methods, NEW uri \in Uris, NEW body \in Texts,
             Construct(method, uri, NoHeaders, body)
      PROVE  ExchangeInv'
  <2> DEFINE m == [EmptyMessage EXCEPT !.method = method, !.uri = uri,
                                       !.headers = NoHeaders, !.body = body]
  <2>1. /\ method \in DOMAIN http_method_strings /\ uri \in Text /\ body \in Text
        /\ kind = "request" /\ Edit(m, TRUE)
    BY <1>2, HttpExchangeAssumption DEF Construct
  <2>2. m = Message(method, uri, "ok", "http_1_1", NoHeaders, body)
    <3> DEFINE m1 == [EmptyMessage EXCEPT !.method = method]
               m2 == [m1 EXCEPT !.uri = uri]
               m3 == [m2 EXCEPT !.headers = NoHeaders]
    <3>1. m = [m3 EXCEPT !.body = body]
      BY Zenon
    <3>2. m1 = Message(method, <<>>, "ok", "http_1_1", NoHeaders, <<>>)
      BY Empty DEF Message
    <3> HIDE DEF m1
    <3>3. m2 = Message(method, uri, "ok", "http_1_1", NoHeaders, <<>>)
      BY <3>2 DEF Message
    <3> HIDE DEF m2
    <3>4. m3 = Message(method, uri, "ok", "http_1_1", NoHeaders, <<>>)
      BY <3>3 DEF Message
    <3> HIDE DEF m3, m
    <3>5. QED
      BY <3>1, <3>4 DEF Message
  <2> HIDE DEF m
  <2>3. MessageOf(kind, m)
    BY <2>1, <2>2, NoIsHeaders DEF MessageOf, Message, http_status_strings
  <2>4. QED
    BY <2>1, <2>3, EditStep
<1>3. ASSUME NEW status \in Statuses, set_status(status)
      PROVE  ExchangeInv'
  <2> DEFINE m == [message EXCEPT !.status = status]
  <2>1. status \in DOMAIN http_status_strings /\ kind = "response" /\ Edit(m, by_hand)
    BY <1>3, HttpExchangeAssumption DEF set_status
  <2>2. MessageOf(kind, m)
    BY <1>0, <2>1 DEF MessageOf, Message
  <2> HIDE DEF m
  <2>3. QED
    BY <1>0, <2>1, <2>2, EditStep
<1>4. ASSUME NEW uri \in Uris, set_uri(uri)
      PROVE  ExchangeInv'
  <2> DEFINE m == [message EXCEPT !.uri = uri]
  <2>1. uri \in Text /\ kind = "request" /\ Edit(m, by_hand)
    BY <1>4, HttpExchangeAssumption DEF set_uri
  <2>2. MessageOf(kind, m)
    BY <1>0, <2>1 DEF MessageOf, Message
  <2> HIDE DEF m
  <2>3. QED
    BY <1>0, <2>1, <2>2, EditStep
<1>5. ASSUME NEW name \in Names, NEW value \in Texts, set_header(name, value)
      PROVE  ExchangeInv'
  <2> DEFINE g == insert_or_assign(message.headers, name, value)
             m == [message EXCEPT !.headers = g]
             hand == by_hand \/ name = ContentLength
  <2>1. name \in Text /\ value \in Text
    BY HttpExchangeAssumption
  <2>2. Edit(m, hand)
    BY <1>5 DEF set_header
  <2>3. IsHeaders(g)
    BY <1>0, <2>1, PutIsHeaders DEF MessageOf
  <2> HIDE DEF g
  <2>4. MessageOf(kind, m)
    BY <1>0, <2>3 DEF MessageOf, Message
  <2>5. hand \in BOOLEAN
    OBVIOUS
  <2> HIDE DEF m, hand
  <2>6. QED
    BY <2>2, <2>4, <2>5, EditStep
<1>6. ASSUME NEW body \in Texts, set_body(body)
      PROVE  ExchangeInv'
  <2> DEFINE length == <<ToString(Len(body))>>
             h == message.headers
             g == IF body = <<>> THEN erase(h, ContentLength)
                  ELSE insert_or_assign(h, ContentLength, length)
             m == [message EXCEPT !.body = body, !.headers = g]
  <2>1. body \in Text /\ length \in Text /\ ContentLength \in Text
    <3> DEFINE c == ToString(Len(body))
    <3>1. c \in Char
      BY ToStringAssumption
    <3> HIDE DEF c
    <3>2. <<c>> \in Text
      BY <3>1 DEF Text
    <3>3. QED
      BY <3>2, HttpExchangeAssumption, CharAssumption DEF c
  <2>2. Edit(m, FALSE)
    BY <1>6 DEF set_body
  <2> HIDE DEF length
  <2>3. IsHeaders(g)
    BY <1>0, <2>1, PutIsHeaders, EraseIsHeaders DEF MessageOf
  <2> HIDE DEF g
  <2>4. MessageOf(kind, m)
    <3> DEFINE m1 == [message EXCEPT !.body = body]
    <3>1. m = [m1 EXCEPT !.headers = g]
      BY Zenon
    <3>2. MessageOf(kind, m1)
      BY <1>0, <2>1 DEF MessageOf, Message
    <3> HIDE DEF m1, m
    <3>3. QED
      BY <2>3, <3>1, <3>2 DEF MessageOf, Message
  <2> HIDE DEF m
  <2>5. QED
    BY <2>2, <2>4, EditStep
<1>7. CASE Send
  <2>1. /\ sent' = Append(sent, message) /\ stream' = stream \o to_string(kind, message)
        /\ UNCHANGED <<kind, message, by_hand, connected, text, result>>
    BY <1>7 DEF Send, Receiver
  <2>2. stream' \in Text
    <3> DEFINE t == to_string(kind, message)
    <3>1. t \in Text /\ stream \in Text
      BY <1>0, ToStringText DEF ExchangeInv
    <3> HIDE DEF t
    <3>2. stream \o t \in Text
      BY <3>1, TextConcat
    <3>3. QED
      BY <2>1, <3>2 DEF t
  <2>3. sent' \in Seq(Range(sent')) /\ \A m \in Range(sent') : MessageOf(kind, m)
    <3> DEFINE S == Range(sent) \cup {message}
               all == Append(sent, message)
    <3>1. sent \in Seq(Range(sent)) /\ \A m \in S : MessageOf(kind, m)
      BY <1>0 DEF ExchangeInv
    <3>2. sent \in Seq(S)
      BY <3>1
    <3>3. all \in Seq(S)
      BY <3>2
    <3> HIDE DEF all, S
    <3>4. Range(all) \subseteq S /\ all \in Seq(Range(all))
      BY <3>3 DEF Range
    <3>5. QED
      BY <2>1, <3>1, <3>4 DEF all
  <2>4. QED
    BY <2>1, <2>2, <2>3 DEF ExchangeInv
<1>8. ASSUME NEW t \in PeerTexts, PeerSends(t)
      PROVE  ExchangeInv'
  <2>1. stream' = t /\ UNCHANGED <<kind, message, by_hand, sent, connected, text, result>>
    BY <1>8 DEF PeerSends, Receiver
  <2>2. t \in Text
    BY HttpExchangeAssumption
  <2>3. QED
    BY <2>1, <2>2 DEF ExchangeInv
<1>9. ASSUME NEW n \in 1..Len(stream), Parse(n)
      PROVE  ExchangeInv'
  <2>1. /\ n < npos /\ stream' = substr(stream, n) /\ text' = SubSeq(stream, 1, n)
        /\ result' = Returned(parse(kind, text')) /\ connected' = (result'.error = "success")
        /\ UNCHANGED <<kind, message, by_hand, sent>>
    BY <1>9 DEF Parse, Sender
  <2>2. Len(stream) \in Nat /\ stream \in Text
    BY DEF ExchangeInv, Text
  <2>3. stream' \in Text
    BY <2>1, <2>2 DEF substr, Text
  <2>4. text' \in Text /\ Len(text') > 0 /\ Len(text') < npos
    <3> DEFINE t == SubSeq(stream, 1, n)
    <3>1. t \in Text /\ Len(t) >= n /\ Len(t) <= n
      BY <2>2 DEF Text
    <3> HIDE DEF t
    <3>2. npos \in Int /\ Len(t) \in Nat
      BY <3>1, SizeModAssumption DEF npos, Text
    <3>3. Len(t) > 0 /\ Len(t) < npos
      BY <2>1, <3>1, <3>2
    <3>4. QED
      BY <2>1, <3>1, <3>3 DEF t
  <2>5. QED
    BY <2>1, <2>3, <2>4 DEF ExchangeInv
<1>10. ASSUME NEW n \in 0..Len(stream), Receive(n)
       PROVE  ExchangeInv'
  <2>1. /\ connected' = FALSE /\ text' = <<>> /\ result' = Fails("operation_canceled")
        /\ stream' = substr(stream, n)
        /\ UNCHANGED <<kind, message, by_hand, sent>>
    BY <1>10 DEF Receive, Sender
  <2>2. <<>> \in Text
    BY DEF Text
  <2>3. stream' \in Text
    BY <2>1 DEF ExchangeInv, substr, Text
  <2>4. QED
    BY <2>1, <2>2, <2>3 DEF ExchangeInv
<1>11. CASE UNCHANGED vars
  BY <1>11 DEF vars, ExchangeInv
<1>12. QED
  BY <1>1, <1>2, <1>3, <1>4, <1>5, <1>6, <1>7, <1>8, <1>9, <1>10, <1>11 DEF Next

\* The invariant of the exchange holds.
LEMMA ExchangeInvariant == Spec => []ExchangeInv
<1>1. Init => ExchangeInv
  <2> SUFFICES ASSUME Init
               PROVE  ExchangeInv
    OBVIOUS
  <2>1. <<>> \in Text
    BY DEF Text
  <2>2. MessageOf(kind, message)
    <3>1. message = Message("get", <<>>, "ok", "http_1_1", NoHeaders, <<>>)
      BY Empty DEF Init
    <3>2. QED
      BY <2>1, <3>1, NoIsHeaders
         DEF MessageOf, Message, http_method_strings, http_status_strings
  <2>3. Range(sent) = {} /\ sent \in Seq(Range(sent))
    BY DEF Init, Range
  <2>4. QED
    BY <2>1, <2>2, <2>3 DEF Init, ExchangeInv
<1>2. QED
  BY <1>1, ExchangeStep, PTL DEF Spec

-----------------------------------------------------------------------------
(* What is received.                                                       *)

\* A text that was received, and what has come of it.
IsParsed ==
  /\ kind \in Kinds /\ text \in Text /\ Len(text) > 0 /\ Len(text) < npos
  /\ result = Returned(parse(kind, text))

\* Nothing was received yet, a receive has failed, or the result is one of parse.
LEMMA ResultFromParse ==
  ASSUME ExchangeInv
  PROVE  \/ text = <<>> /\ result.error \in {"none", "operation_canceled"}
         \/ /\ IsParsed /\ ~TooShort(kind, text)
            /\ result.error \in LineErrors \cup {"parse_error_headers"}
         \/ /\ IsParsed /\ TooShort(kind, text)
            /\ result.error = "out_of_range"
         \/ /\ IsParsed /\ ~TooShort(kind, text)
            /\ parse(kind, text).error = "success"
            /\ result = [error |-> "success", value |-> parse(kind, text).value]
            /\ Understood(text, result.value)
            /\ kind = "request" =>
                 \E end \in Nat : UriAt(text, 2, end) /\ result.value.uri = SubSeq(text, 3, end)
<1>1. CASE text = <<>> /\ result \in {NoResult, Fails("operation_canceled")}
  BY <1>1 DEF NoResult, Fails
<1>2. CASE IsParsed
  <2> DEFINE r == parse(kind, text)
  <2>1. result = Returned(r)
    BY <1>2 DEF IsParsed
  <2>2. \/ /\ ~TooShort(kind, text)
           /\ \E e \in LineErrors \cup {"parse_error_headers"} : r = Fails(e)
        \/ /\ TooShort(kind, text)
           /\ r = Fails("out_of_range")
        \/ /\ ~TooShort(kind, text)
           /\ r.error = "success"
           /\ Understood(text, r.value)
           /\ kind = "request" =>
                \E end \in Nat : UriAt(text, 2, end) /\ r.value.uri = SubSeq(text, 3, end)
    BY <1>2, Parsed DEF IsParsed
  <2> HIDE DEF r
  <2>3. CASE \E e \in LineErrors \cup {"parse_error_headers"} : r = Fails(e)
    <3>1. PICK e \in LineErrors \cup {"parse_error_headers"} : r = Fails(e)
      BY <2>3
    <3>2. r.error = e /\ e # "success"
      BY <3>1 DEF Fails, LineErrors
    <3>3. result.error = e
      BY <2>1, <3>2 DEF Returned
    <3>4. ~TooShort(kind, text)
      BY <2>2, <3>1 DEF Fails, LineErrors
    <3>5. QED
      BY <1>2, <3>3, <3>4
  <2>4. CASE TooShort(kind, text) /\ r = Fails("out_of_range")
    BY <1>2, <2>1, <2>4 DEF Returned, Fails
  <2>5. CASE r.error = "success"
    <3>1. result = [error |-> "success", value |-> r.value]
      BY <2>1, <2>5 DEF Returned
    <3>2. result.value = r.value
      BY <3>1
    <3>3. /\ ~TooShort(kind, text) /\ Understood(text, r.value)
          /\ kind = "request" =>
               \E end \in Nat : UriAt(text, 2, end) /\ r.value.uri = SubSeq(text, 3, end)
      BY <2>2, <2>5 DEF Fails, LineErrors
    <3>4. QED
      BY <1>2, <2>5, <3>1, <3>2, <3>3 DEF r
  <2>6. QED
    BY <2>2, <2>3, <2>4, <2>5
<1>3. QED
  BY <1>1, <1>2 DEF ExchangeInv, IsParsed

\* The values of the variables, and the errors that a receive can report.
LEMMA MessageIsTyped ==
  ASSUME NEW k, NEW m, MessageOf(k, m)
  PROVE  IsMessage(m)
<1>1. m.version = "http_1_1"
  BY DEF MessageOf, Message
<1>2. QED
  BY <1>1, OneVersion DEF MessageOf, IsHeaders, IsMessage, Range

\* What was understood from a text has the values of a message.
LEMMA UnderstoodIsTyped ==
  ASSUME NEW t, NEW m, Understood(t, m)
  PROVE  IsMessage(m)
<1>1. PICK headers :
             \E method \in DOMAIN http_method_strings, status \in DOMAIN http_status_strings,
                uri \in Text, body \in Text :
               /\ m = Message(method, uri, status, "http_1_1", headers, body)
               /\ \A name \in DOMAIN headers : HeaderInLine(t, name, headers[name])
  BY DEF Understood
<1>2. PICK method \in DOMAIN http_method_strings, status \in DOMAIN http_status_strings,
           uri \in Text, body \in Text :
             /\ m = Message(method, uri, status, "http_1_1", headers, body)
             /\ \A name \in DOMAIN headers : HeaderInLine(t, name, headers[name])
  BY <1>1
<1>3. DOMAIN headers \subseteq Text /\ Range(headers) \subseteq Text
  BY <1>2 DEF HeaderInLine, Range
<1>4. QED
  BY <1>2, <1>3, OneVersion DEF Message, IsMessage

\* Messages built, sent and understood have the values of one, and no receive reports
\* an error of the body.
THEOREM HttpTypes == Spec => []TypeOK
<1>1. ExchangeInv => TypeOK
  <2> SUFFICES ASSUME ExchangeInv
               PROVE  TypeOK
    OBVIOUS
  <2>1. /\ kind \in Kinds /\ by_hand \in BOOLEAN /\ connected \in BOOLEAN /\ IsMessage(message)
    BY MessageIsTyped DEF ExchangeInv
  <2>2. \A i \in DOMAIN sent : IsMessage(sent[i])
    BY MessageIsTyped DEF ExchangeInv, Range
  <2>3. /\ result.error \in {"none", "success"} \cup (Errors \ {"parse_error_body"})
        /\ result.error = "success" => IsMessage(result.value)
    BY ResultFromParse, UnderstoodIsTyped DEF Errors, LineErrors
  <2>4. QED
    BY <2>1, <2>2, <2>3 DEF TypeOK
<1>2. QED
  BY <1>1, ExchangeInvariant, PTL

\* The exception leaves parse for the texts that are too short, and for no other.
THEOREM HttpThrows == Spec => []ThrowsExactly
<1>1. ExchangeInv => ThrowsExactly
  <2> SUFFICES ASSUME ExchangeInv
               PROVE  ThrowsExactly
    OBVIOUS
  <2>1. CASE text = <<>> /\ result.error \in {"none", "operation_canceled"}
    BY <2>1 DEF ThrowsExactly, EndsTooSoon
  <2>2. CASE IsParsed
    <3>1. kind \in Kinds /\ Len(text) \in Nat /\ Len(text) > 0 /\ text \in Text
      BY <2>2 DEF IsParsed, Text
    <3>2. ASSUME NEW strings, IsStrings(strings), NEW c
          PROVE  (\E key : key \in DOMAIN strings /\ c = strings[key][1]) <=> <<c>> \in Range(strings)
      <4>1. ASSUME NEW key \in DOMAIN strings
            PROVE  c = strings[key][1] <=> <<c>> = strings[key]
        <5> DEFINE string == strings[key]
        <5>1. string \in Seq(Char) /\ Len(string) = 1
          BY <3>2 DEF IsStrings, Text
        <5> HIDE DEF string
        <5>2. string = <<string[1]>>
          BY <5>1
        <5>3. QED
          BY <5>2 DEF string
      <4>2. QED
        BY <4>1 DEF Range
    <3>3. kind = "request" => (TooShort(kind, text) <=> EndsTooSoon(text))
      <4>1. (\E key : key \in DOMAIN http_method_strings /\ text[1] = http_method_strings[key][1])
              <=> <<text[1]>> \in Range(http_method_strings)
        BY <3>2, StringsAreCharacters
      <4>2. (\E key : KeyAt(http_method_strings, text, 0, key)) <=>
              <<text[1]>> \in Range(http_method_strings)
        BY <3>1, <4>1 DEF KeyAt
      <4>3. Len(text) <= 2 <=> Len(text) \in {1, 2}
        <5> DEFINE n == Len(text)
        <5>1. n \in Nat /\ n > 0
          BY <3>1
        <5> HIDE DEF n
        <5>2. n <= 2 <=> n \in {1, 2}
          BY <5>1
        <5>3. QED
          BY <5>2 DEF n
      <4>4. QED
        BY <4>2, <4>3 DEF TooShort, EndsTooSoon
    <3>4. kind = "response" => (TooShort(kind, text) <=> EndsTooSoon(text))
      <4> SUFFICES ASSUME kind = "response"
                   PROVE  TooShort(kind, text) <=> EndsTooSoon(text)
        OBVIOUS
      <4>1. (\E key : key \in DOMAIN http_version_strings /\ text[1] = http_version_strings[key][1])
              <=> <<text[1]>> \in Range(http_version_strings)
        BY <3>2, StringsAreCharacters
      <4>2. KeyAt(http_version_strings, text, 0, "http_1_1") <=>
              <<text[1]>> \in Range(http_version_strings)
        BY <3>1, <4>1, OneVersion DEF KeyAt
      <4>3. Len(text) <= 1 <=> Len(text) = 1
        <5> DEFINE n == Len(text)
        <5>1. n \in Nat /\ n > 0
          BY <3>1
        <5> HIDE DEF n
        <5>2. n <= 1 <=> n = 1
          BY <5>1
        <5>3. QED
          BY <5>2 DEF n
      <4>4. Len(text) = 1 => text = <<text[1]>>
        BY <3>1 DEF Text
      <4>5. EndsTooSoon(text) <=> Len(text) = 1 /\ text \in Range(http_version_strings)
        BY DEF EndsTooSoon
      <4>6. TooShort(kind, text) <=> Len(text) <= 1 /\ KeyAt(http_version_strings, text, 0, "http_1_1")
        BY DEF TooShort
      <4>7. QED
        BY Zenon, <4>2, <4>3, <4>4, <4>5, <4>6
    <3>5. result.error = "out_of_range" <=> TooShort(kind, text)
      BY <2>2, <3>1, ResultFromParse DEF LineErrors, IsParsed
    <3>6. QED
      BY <3>1, <3>3, <3>4, <3>5 DEF ThrowsExactly, Kinds
  <2>3. QED
    BY <2>1, <2>2, ResultFromParse
<1>2. QED
  BY <1>1, ExchangeInvariant, PTL

\* The headers of every message received are in their lines, wrapped values apart.
THEOREM HttpHeadersInLine == Spec => []HeadersStayInLine
<1>1. ExchangeInv => HeadersStayInLine
  <2> SUFFICES ASSUME ExchangeInv, result.error = "success",
                      NEW name \in DOMAIN result.value.headers
               PROVE  LET value == result.value.headers[name]
                      IN ~Holds(name, crlf) /\ (~Holds(value, crlf) \/ RunsOn(text, value))
    BY DEF HeadersStayInLine
  <2>1. Understood(text, result.value)
    BY ResultFromParse DEF LineErrors
  <2>2. HeaderInLine(text, name, result.value.headers[name])
    BY <2>1 DEF Understood, Message
  <2>3. QED
    BY <2>2 DEF HeaderInLine
<1>2. QED
  BY <1>1, ExchangeInvariant, PTL

-----------------------------------------------------------------------------
(* The messages that were sent, as they are understood.                    *)

\* What was sent is a message of the kind.
LEMMA SentIsMessage ==
  ASSUME ExchangeInv, NEW i \in DOMAIN sent
  PROVE  MessageOf(kind, sent[i]) /\ kind \in Kinds
  BY DEF ExchangeInv, Range

\* A text begins with itself.
LEMMA PrefixOfItself ==
  ASSUME NEW t \in Text
  PROVE  IsPrefix(t, t)
<1>1. Begins(t, t)
  BY DEF Begins, Text
<1>2. QED
  BY <1>1, Beginning

\* A text that was received is not empty, so something was made of it.
LEMMA TextIsParsed ==
  ASSUME ExchangeInv, Len(text) > 0
  PROVE  IsParsed
  BY DEF ExchangeInv, IsParsed

\* What was received whole and alone is understood when it is well formed.
LEMMA WholeIsUnderstood ==
  ASSUME ExchangeInv, NEW m, MessageOf(kind, m), WellFormed(kind, m),
         text = to_string(kind, m)
  PROVE  result = [error |-> "success", value |-> m]
<1>1. kind \in Kinds /\ text \in Text
  BY DEF ExchangeInv
<1>2. IsParsed
  BY <1>1, ToStringText, TextIsParsed
<1>3. parse(kind, text).error = "success" /\ parse(kind, text).value = m
  BY <1>1, <1>2, ParseToString, PrefixOfItself DEF IsParsed
<1>4. QED
  BY <1>2, <1>3 DEF IsParsed, Returned

\* A message that is understood as it was sent has no separator in its name, and none in
\* a value that does not run on.
LEMMA UnderstoodIsWellFormed ==
  ASSUME ExchangeInv, NEW m, MessageOf(kind, m),
         result = [error |-> "success", value |-> m],
         \A value \in Range(m.headers) : ~RunsOn(text, value)
  PROVE  WellFormed(kind, m)
<1>1. /\ Understood(text, m) /\ text \in Text
      /\ kind = "request" =>
           \E end \in Nat : UriAt(text, 2, end) /\ m.uri = SubSeq(text, 3, end)
  BY ResultFromParse DEF LineErrors, IsParsed
<1>2. ASSUME NEW name \in DOMAIN m.headers
      PROVE  /\ ~Holds(name, Colon) /\ ~Holds(name, crlf)
             /\ ~Holds(m.headers[name], crlf)
  <2>1. HeaderInLine(text, name, m.headers[name])
    BY <1>1 DEF Understood, Message
  <2>2. m.headers[name] \in Range(m.headers)
    BY DEF Range
  <2>3. QED
    BY <2>1, <2>2 DEF HeaderInLine
<1>3. ASSUME kind = "request"
      PROVE  m.uri # <<>> /\ m.uri[1] = "/" /\ ~Holds(m.uri, Space)
  <2>1. PICK end \in Nat : UriAt(text, 2, end) /\ m.uri = SubSeq(text, 3, end)
    BY <1>1, <1>3
  <2> DEFINE uri == SubSeq(text, 3, end)
  <2>2. Len(text) \in Nat /\ end \in 3..Len(text) - 1 /\ text[3] = "/"
        /\ \A i \in 2..end - 1 : text[i + 1] # "SP"
    BY <1>1, <2>1 DEF UriAt, Text
  <2>3. /\ uri \in Text /\ Len(uri) \in Nat /\ Len(uri) > 0 /\ Len(uri) <= end - 2
        /\ \A j \in 1..end - 2 : uri[j] = text[2 + j]
    BY <1>1, <2>2 DEF Text
  <2> HIDE DEF uri
  <2>4. uri # <<>> /\ uri[1] = "/"
    <3>1. uri[1] = text[2 + 1]
      BY <2>2, <2>3
    <3>2. QED
      BY <2>2, <2>3, <3>1
  <2>5. ~Holds(uri, Space)
    <3> SUFFICES ASSUME NEW i \in 0..Len(uri), starts_with(uri, i, Space)
                 PROVE  FALSE
      BY DEF Holds
    <3>1. i < Len(uri) /\ uri[i + 1] = "SP"
      BY <2>3, StartsWithSpace
    <3> DEFINE k == i + 2
    <3>2. i + 1 \in 1..end - 2 /\ k \in 2..end - 1 /\ k + 1 = 2 + (i + 1)
      BY <2>2, <2>3, <3>1
    <3> HIDE DEF k
    <3>3. QED
      BY <2>2, <2>3, <3>1, <3>2
  <2>6. QED
    BY <2>1, <2>4, <2>5 DEF uri
<1>4. QED
  BY <1>2, <1>3 DEF WellFormed

\* What was received whole and alone is understood as it was built when it is well formed;
\* and only then, when no value runs on.
THEOREM HttpRoundTrip == Spec => []RoundTrip
<1>1. ExchangeInv => RoundTrip
  <2> SUFFICES ASSUME ExchangeInv, NEW i \in DOMAIN sent, text = to_string(kind, sent[i])
               PROVE  LET understood == result = [error |-> "success", value |-> sent[i]]
                      IN /\ WellFormed(kind, sent[i]) => understood
                         /\ understood => \/ WellFormed(kind, sent[i])
                                          \/ \E value \in Range(sent[i].headers) : RunsOn(text, value)
    BY DEF RoundTrip
  <2> DEFINE m == sent[i]
  <2>1. MessageOf(kind, m) /\ text = to_string(kind, m)
    BY SentIsMessage
  <2> HIDE DEF m
  <2>2. WellFormed(kind, m) => result = [error |-> "success", value |-> m]
    BY <2>1, WholeIsUnderstood
  <2>3. result = [error |-> "success", value |-> m] =>
          WellFormed(kind, m) \/ \E value \in Range(m.headers) : RunsOn(text, value)
    BY <2>1, UnderstoodIsWellFormed
  <2>4. QED
    BY <2>2, <2>3 DEF m
<1>2. QED
  BY <1>1, ExchangeInvariant, PTL

\* The beginning of a message is refused or taken for a part of it.
THEOREM HttpCutIsPart == Spec => []CutIsPart
<1>1. ExchangeInv => CutIsPart
  <2> SUFFICES ASSUME ExchangeInv, NEW i \in DOMAIN sent, WellFormed(kind, sent[i]),
                      IsPrefix(text, to_string(kind, sent[i])), result.error = "success"
               PROVE  /\ [result.value EXCEPT !.headers = NoHeaders, !.body = <<>>]
                           = [sent[i] EXCEPT !.headers = NoHeaders, !.body = <<>>]
                      /\ Submap(result.value.headers, sent[i].headers)
                      /\ IsPrefix(result.value.body, sent[i].body)
    BY DEF CutIsPart
  <2> DEFINE m == sent[i]
             v == result.value
  <2>1. MessageOf(kind, m) /\ WellFormed(kind, m) /\ IsPrefix(text, to_string(kind, m))
    BY SentIsMessage
  <2>2. IsParsed /\ parse(kind, text).error = "success" /\ v = parse(kind, text).value
    BY ResultFromParse DEF LineErrors
  <2> HIDE DEF m, v
  <2>3. PartOf(v, m)
    <3>1. PartOf(parse(kind, text).value, m)
      BY <2>1, <2>2, ParseToString DEF IsParsed
    <3>2. QED
      BY <2>2, <3>1
  <2>4. PICK headers, body :
          /\ v = Message(m.method, m.uri, m.status, m.version, headers, body)
          /\ \A name \in DOMAIN headers :
               name \in DOMAIN m.headers /\ headers[name] = m.headers[name]
          /\ IsPrefix(body, m.body)
    BY <2>3 DEF PartOf
  <2>5. v.headers = headers /\ v.body = body
    BY <2>4 DEF Message
  <2>6. [v EXCEPT !.headers = NoHeaders, !.body = <<>>]
          = [m EXCEPT !.headers = NoHeaders, !.body = <<>>]
    <3> DEFINE v1 == [v EXCEPT !.headers = NoHeaders]
               v2 == [v1 EXCEPT !.body = <<>>]
               m1 == [m EXCEPT !.headers = NoHeaders]
               m2 == [m1 EXCEPT !.body = <<>>]
               bare == Message(m.method, m.uri, m.status, m.version, NoHeaders, <<>>)
    <3>1. [v EXCEPT !.headers = NoHeaders, !.body = <<>>] = v2
      BY Zenon
    <3>2. [m EXCEPT !.headers = NoHeaders, !.body = <<>>] = m2
      BY Zenon
    <3>3. v1 = Message(m.method, m.uri, m.status, m.version, NoHeaders, body)
      BY <2>4 DEF Message
    <3>4. m1 = Message(m.method, m.uri, m.status, m.version, NoHeaders, m.body)
      BY <2>1 DEF MessageOf, Message
    <3> HIDE DEF v1, m1
    <3>5. v2 = bare /\ m2 = bare
      BY <3>3, <3>4 DEF Message
    <3> HIDE DEF v2, m2
    <3>6. QED
      BY Zenon, <3>1, <3>2, <3>5
  <2>7. QED
    BY <2>4, <2>5, <2>6 DEF Submap, m, v
<1>2. QED
  BY <1>1, ExchangeInvariant, PTL
-----------------------------------------------------------------------------
(* What follows a message is read as the rest of its body.                 *)

\* A text is its beginning and what follows it.
LEMMA WhatFollows ==
  ASSUME NEW t \in Text, NEW whole \in Text, IsPrefix(whole, t)
  PROVE  substr(t, Len(whole)) \in Text /\ t = whole \o substr(t, Len(whole))
<1> DEFINE n == Len(whole)
           rest == substr(t, n)
           both == whole \o rest
<1>1. n \in Nat /\ Len(t) \in Nat /\ n <= Len(t) /\ \A i \in 1..n : whole[i] = t[i]
  BY Beginning DEF Begins, Text
<1>2. /\ rest \in Text /\ Len(rest) >= Len(t) - n /\ Len(rest) <= Len(t) - n
      /\ \A j \in 1..Len(t) - n : rest[j] = t[n + j]
  BY <1>1 DEF substr, Text
<1> HIDE DEF rest
<1>3. both \in Text /\ Len(both) = n + Len(rest)
      /\ \A i \in 1..n + Len(rest) : both[i] = IF i <= n THEN whole[i] ELSE rest[i - n]
  BY <1>2, ConcatProperties DEF Text
<1> HIDE DEF both, n
<1>4. Len(rest) \in Nat /\ Len(both) \in Nat
  BY <1>2, <1>3 DEF Text
<1>5. Len(both) >= Len(t) /\ Len(both) <= Len(t)
  BY <1>1, <1>2, <1>3, <1>4
<1>6. ASSUME NEW i \in 1..Len(t)
      PROVE  t[i] = both[i]
  <2>1. i \in 1..n + Len(rest)
    BY <1>1, <1>2, <1>4, <1>6
  <2>2. CASE i <= n
    BY <1>1, <1>3, <2>1, <2>2
  <2>3. CASE ~(i <= n)
    <3> DEFINE j == i - n
    <3>1. j \in 1..Len(t) - n /\ i = n + j
      BY <1>1, <1>6, <2>3
    <3>2. both[i] = rest[j]
      BY <1>3, <2>1, <2>3
    <3> HIDE DEF j
    <3>3. QED
      BY <1>2, <3>1, <3>2
  <2>4. QED
    BY <2>2, <2>3
<1>7. Len(t) = Len(both)
  BY <1>1, <1>4, <1>5
<1>8. t = both
  BY <1>3, <1>6, <1>7, SeqEqual DEF Text
<1>9. QED
  BY <1>2, <1>8 DEF both, rest, n

\* The first line of a message is a text.
LEMMA StartLineText ==
  ASSUME NEW k \in Kinds, NEW m, MessageOf(k, m)
  PROVE  start_line(k, m) \in Text
<1> DEFINE method == http_method_strings[m.method]
           status == http_status_strings[m.status]
           version == http_version_strings[m.version]
           uri == m.uri
<1>1. /\ uri \in Text /\ m.method \in DOMAIN http_method_strings
      /\ m.status \in DOMAIN http_status_strings /\ m.version = "http_1_1"
  BY DEF MessageOf, Message
<1>2. /\ method \in Text /\ Len(method) = 1 /\ status \in Text /\ Len(status) = 1
      /\ version \in Text /\ Len(version) = 1
  BY <1>1, StringsAreCharacters, OneVersion DEF IsStrings
<1>3. start_line(k, m) = IF k = "request" THEN method \o Space \o uri \o Space \o version
                         ELSE version \o Space \o status
  BY DEF start_line
<1> HIDE DEF method, status, version, uri
<1>4. method \o Space \o uri \o Space \o version \in Text
  BY <1>1, <1>2, RequestLineText
<1>5. version \o Space \o status \in Text
  BY <1>2, StatusLineText
<1>6. QED
  BY <1>3, <1>4, <1>5

\* What follows the text of a message is read as if it were of its body.
LEMMA LongerBody ==
  ASSUME NEW k \in Kinds, NEW m, MessageOf(k, m), WellFormed(k, m), NEW rest \in Text
  PROVE  LET longer == [m EXCEPT !.body = m.body \o rest]
         IN /\ MessageOf(k, longer) /\ WellFormed(k, longer)
            /\ to_string(k, longer) = to_string(k, m) \o rest
<1> DEFINE body == m.body
           both == body \o rest
           longer == [m EXCEPT !.body = both]
<1>1. body \in Text
  BY DEF MessageOf
<1>2. both \in Text
  BY <1>1, TextConcat
<1> HIDE DEF both
<1>3. /\ longer = Message(m.method, m.uri, m.status, "http_1_1", m.headers, both)
      /\ m.version = "http_1_1"
  BY DEF MessageOf, Message
<1> HIDE DEF longer
<1>4. /\ longer.method = m.method /\ longer.uri = m.uri /\ longer.status = m.status
      /\ longer.version = m.version /\ longer.headers = m.headers /\ longer.body = both
  BY <1>3 DEF Message
<1>5. MessageOf(k, longer)
  BY <1>2, <1>3, <1>4 DEF MessageOf
<1>6. WellFormed(k, longer)
  BY <1>4 DEF WellFormed
<1>7. to_string(k, longer) = to_string(k, m) \o rest
  <2> DEFINE a == start_line(k, m)
             lines == Lines(m.headers)
             b == a \o crlf
             c == b \o lines
             head == c \o crlf
  <2>1. a \in Text /\ lines \in Text /\ crlf \in Text
    BY StartLineText, LinesText, Parts DEF MessageOf
  <2>2. start_line(k, longer) = a
    BY <1>4 DEF start_line
  <2>3. to_string(k, longer) = head \o both /\ to_string(k, m) = head \o body
    BY <1>4, <2>2 DEF to_string
  <2> HIDE DEF a, lines
  <2>4. b \in Text
    BY <2>1, TextConcat
  <2> HIDE DEF b
  <2>5. c \in Text
    BY <2>1, <2>4, TextConcat
  <2> HIDE DEF c
  <2>6. head \in Text
    BY <2>1, <2>5, TextConcat
  <2> HIDE DEF head, body
  <2>7. (head \o body) \o rest = head \o (body \o rest)
    BY <1>1, <2>6, ConcatAssociative DEF Text
  <2>8. QED
    BY Zenon, <2>3, <2>7 DEF both
<1>8. QED
  BY <1>5, <1>6, <1>7 DEF longer, both, body

\* A well-formed message that is received with what follows it in the stream is understood,
\* and all that follows has become a part of its body.
THEOREM HttpRestIsBody == Spec => []RestIsBody
<1>1. ExchangeInv => RestIsBody
  <2> SUFFICES ASSUME ExchangeInv, NEW i \in DOMAIN sent, WellFormed(kind, sent[i]),
                      IsPrefix(to_string(kind, sent[i]), text)
               PROVE  result = [error |-> "success",
                                value |-> [sent[i] EXCEPT !.body =
                                  sent[i].body \o substr(text, Len(to_string(kind, sent[i])))]]
    BY DEF RestIsBody
  <2> DEFINE m == sent[i]
             whole == to_string(kind, m)
             rest == substr(text, Len(whole))
             longer == [m EXCEPT !.body = m.body \o rest]
  <2>1. MessageOf(kind, m) /\ kind \in Kinds /\ WellFormed(kind, m)
    BY SentIsMessage
  <2>2. IsPrefix(whole, text) /\ text \in Text
    BY DEF ExchangeInv
  <2> HIDE DEF m
  <2>3. whole \in Text
    BY <2>1, ToStringText
  <2> HIDE DEF whole
  <2>4. rest \in Text /\ text = whole \o rest
    BY <2>2, <2>3, WhatFollows
  <2> HIDE DEF rest
  <2>5. /\ MessageOf(kind, longer) /\ WellFormed(kind, longer)
        /\ to_string(kind, longer) = to_string(kind, m) \o rest
    BY <2>1, <2>4, LongerBody
  <2> HIDE DEF longer
  <2>6. text = to_string(kind, longer)
    BY <2>4, <2>5 DEF whole
  <2>7. result = [error |-> "success", value |-> longer]
    BY <2>5, <2>6, WholeIsUnderstood
  <2>8. QED
    BY <2>7 DEF longer, rest, whole, m
<1>2. QED
  BY <1>1, ExchangeInvariant, PTL
=============================================================================
