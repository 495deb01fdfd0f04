------------------------------- MODULE MCHttp -------------------------------
(***************************************************************************)
(* Messages with a separator in every place where one is possible; texts   *)
(* of other programs that begin as a message and go on in any way.         *)
(***************************************************************************)
EXTENDS HttpExchange

MCChar == STRING
MCMethods == {"get", "post"}
MCStatuses == {"ok", "not_found"}
MCUris == {<<>>, <<"/">>, <<"/", "SP">>}
MCNames == {<<"n">>, <<"n", ":">>, ContentLength}
MCTexts == {<<>>, <<"x">>, <<"CR", "LF">>, <<"n", ":">>, <<"LF", "CR", "LF", "n", ":">>}

\* All sequences over a set, up to a length.
UpTo(S, n) == UNION {[1..k -> S] : k \in 0..n}

Starts ==
  {<<"GET", "SP", "/", "SP", "HTTP/1.1", "CR", "LF">>, <<"HTTP/1.1", "SP", "200_OK", "CR", "LF">>}

Tails ==
  {FlattenSeq([i \in DOMAIN lines |-> lines[i] \o crlf]) :
     lines \in UpTo({<<>>, <<"x">>, <<"x", ":">>, <<":", "x">>, <<"x", ":", "SP", "x">>}, 3)}

MCPeerTexts ==
  {start \o tail : start \in Starts, tail \in Tails \cup UpTo({"x", ":", "CR", "LF"}, 4)}
  \cup UpTo({"/", "SP", "x"}, 3)
  \cup {<<method>> \o tail : method \in {"GET", "HEAD"}, tail \in UpTo({"/", "SP", "x", "HTTP/1.1"}, 3)}
  \cup {<<"HTTP/1.1">> \o tail : tail \in UpTo({"SP", "x", "200_OK"}, 2)}
=============================================================================
