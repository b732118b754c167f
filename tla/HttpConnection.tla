---------------------------- MODULE HttpConnection -----------------------------
(***************************************************************************)
(* One connection of the connector's HTTP server, served by a thread of    *)
(* its own (handle_connection and read_http_request in src/src/main.rs,    *)
(* invoke_http in src/src/desktop_invoke.rs): the request arrives in       *)
(* segments, is framed, checked and handed to its handler; the answer is   *)
(* written and the connection ends.                                        *)
(*                                                                         *)
(* Abstracted: bytes are counted, not looked at.  A request is its lengths *)
(* and what the checks tell apart: the target, whether the token and the   *)
(* arguments are good, and the workspace header.  What a handler does is   *)
(* the business of the other modules; here it runs, and answers.           *)
(***************************************************************************)
EXTENDS Integers

CONSTANTS
  ReadSize,             \* bytes of the read buffer (4096)
  HeaderLimit,          \* bytes that may be buffered while headers are read (65536)
  BodyLimit,            \* largest Content-Length (8 MiB)
  HeadLengths, BodyLengths   \* bound: lengths of header text and of bodies

ASSUME ConnectionAssumption ==
  /\ ReadSize \in Nat \ {0} /\ HeaderLimit \in Nat /\ BodyLimit \in Nat
  /\ HeadLengths \subseteq Nat /\ BodyLengths \subseteq Nat

VARIABLES
  request,    \* the request the client has to send
  sent,       \* bytes of it the client has sent
  shut,       \* the client has closed its side
  buffered,   \* bytes in `buffer`
  step,       \* where the thread stands
  reply,      \* status or code of the answer, or NoReply
  performed   \* the handler has run

clientVars == <<request, sent, shut>>
httpVars   == <<clientVars, buffered, step, reply, performed>>

Separator == 4   \* \r\n\r\n
NoLength  == -1  \* no Content-Length, or one that is no number

Requests ==
  [head : HeadLengths, declared : BodyLengths \cup {NoLength}, body : BodyLengths,
   target : {"health", "setup", "checkout", "invoke", "unknown"},
   token : BOOLEAN, arguments : BOOLEAN,
   workspace : {"absent", "malformed", "zero", "positive"}]

NoReply == "none"
Replies == {NoReply, "200", "INVALID_HTTP_REQUEST", "400", "WORKSPACE_CONTEXT_REQUIRED",
            "401", "404", "handled"}

BodyStart     == request.head + Separator
ContentLength == IF request.declared = NoLength THEN 0 ELSE request.declared
Expected      == BodyStart + ContentLength
Everything    == BodyStart + request.body

HttpInit ==
  /\ request \in Requests
  /\ sent = 0 /\ shut = FALSE /\ buffered = 0
  /\ step = "headers" /\ reply = NoReply /\ performed = FALSE

-----------------------------------------------------------------------------
(* The client.                                                             *)

ClientSends(n) ==
  /\ ~shut /\ sent + n <= Everything
  /\ sent' = sent + n
  /\ UNCHANGED <<request, shut, buffered, step, reply, performed>>

\* The client closes its side, or the connection breaks and what was not yet
\* read is lost.
ClientShuts ==
  /\ ~shut /\ shut' = TRUE
  /\ sent' \in {buffered, sent}
  /\ UNCHANGED <<request, buffered, step, reply, performed>>

-----------------------------------------------------------------------------
(* read_http_request.                                                      *)

Answers(r) == step' = "reply" /\ reply' = r

Refuses == Answers("INVALID_HTTP_REQUEST")

\* Fault: the separator is looked for in the bytes of this read alone.
HeadersEndInSegment(n) == buffered <= request.head /\ buffered + n >= BodyStart

\* find_headers_end, over all that was read.
HeadersEnd(n) == buffered + n >= BodyStart

\* Fault: the length of the body is not looked at again.
BodyLengthUnchecked(b) == TRUE

BodyLengthMatches(b) == b = Expected

\* The loop that reads the body is left; a workspace header that is no number
\* makes the request invalid.
Framed(b) ==
  IF BodyLengthMatches(b) /\ request.workspace # "malformed"
  THEN step' = "request" /\ UNCHANGED reply
  ELSE Refuses

ReadHeaders(n) ==
  LET b == buffered + n IN
  /\ step = "headers" /\ b <= sent
  /\ buffered' = b
  /\ IF b > HeaderLimit THEN Refuses
     ELSE IF ~HeadersEnd(n) THEN UNCHANGED <<step, reply>>
     ELSE IF ContentLength > BodyLimit THEN Refuses
     ELSE IF b < Expected THEN step' = "body" /\ UNCHANGED reply
     ELSE Framed(b)
  /\ UNCHANGED <<clientVars, performed>>

ReadBody(n) ==
  LET b == buffered + n IN
  /\ step = "body" /\ b <= sent
  /\ buffered' = b
  /\ IF b < Expected THEN UNCHANGED <<step, reply>> ELSE Framed(b)
  /\ UNCHANGED <<clientVars, performed>>

\* A read of nothing: the end of the client's side.
ReadEnd ==
  /\ step \in {"headers", "body"} /\ shut /\ buffered = sent
  /\ IF step = "headers" THEN Refuses ELSE Framed(buffered)
  /\ UNCHANGED <<clientVars, buffered, performed>>

\* Fault: the stream has no read timeout.
ReadNeverExpires == FALSE /\ UNCHANGED httpVars

ReadExpires ==
  /\ step \in {"headers", "body"} /\ ~shut /\ buffered = sent
  /\ Refuses
  /\ UNCHANGED <<clientVars, buffered, performed>>

-----------------------------------------------------------------------------
(* handle_connection and invoke_http.                                      *)

Public == request.target = "health"

LacksWorkspace == request.target = "invoke" /\ request.workspace # "positive"

Dispatch ==
  /\ step = "request"
  /\ IF Public THEN Answers("200")
     ELSE IF ~request.token THEN Answers("401")
     ELSE IF LacksWorkspace THEN Answers("WORKSPACE_CONTEXT_REQUIRED")
     ELSE IF ~request.arguments THEN Answers("400")
     ELSE IF request.target = "unknown" THEN Answers("404")
     ELSE step' = "handler" /\ UNCHANGED reply
  /\ UNCHANGED <<clientVars, buffered, performed>>

Perform ==
  /\ step = "handler"
  /\ performed' = TRUE /\ Answers("handled")
  /\ UNCHANGED <<clientVars, buffered>>

\* write_json, which the client may not read: then it fails, or times out.
WriteReply ==
  /\ step = "reply" /\ step' = "ended"
  /\ UNCHANGED <<clientVars, buffered, reply, performed>>

-----------------------------------------------------------------------------
Reads == \E n \in 1..ReadSize : ReadHeaders(n) \/ ReadBody(n)

ThreadStep == Reads \/ ReadEnd \/ Dispatch \/ Perform \/ WriteReply

HttpNext ==
  \/ \E n \in 1..(Everything - sent) : ClientSends(n)
  \/ ClientShuts \/ ThreadStep \/ ReadExpires

HttpSpec == HttpInit /\ [][HttpNext]_httpVars

\* The thread runs, and the clock of a read does.  The client owes nothing.
HttpFairness == WF_httpVars(ThreadStep) /\ WF_httpVars(ReadExpires)

-----------------------------------------------------------------------------
\* Type invariant.
HttpTypeOK ==
  /\ request \in Requests
  /\ sent \in 0..Everything /\ shut \in BOOLEAN /\ buffered \in 0..sent
  /\ step \in {"headers", "body", "request", "handler", "reply", "ended"}
  /\ reply \in Replies /\ performed \in BOOLEAN

\* A request a client may count on being read: its body has the length it
\* declares, and its headers leave room for what one read may bring with them.
WellFormed ==
  /\ request.body = ContentLength /\ ContentLength <= BodyLimit
  /\ BodyStart + ReadSize <= HeaderLimit + 1
  /\ request.workspace # "malformed"

\* However the network cuts a well-formed request into segments, within the
\* separator or between headers and body, it is refused as no HTTP request only
\* if part of it has not been received: the client was late, or gave up.
RefusedOnlyIfIncomplete ==
  reply = "INVALID_HTTP_REQUEST" /\ WellFormed => buffered < Everything

\* A handler runs only on a whole request, with the body its headers declare,
\* that is authorised and, for a business call, names its workspace: a client
\* that goes away in the middle of a request has no effect.
OnlyWholeRequestsPerform ==
  performed =>
    /\ buffered = Expected /\ buffered <= sent
    /\ request.token /\ request.arguments
    /\ request.target = "invoke" => request.workspace = "positive"

\* A connection ends, whatever the client does or omits to do.
EveryConnectionEnds == HttpFairness => <>(step = "ended")
=============================================================================
