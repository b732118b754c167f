----------------------------- MODULE ServerProofs ------------------------------
(***************************************************************************)
(* Theorems about the server process: the framing of a request             *)
(* (HttpConnection), the directories its calls prepare                     *)
(* (ProjectDirectories), and its start over one data directory             *)
(* (ConnectorDaemon).  The three share no name.                            *)
(***************************************************************************)
EXTENDS HttpConnection, ProjectDirectories, ConnectorDaemon, TLAPS

-----------------------------------------------------------------------------
(* A connection.                                                           *)

\* What the steps of a thread have established about the request it reads.
HttpInv ==
  /\ HttpTypeOK
  /\ step = "headers" => buffered < BodyStart
  /\ step = "body" => BodyStart <= buffered /\ buffered < Expected
  /\ step \in {"request", "handler"} => buffered = Expected
  /\ step = "handler" =>
       request.token /\ request.arguments /\ (request.target = "invoke" => request.workspace = "positive")
  /\ performed \/ reply # NoReply => step \in {"reply", "ended"}
  /\ OnlyWholeRequestsPerform
  /\ RefusedOnlyIfIncomplete

\* The lengths of a request are natural numbers.
LEMMA LengthsAreNatural ==
  ASSUME request \in Requests
  PROVE  /\ request.head \in Nat /\ request.body \in Nat /\ ContentLength \in Nat
         /\ BodyStart \in Nat /\ Expected \in Nat /\ Everything \in Nat
         /\ BodyStart >= 4 /\ Expected >= BodyStart /\ Everything >= BodyStart
<1>1. /\ request.head \in Nat /\ request.body \in Nat
      /\ request.declared \in Nat \/ request.declared = NoLength
      BY ConnectionAssumption DEF Requests
<1>2. ContentLength \in Nat  BY <1>1 DEF ContentLength, NoLength
<1> QED BY <1>1, <1>2 DEF BodyStart, Expected, Everything, Separator

\* The lengths depend on the request alone, which no step changes.
LEMMA LengthsStay ==
  ASSUME UNCHANGED request
  PROVE  UNCHANGED <<BodyStart, ContentLength, Expected, Everything>>
  BY DEF BodyStart, ContentLength, Expected, Everything

\* The invariant of the next state, in terms of the lengths of this one.
LEMMA HttpInvNext ==
  ASSUME HttpTypeOK, request' = request, sent' \in 0..Everything, buffered' \in 0..sent',
         shut' \in BOOLEAN, performed' \in BOOLEAN, reply' \in Replies,
         step' \in {"headers", "body", "request", "handler", "reply", "ended"},
         step' = "headers" => buffered' < BodyStart,
         step' = "body" => BodyStart <= buffered' /\ buffered' < Expected,
         step' \in {"request", "handler"} => buffered' = Expected,
         step' = "handler" \/ performed' =>
           /\ request.token /\ request.arguments
           /\ request.target = "invoke" => request.workspace = "positive",
         performed' \/ reply' # NoReply => step' \in {"reply", "ended"},
         performed' => buffered' = Expected,
         reply' = "INVALID_HTTP_REQUEST" => (WellFormed => buffered' < Everything)
  PROVE  HttpInv'
<1>1. UNCHANGED <<BodyStart, ContentLength, Expected, Everything>>  BY LengthsStay
<1>2. WellFormed' <=> WellFormed  BY <1>1 DEF WellFormed
<1>3. HttpTypeOK'  BY <1>1 DEF HttpTypeOK
<1>4. OnlyWholeRequestsPerform'
  <2>1. Everything \in Nat  BY LengthsAreNatural DEF HttpTypeOK
  <2>2. sent' \in Nat  BY <2>1
  <2>3. buffered' <= sent'  BY <2>2
  <2> QED BY <1>1, <2>3 DEF OnlyWholeRequestsPerform
<1>5. RefusedOnlyIfIncomplete'  BY <1>1, <1>2 DEF RefusedOnlyIfIncomplete
<1> QED BY <1>1, <1>3, <1>4, <1>5 DEF HttpInv

\* The answers of the framing are answers.
LEMMA FramingReplies == NoReply \in Replies /\ "INVALID_HTTP_REQUEST" \in Replies
  BY DEF Replies

\* A body that is refused when enough bytes have arrived was not the whole of a
\* well-formed request; one that is not refused is what the headers declare.
LEMMA FramedOnce ==
  ASSUME HttpTypeOK, NEW b \in Nat, b <= sent, Framed(b), b >= BodyStart, reply = NoReply
  PROVE  /\ step' \in {"request", "reply"} /\ reply' \in {NoReply, "INVALID_HTTP_REQUEST"}
         /\ step' = "request" => b = Expected /\ reply' = NoReply
         /\ reply' # NoReply => step' = "reply" /\ (WellFormed => b < Everything)
<1>1. request \in Requests /\ sent \in 0..Everything  BY DEF HttpTypeOK
<1>2. CASE BodyLengthMatches(b) /\ request.workspace # "malformed"
      BY <1>2 DEF Framed, BodyLengthMatches, NoReply
<1>3. CASE ~(BodyLengthMatches(b) /\ request.workspace # "malformed")
  <2>1. step' = "reply" /\ reply' = "INVALID_HTTP_REQUEST"
        BY <1>3 DEF Framed, Refuses, Answers
  <2>2. ASSUME WellFormed  PROVE b < Everything
    <3>1. Everything = Expected  BY <2>2 DEF WellFormed, Everything, Expected
    <3>2. b # Expected  BY <1>3, <2>2 DEF WellFormed, BodyLengthMatches
    <3> QED BY <1>1, <3>1, <3>2, LengthsAreNatural
  <2> QED BY <2>1, <2>2 DEF NoReply
<1> QED BY <1>2, <1>3

\* Reading a segment while headers are awaited.
LEMMA HttpReadsHeaders ==
  ASSUME HttpInv, NEW n \in 1..ReadSize, ReadHeaders(n)
  PROVE  HttpInv'
<1> DEFINE b == buffered + n
<1>1. /\ request \in Requests /\ request' = request /\ sent' = sent /\ shut' = shut
      /\ performed' = performed /\ buffered' = b /\ step = "headers" /\ b <= sent
      BY DEF HttpInv, HttpTypeOK, ReadHeaders, clientVars
<1>2. /\ reply = NoReply /\ ~performed /\ buffered < BodyStart /\ buffered \in Nat /\ n \in Nat
      /\ b \in Nat /\ sent \in 0..Everything /\ n <= ReadSize
      BY <1>1, ConnectionAssumption, LengthsAreNatural DEF HttpInv, HttpTypeOK
<1>3. UNCHANGED <<BodyStart, ContentLength, Expected, Everything>>  BY <1>1, LengthsStay
<1>4. BodyStart \in Nat /\ Expected \in Nat /\ Everything \in Nat /\ ContentLength \in Nat
      BY <1>1, LengthsAreNatural
<1>5. (WellFormed' <=> WellFormed)  BY <1>1, <1>3 DEF WellFormed
<1>6. WellFormed => b <= HeaderLimit /\ ContentLength <= BodyLimit
      BY <1>2, <1>4, ConnectionAssumption DEF WellFormed
<1>11. /\ HttpTypeOK /\ sent' \in 0..Everything /\ buffered' \in 0..sent' /\ shut' \in BOOLEAN
       /\ performed' \in BOOLEAN /\ ~performed'
       BY <1>1, <1>2 DEF HttpInv, HttpTypeOK
<1>7. CASE b > HeaderLimit \/ (HeadersEnd(n) /\ ContentLength > BodyLimit)
  <2>1. step' = "reply" /\ reply' = "INVALID_HTTP_REQUEST"
        BY <1>7 DEF ReadHeaders, Refuses, Answers
  <2>2. ~WellFormed  BY <1>2, <1>4, <1>6, <1>7, ConnectionAssumption
  <2> QED BY <1>1, <1>11, <2>1, <2>2, FramingReplies, HttpInvNext
<1>8. CASE b <= HeaderLimit /\ ~HeadersEnd(n)
  <2>1. UNCHANGED <<step, reply>> /\ b < BodyStart
        BY <1>1, <1>2, <1>4, <1>8, ConnectionAssumption DEF ReadHeaders, HeadersEnd
  <2> QED BY <1>1, <1>2, <1>3, <1>4, <2>1
          DEF HttpInv, HttpTypeOK, OnlyWholeRequestsPerform, RefusedOnlyIfIncomplete, NoReply, Replies
<1>9. CASE b <= HeaderLimit /\ HeadersEnd(n) /\ ContentLength <= BodyLimit /\ b < Expected
  <2>1. step' = "body" /\ UNCHANGED reply /\ b >= BodyStart
        BY <1>1, <1>2, <1>4, <1>9, ConnectionAssumption DEF ReadHeaders, HeadersEnd
  <2> QED BY <1>1, <1>2, <1>3, <1>4, <1>9, <2>1
          DEF HttpInv, HttpTypeOK, OnlyWholeRequestsPerform, RefusedOnlyIfIncomplete, NoReply, Replies
<1>10. CASE b <= HeaderLimit /\ HeadersEnd(n) /\ ContentLength <= BodyLimit /\ b >= Expected
  <2>1. Framed(b) /\ b >= BodyStart
        BY <1>1, <1>2, <1>4, <1>10, ConnectionAssumption DEF ReadHeaders, HeadersEnd
  <2>2. /\ step' \in {"request", "reply"} /\ reply' \in {NoReply, "INVALID_HTTP_REQUEST"}
        /\ step' = "request" => b = Expected /\ reply' = NoReply
        /\ reply' # NoReply => step' = "reply" /\ (WellFormed => b < Everything)
        BY <1>1, <1>2, <2>1, FramedOnce DEF HttpInv
  <2> QED BY <1>1, <1>11, <2>2, FramingReplies, HttpInvNext DEF NoReply
<1> QED BY <1>2, <1>4, <1>7, <1>8, <1>9, <1>10, ConnectionAssumption

\* Reading a segment of the body.
LEMMA HttpReadsBody ==
  ASSUME HttpInv, NEW n \in 1..ReadSize, ReadBody(n)
  PROVE  HttpInv'
<1> DEFINE b == buffered + n
<1>1. /\ request \in Requests /\ request' = request /\ sent' = sent /\ shut' = shut
      /\ performed' = performed /\ buffered' = b /\ step = "body" /\ b <= sent
      BY DEF HttpInv, HttpTypeOK, ReadBody, clientVars
<1>2. /\ reply = NoReply /\ ~performed /\ BodyStart <= buffered /\ buffered \in Nat /\ n \in Nat
      /\ b \in Nat /\ sent \in 0..Everything
      BY <1>1, ConnectionAssumption, LengthsAreNatural DEF HttpInv, HttpTypeOK
<1>3. UNCHANGED <<BodyStart, ContentLength, Expected, Everything>>  BY <1>1, LengthsStay
<1>4. BodyStart \in Nat /\ Expected \in Nat /\ Everything \in Nat  BY <1>1, LengthsAreNatural
<1>5. (WellFormed' <=> WellFormed)  BY <1>1, <1>3 DEF WellFormed
<1>11. /\ HttpTypeOK /\ sent' \in 0..Everything /\ buffered' \in 0..sent' /\ shut' \in BOOLEAN
       /\ performed' \in BOOLEAN /\ ~performed'
       BY <1>1, <1>2 DEF HttpInv, HttpTypeOK
<1>6. CASE b < Expected
  <2>1. UNCHANGED <<step, reply>>  BY <1>6 DEF ReadBody
  <2> QED BY <1>1, <1>2, <1>3, <1>4, <1>6, <2>1
          DEF HttpInv, HttpTypeOK, OnlyWholeRequestsPerform, RefusedOnlyIfIncomplete, NoReply, Replies
<1>7. CASE b >= Expected
  <2>1. Framed(b) /\ b >= BodyStart  BY <1>1, <1>2, <1>4, <1>7 DEF ReadBody
  <2>2. /\ step' \in {"request", "reply"} /\ reply' \in {NoReply, "INVALID_HTTP_REQUEST"}
        /\ step' = "request" => b = Expected /\ reply' = NoReply
        /\ reply' # NoReply => step' = "reply" /\ (WellFormed => b < Everything)
        BY <1>1, <1>2, <2>1, FramedOnce DEF HttpInv
  <2> QED BY <1>1, <1>11, <2>2, FramingReplies, HttpInvNext DEF NoReply
<1> QED BY <1>2, <1>4, <1>6, <1>7

\* A read that ends or expires leaves an incomplete request.
LEMMA HttpReadsNothing ==
  ASSUME HttpInv, ReadEnd \/ ReadExpires
  PROVE  HttpInv'
<1>1. /\ request \in Requests /\ UNCHANGED <<request, sent, shut, performed, buffered>>
      /\ step \in {"headers", "body"} /\ buffered \in Nat /\ buffered <= sent
      /\ reply = NoReply /\ ~performed /\ sent \in 0..Everything /\ shut \in BOOLEAN
      BY LengthsAreNatural DEF HttpInv, HttpTypeOK, ReadEnd, ReadExpires, clientVars
<1>2. BodyStart \in Nat /\ Expected \in Nat /\ Everything \in Nat /\ Everything >= BodyStart
      BY <1>1, LengthsAreNatural
<1>3. UNCHANGED <<BodyStart, ContentLength, Expected, Everything>> /\ (WellFormed' <=> WellFormed)
      BY <1>1, LengthsStay DEF WellFormed
<1>4. WellFormed => buffered < Everything
      BY <1>1, <1>2 DEF HttpInv, WellFormed, Everything, Expected
<1>5. CASE Refuses
      BY <1>1, <1>2, <1>3, <1>4, <1>5 DEF HttpInv, HttpTypeOK, OnlyWholeRequestsPerform,
         RefusedOnlyIfIncomplete, NoReply, Replies, Refuses, Answers
<1>6. CASE step = "body" /\ Framed(buffered)
  <2>1. /\ step' \in {"request", "reply"} /\ reply' \in {NoReply, "INVALID_HTTP_REQUEST"}
        /\ step' = "request" => buffered = Expected /\ reply' = NoReply
        /\ reply' # NoReply => step' = "reply"
        BY <1>1, <1>6, FramedOnce DEF HttpInv
  <2> QED BY <1>1, <1>2, <1>3, <1>4, <2>1 DEF HttpInv, HttpTypeOK, OnlyWholeRequestsPerform,
             RefusedOnlyIfIncomplete, NoReply, Replies
<1> QED BY <1>1, <1>5, <1>6 DEF ReadEnd, ReadExpires

\* The client and the steps after the framing.
LEMMA HttpOtherSteps ==
  ASSUME HttpInv,
         ClientShuts \/ Dispatch \/ Perform \/ WriteReply
           \/ \E n \in 1..(Everything - sent) : ClientSends(n)
  PROVE  HttpInv'
<1> USE DEF HttpInv, HttpTypeOK, OnlyWholeRequestsPerform, RefusedOnlyIfIncomplete, NoReply, Replies
<1>1. request \in Requests /\ request' = request
      BY DEF ClientSends, ClientShuts, Dispatch, Perform, WriteReply, clientVars
<1>2. BodyStart \in Nat /\ Expected \in Nat /\ Everything \in Nat  BY <1>1, LengthsAreNatural
<1>3. UNCHANGED <<BodyStart, ContentLength, Expected, Everything>> /\ (WellFormed' <=> WellFormed)
      BY <1>1, LengthsStay DEF WellFormed
<1>4. CASE \E n \in 1..(Everything - sent) : ClientSends(n)
  <2>1. PICK n \in 1..(Everything - sent) : ClientSends(n)  BY <1>4
  <2>2. /\ sent' = sent + n /\ sent + n <= Everything
        /\ UNCHANGED <<shut, buffered, step, reply, performed>>
        BY <2>1 DEF ClientSends
  <2>3. sent \in Nat /\ n \in Nat /\ buffered \in Nat /\ buffered <= sent  BY <1>2
  <2>4. sent' \in 0..Everything /\ buffered' \in 0..sent'  BY <1>2, <2>2, <2>3
  <2> QED BY <1>1, <1>2, <1>3, <2>2, <2>3, <2>4
<1>5. CASE ClientShuts
  <2>1. sent' \in {buffered, sent} /\ shut' = TRUE /\ UNCHANGED <<buffered, step, reply, performed>>
        BY <1>5 DEF ClientShuts
  <2>2. sent \in Nat /\ buffered \in Nat /\ buffered <= sent  BY <1>2
  <2>3. sent' \in 0..Everything /\ buffered' \in 0..sent'  BY <1>2, <2>1, <2>2
  <2> QED BY <1>1, <1>2, <1>3, <2>1, <2>2, <2>3
<1>6. CASE Dispatch
  <2>1. step = "request" /\ UNCHANGED <<sent, shut, buffered, performed>>
        BY <1>6 DEF Dispatch, clientVars
  <2>2. \/ step' = "reply" /\ reply' \in Replies \ {NoReply, "INVALID_HTTP_REQUEST"}
        \/ /\ step' = "handler" /\ UNCHANGED reply /\ request.token /\ request.arguments
           /\ ~LacksWorkspace
        BY <1>6 DEF Dispatch, Answers
  <2>3. /\ sent' \in 0..Everything /\ buffered' \in 0..sent' /\ shut' \in BOOLEAN
        /\ performed' \in BOOLEAN /\ ~performed' /\ buffered' = Expected /\ reply = NoReply
        BY <2>1
  <2>4. ~LacksWorkspace => (request.target = "invoke" => request.workspace = "positive")
        BY DEF LacksWorkspace
  <2>5. HttpTypeOK /\ reply' \in Replies /\ reply' # "INVALID_HTTP_REQUEST"  BY <2>2, <2>3
  <2>6. step' = "handler" => reply' = NoReply  BY <2>2, <2>3
  <2> HIDE DEF HttpInv, HttpTypeOK, Replies, NoReply, RefusedOnlyIfIncomplete, OnlyWholeRequestsPerform
  <2> QED BY <1>1, <2>2, <2>3, <2>4, <2>5, <2>6, HttpInvNext
<1>7. CASE Perform
  <2>1. /\ step = "handler" /\ step' = "reply" /\ reply' = "handled" /\ performed' = TRUE
        /\ UNCHANGED <<sent, shut, buffered>>
        BY <1>7 DEF Perform, Answers, clientVars
  <2>2. /\ HttpTypeOK /\ sent' \in 0..Everything /\ buffered' \in 0..sent' /\ shut' \in BOOLEAN
        /\ performed' \in BOOLEAN /\ buffered' = Expected /\ request.token /\ request.arguments
        /\ request.target = "invoke" => request.workspace = "positive"
        /\ reply' \in Replies
        BY <2>1
  <2> HIDE DEF HttpInv, HttpTypeOK, Replies, NoReply, RefusedOnlyIfIncomplete, OnlyWholeRequestsPerform
  <2> QED BY <1>1, <2>1, <2>2, HttpInvNext
<1>8. CASE WriteReply  BY <1>1, <1>2, <1>3, <1>8 DEF WriteReply, clientVars
<1> QED BY <1>4, <1>5, <1>6, <1>7, <1>8

\* What a thread has established about its request holds of every connection.
THEOREM HttpInvariant == HttpSpec => []HttpInv
<1>1. HttpInit => HttpInv
  <2> SUFFICES ASSUME HttpInit PROVE HttpInv  OBVIOUS
  <2>1. request \in Requests  BY DEF HttpInit
  <2>2. /\ sent = 0 /\ shut = FALSE /\ buffered = 0
        /\ step = "headers" /\ reply = NoReply /\ performed = FALSE
        BY DEF HttpInit
  <2>3. BodyStart \in Nat /\ Everything \in Nat /\ BodyStart >= 4  BY <2>1, LengthsAreNatural
  <2>4. HttpTypeOK
    <3>1. sent \in 0..Everything /\ buffered \in 0..sent  BY <2>2, <2>3
    <3> QED BY <2>1, <2>2, <3>1, FramingReplies DEF HttpTypeOK
  <2>5. buffered < BodyStart  BY <2>2, <2>3
  <2> QED BY <2>2, <2>4, <2>5 DEF HttpInv, OnlyWholeRequestsPerform, RefusedOnlyIfIncomplete, NoReply
<1>2. HttpInv /\ [HttpNext]_httpVars => HttpInv'
  <2> SUFFICES ASSUME HttpInv, [HttpNext]_httpVars PROVE HttpInv'  OBVIOUS
  <2>1. CASE UNCHANGED httpVars
    <3>1. UNCHANGED <<request, sent, shut, buffered, step, reply, performed>>
          BY <2>1 DEF httpVars, clientVars
    <3>2. UNCHANGED <<BodyStart, ContentLength, Expected, Everything>>  BY <3>1, LengthsStay
    <3>3. HttpTypeOK'  BY <3>1, <3>2 DEF HttpInv, HttpTypeOK
    <3>4. OnlyWholeRequestsPerform'  BY <3>1, <3>2 DEF HttpInv, OnlyWholeRequestsPerform
    <3>5. RefusedOnlyIfIncomplete'
          BY <3>1, <3>2 DEF HttpInv, RefusedOnlyIfIncomplete, WellFormed
    <3> QED BY <3>1, <3>2, <3>3, <3>4, <3>5 DEF HttpInv
  <2>2. CASE HttpNext
        BY <2>2, HttpReadsHeaders, HttpReadsBody, HttpReadsNothing, HttpOtherSteps
        DEF HttpNext, ThreadStep, Reads
  <2> QED BY <2>1, <2>2
<1> QED BY <1>1, <1>2, PTL DEF HttpSpec

\* Every variable of a connection keeps its type.
THEOREM ConnectionTypeCorrect == HttpSpec => []HttpTypeOK
  BY HttpInvariant, PTL DEF HttpInv

\* A well-formed request is refused as no HTTP request only if part of it was not
\* received, for any sizes of segments, headers, bodies and limits.
THEOREM CompleteRequestsAreRead == HttpSpec => []RefusedOnlyIfIncomplete
  BY HttpInvariant, PTL DEF HttpInv

\* A handler runs only on a whole, authorised request.
THEOREM HandlersSeeWholeRequests == HttpSpec => []OnlyWholeRequestsPerform
  BY HttpInvariant, PTL DEF HttpInv

-----------------------------------------------------------------------------
(* The directories.                                                        *)

\* Where a call stands and what it has learnt, the lock it holds, the server it
\* came to, and the process it has left behind.
CallInv(c) ==
  /\ at[c] = "locking" => c \in HttpCalls /\ cameTo[c] = incarnation
  /\ c \in HttpCalls /\ at[c] \notin {"idle", "locking", "done"} => guard = c /\ cameTo[c] = incarnation
  /\ c \in ShellCalls => cameTo[c] = 0
  /\ checkout[c] # "none" => at[c] \in {"waiting", "done"}
  /\ c \in HttpCalls /\ checkout[c] = "running" /\ at[c] = "done" => cameTo[c] < incarnation
  /\ answer[c] # "none" => at[c] = "done"
  /\ at[c] \in {"origin", "branch"} => Place(c).ids = "same"
  /\ at[c] = "branch" => Place(c).origin = "same"
  /\ checkout[c] = "succeeded" \/ answer[c] \in {"fresh", "reused"} =>
       Place(c).ids = "same" /\ Place(c).origin = "same"
  /\ at[c] = "resolve" \/ answer[c] = "created" => Place(c).maker = c

\* A directory with the project's identity and without its files was left so by
\* a checkout that runs, or has failed.
Unfinished(p) ==
  dir[p].ids = "same" /\ ~dir[p].files =>
    \E d \in DirectoryCalls : Project(d) = p /\ checkout[d] \in {"running", "failed"}

DirectoryInv ==
  /\ DirectoryTypeOK
  /\ \A c \in DirectoryCalls : CallInv(c)
  /\ \A p \in Projects : Unfinished(p)
  /\ TakesOverNoWorkInProgress

\* A directory is made once; it gains what a checkout gives it, and loses nothing.
LEMMA DirectoriesGrow ==
  ASSUME DirectoryTypeOK, DirectoryNext, NEW p \in Projects
  PROVE  /\ dir[p].ids = "same" => (dir'[p]).ids = "same"
         /\ dir[p].origin = "same" => (dir'[p]).origin = "same"
         /\ dir[p].files => (dir'[p]).files
         /\ dir[p].maker # Nobody => (dir'[p]).maker = dir[p].maker
         /\ (dir'[p]).ids = "same" /\ dir[p].ids # "same" =>
              \E c \in DirectoryCalls : Project(c) = p /\ Working(c)
<1>1. dir \in [Projects -> Directories \cup {Absent}]  BY DEF DirectoryTypeOK
<1>2. CASE dir' = dir  BY <1>2
<1>3. CASE \E c \in DirectoryCalls : Create(c) /\ dir' # dir
  <2>1. PICK c \in DirectoryCalls : Create(c) /\ dir' # dir  BY <1>3
  <2>2. dir' = [dir EXCEPT ![Project(c)] = Empty(c)] /\ dir[Project(c)] = Absent
        BY <2>1 DEF Create, Place
  <2>3. dir'[p] = dir[p] \/ (dir[p] = Absent /\ dir'[p] = Empty(c))  BY <1>1, <2>2
  <2> QED BY <2>3 DEF Absent, Empty
<1>4. CASE \E c \in DirectoryCalls : Working(c)
  <2>1. PICK c \in DirectoryCalls : Working(c)  BY <1>4
  <2>2. CASE p # Project(c)
    <3>1. dir'[p] = dir[p]  BY <1>1, <2>1, <2>2 DEF Working
    <3> QED BY <3>1
  <2>3. CASE p = Project(c) /\ dir[p] = Absent
    <3>1. dir'[p] = Empty(c)  BY <1>1, <2>1, <2>3 DEF Working, Place
    <3> QED BY <2>1, <2>3, <3>1 DEF Absent, Empty
  <2>4. CASE p = Project(c) /\ dir[p] # Absent
    <3>1. PICK d \in {[dir[p] EXCEPT !.ids = "same"], [dir[p] EXCEPT !.origin = "same"],
                      [dir[p] EXCEPT !.branch = TRUE], [dir[p] EXCEPT !.files = TRUE]} :
            dir' = [dir EXCEPT ![p] = d]
          BY <2>1, <2>4 DEF Working, Place
    <3>2. dir'[p] = d  BY <1>1, <3>1
    <3>3. dir[p] \in Directories  BY <1>1, <2>4
    <3> QED BY <2>1, <2>4, <3>1, <3>2, <3>3 DEF Directories
  <2> QED BY <2>2, <2>3, <2>4
<1>5. \/ dir' = dir
      \/ \E c \in DirectoryCalls : Create(c) /\ dir' # dir
      \/ \E c \in DirectoryCalls : Working(c)
      BY DEF DirectoryNext, DirectoryStep, Restart, Arrive, Acquire, Look, Launch, Collect, ReadIds,
         ReadOrigin, ReadBranch, Asks, Resolve, Exits
<1> QED BY <1>2, <1>3, <1>4, <1>5

\* What a call was asked to do stays.
LEMMA TasksStay ==
  ASSUME DirectoryNext
  PROVE  task' = task /\ \A c : Project(c)' = Project(c)
<1>1. task' = task
      BY DEF DirectoryNext, DirectoryStep, Restart, Arrive, Acquire, Look, Launch, Collect, ReadIds,
         ReadOrigin, ReadBranch, Asks, Create, Resolve, Working, Exits
<1> QED BY <1>1 DEF Project

\* A step of one call leaves the others where they are, and takes the lock only
\* if nobody holds it.
LEMMA OneCallMoves ==
  ASSUME DirectoryTypeOK, NEW c \in DirectoryCalls, NEW d \in DirectoryCalls, d # c,
         Arrive(c) \/ DirectoryStep(c) \/ Working(c) \/ Exits(c)
  PROVE  /\ at'[d] = at[d] /\ answer'[d] = answer[d] /\ checkout'[d] = checkout[d]
         /\ cameTo'[d] = cameTo[d] /\ incarnation' = incarnation
         /\ guard' = guard \/ guard = Nobody \/ guard = c
  BY DEF DirectoryTypeOK, DirectoryStep, Arrive, Acquire, Look, Launch, Collect, ReadIds,
     ReadOrigin, ReadBranch, Asks, Create, Resolve, Working, Exits, Fails, Answered, ToStep, GuardDropped

\* What a call has learnt of its directory stays true of it.
LEMMA LearntStays ==
  ASSUME DirectoryInv, DirectoryNext, NEW c \in DirectoryCalls
  PROVE  /\ Place(c).ids = "same" => Place(c)'.ids = "same"
         /\ Place(c).origin = "same" => Place(c)'.origin = "same"
         /\ Place(c).maker = c => Place(c)'.maker = c
         /\ Place(c).files => Place(c)'.files
<1>1. Project(c) \in Projects  BY DEF DirectoryInv, DirectoryTypeOK, Tasks, Project
<1>2. c # Nobody  BY DirectoryAssumption
<1>3. Place(c)' = dir'[Project(c)]  BY TasksStay DEF Place
<1> QED BY <1>1, <1>2, <1>3, DirectoriesGrow DEF DirectoryInv, Place

\* A step of one call keeps what is known of another.
LEMMA OtherCallInv ==
  ASSUME DirectoryInv, NEW c \in DirectoryCalls, NEW d \in DirectoryCalls, d # c,
         Arrive(c) \/ DirectoryStep(c) \/ Working(c) \/ Exits(c)
  PROVE  CallInv(d)'
<1>1. DirectoryNext  BY DEF DirectoryNext
<1>2. /\ at'[d] = at[d] /\ answer'[d] = answer[d] /\ checkout'[d] = checkout[d]
      /\ cameTo'[d] = cameTo[d] /\ incarnation' = incarnation
      /\ guard' = guard \/ guard = Nobody \/ guard = c
      BY OneCallMoves DEF DirectoryInv
<1>3. CallInv(d) /\ d # Nobody  BY DirectoryAssumption DEF DirectoryInv
<1>4. /\ Place(d).ids = "same" => Place(d)'.ids = "same"
      /\ Place(d).origin = "same" => Place(d)'.origin = "same"
      /\ Place(d).maker = d => Place(d)'.maker = d
      BY <1>1, LearntStays
<1> QED BY <1>2, <1>3, <1>4 DEF CallInv

\* A call keeps what is known of it, step by step.
LEMMA OwnCallInv ==
  ASSUME DirectoryInv, NEW c \in DirectoryCalls,
         Arrive(c) \/ DirectoryStep(c) \/ Working(c) \/ Exits(c)
  PROVE  CallInv(c)'
<1>1. DirectoryNext  BY DEF DirectoryNext
<1>2. CallInv(c) /\ c # Nobody /\ DirectoryTypeOK  BY DirectoryAssumption DEF DirectoryInv
<1>3. /\ Place(c).ids = "same" => Place(c)'.ids = "same"
      /\ Place(c).origin = "same" => Place(c)'.origin = "same"
      /\ Place(c).maker = c => Place(c)'.maker = c
      BY <1>1, LearntStays
<1>4. at[c] = "idle" => answer[c] = "none" /\ checkout[c] = "none"
      BY <1>2 DEF CallInv, DirectoryTypeOK
<1>5. CASE Arrive(c)
  <2>1. /\ at[c] = "idle" /\ answer'[c] = answer[c] /\ checkout'[c] = checkout[c]
        /\ c \in HttpCalls => at'[c] = "locking" /\ cameTo'[c] = incarnation
        /\ c \in ShellCalls => at'[c] = "look" /\ cameTo'[c] = 0
        /\ incarnation' = incarnation
        BY <1>2, <1>5, DirectoryAssumption DEF Arrive, ToStep, DirectoryTypeOK
  <2> QED BY <1>2, <1>3, <1>4, <2>1, DirectoryAssumption DEF CallInv, DirectoryTypeOK, DirectoryCalls
<1> USE <1>2, <1>3 DEF CallInv, DirectoryTypeOK, ToStep
<1>6. CASE Acquire(c)  BY <1>6 DEF Acquire
<1>7. CASE Look(c)  BY <1>7 DEF Look, Fails, Answered
<1>8. CASE Launch(c)  BY <1>8 DEF Launch, Fails, Answered
<1>9. CASE Collect(c)  BY <1>9 DEF Collect, Fails, Answered
<1>10. CASE ReadIds(c) \/ ReadOrigin(c)  BY <1>10 DEF ReadIds, ReadOrigin, Asks, Fails, Answered
<1>11. CASE ReadBranch(c)  BY <1>11 DEF ReadBranch, Fails, Answered
<1>12. CASE Create(c)
  <2>1. Project(c)' = Project(c) /\ Project(c) \in Projects
        BY <1>1, TasksStay DEF Project, Tasks
  <2>2. at'[c] = "resolve" => Place(c)'.maker = c
    <3>1. at'[c] = "resolve" => dir' = [dir EXCEPT ![Project(c)] = Empty(c)]
          BY <1>12 DEF Create, Fails, Answered
    <3>2. at'[c] = "resolve" => Place(c)' = Empty(c)  BY <2>1, <3>1 DEF Place
    <3> QED BY <3>2 DEF Empty
  <2> QED BY <1>12, <2>2 DEF Create, Fails, Answered
<1>13. CASE Resolve(c)  BY <1>13 DEF Resolve, Fails, Answered
<1>14. CASE Working(c)  BY <1>14 DEF Working
<1>15. CASE Exits(c)
  <2>1. checkout'[c] = "succeeded" => Place(c).ids = "same" /\ Place(c).origin = "same"
        BY <1>15 DEF Exits, CheckedOut
  <2>2. checkout[c] = "running" /\ UNCHANGED <<at, cameTo, answer, guard, incarnation>>
        BY <1>15 DEF Exits
  <2>3. checkout'[c] # "running"  BY <1>15 DEF Exits
  <2> QED BY <2>1, <2>2, <2>3
<1> QED BY <1>5, <1>6, <1>7, <1>8, <1>9, <1>10, <1>11, <1>12, <1>13, <1>14, <1>15 DEF DirectoryStep

\* The end of a server leaves behind threads without a lock, of an earlier number.
LEMMA RestartCallInv ==
  ASSUME DirectoryInv, Restart, NEW c \in DirectoryCalls
  PROVE  CallInv(c)'
<1>1. CallInv(c) /\ DirectoryTypeOK  BY DEF DirectoryInv
<1>2. /\ incarnation' = incarnation + 1 /\ guard' = Nobody /\ UNCHANGED <<dir, task, cameTo, checkout>>
      /\ at'[c] = IF c \in HttpCalls /\ at[c] \notin {"idle", "done"} THEN "done" ELSE at[c]
      /\ answer'[c] = IF c \in HttpCalls /\ at[c] \notin {"idle", "done"} THEN "lost" ELSE answer[c]
      BY DEF Restart
<1>3. UNCHANGED Place(c)  BY <1>2 DEF Place, Project
<1>4. incarnation \in Nat /\ cameTo[c] \in Nat  BY <1>1, DirectoryAssumption DEF DirectoryTypeOK
<1> QED BY <1>1, <1>2, <1>3, <1>4 DEF CallInv

\* Directories, calls and processes keep their types.
LEMMA DirectoryTypeStep ==
  ASSUME DirectoryInv, DirectoryNext
  PROVE  DirectoryTypeOK'
<1>0. DirectoryTypeOK  BY DEF DirectoryInv
<1> USE <1>0 DEF DirectoryTypeOK
<1>1. ASSUME NEW c \in DirectoryCalls  PROVE Empty(c) \in Directories
      BY DEF Empty, Directories, Marks
<1>2. CASE Restart
  <2>1. incarnation' \in 1..MaxServers  BY <1>2, DirectoryAssumption DEF Restart
  <2>2. at' \in [DirectoryCalls -> {"idle", "locking", "look", "launch", "waiting", "ids", "origin",
                                    "branch", "create", "resolve", "done"}]
        BY <1>2 DEF Restart
  <2>3. answer' \in [DirectoryCalls -> {"none", "fresh", "reused", "created", "error", "lost"}]
        BY <1>2 DEF Restart
  <2> QED BY <1>2, <2>1, <2>2, <2>3 DEF Restart
<1>3. ASSUME NEW c \in DirectoryCalls,
             Arrive(c) \/ Acquire(c) \/ Look(c) \/ Launch(c) \/ Collect(c) \/ ReadIds(c)
               \/ ReadOrigin(c) \/ ReadBranch(c) \/ Resolve(c) \/ Exits(c)
      PROVE  DirectoryTypeOK'
  <2> USE <1>3 DEF ToStep, Fails, Answered, GuardDropped, Asks
  <2>1. CASE Arrive(c)
    <3>1. incarnation \in 0..MaxServers /\ 0 \in 0..MaxServers  BY DirectoryAssumption
    <3>2. cameTo' \in [DirectoryCalls -> 0..MaxServers]  BY <2>1, <3>1 DEF Arrive
    <3>3. at' \in [DirectoryCalls -> {"idle", "locking", "look", "launch", "waiting", "ids", "origin",
                                      "branch", "create", "resolve", "done"}]
          BY <2>1 DEF Arrive
    <3> QED BY <2>1, <3>2, <3>3 DEF Arrive
  <2>2. CASE Acquire(c)
    <3>1. c \in HttpCalls  BY <2>2 DEF Acquire, DirectoryInv, CallInv
    <3> QED BY <2>2, <3>1 DEF Acquire
  <2>3. CASE Look(c) \/ Launch(c)  BY <2>3 DEF Look, Launch
  <2>4. CASE Collect(c) \/ Resolve(c)  BY <2>4 DEF Collect, Resolve
  <2>5. CASE ReadIds(c) \/ ReadOrigin(c) \/ ReadBranch(c)  BY <2>5 DEF ReadIds, ReadOrigin, ReadBranch
  <2>6. CASE Exits(c)  BY <2>6 DEF Exits
  <2> QED BY <2>1, <2>2, <2>3, <2>4, <2>5, <2>6
<1>4. ASSUME NEW c \in DirectoryCalls, Create(c)  PROVE DirectoryTypeOK'
      BY <1>1, <1>4 DEF Create, ToStep, Fails, Answered, GuardDropped
<1>5. ASSUME NEW c \in DirectoryCalls, Working(c)  PROVE DirectoryTypeOK'
  <2>1. dir' \in [Projects -> Directories \cup {Absent}]
    <3>1. CASE Place(c) = Absent  BY <1>1, <1>5, <3>1 DEF Working
    <3>2. CASE Place(c) # Absent
      <4>1. PICK d \in {[Place(c) EXCEPT !.ids = "same"], [Place(c) EXCEPT !.origin = "same"],
                        [Place(c) EXCEPT !.branch = TRUE], [Place(c) EXCEPT !.files = TRUE]} :
              dir' = [dir EXCEPT ![Project(c)] = d]
            BY <1>5, <3>2 DEF Working
      <4>2. Place(c) \in Directories  BY <3>2 DEF Place, Project, Tasks
      <4>3. d \in Directories  BY <4>2 DEF Directories, Marks
      <4> QED BY <4>1, <4>3
    <3> QED BY <3>1, <3>2
  <2> QED BY <1>5, <2>1 DEF Working
<1> QED BY <1>2, <1>3, <1>4, <1>5 DEF DirectoryNext, DirectoryStep

\* What a checkout has left unfinished has such a checkout behind it.
LEMMA UnfinishedStep ==
  ASSUME DirectoryInv, DirectoryNext, NEW p \in Projects
  PROVE  Unfinished(p)'
<1> SUFFICES ASSUME (dir'[p]).ids = "same", ~(dir'[p]).files
             PROVE  \E d \in DirectoryCalls : Project(d) = p /\ checkout'[d] \in {"running", "failed"}
    BY TasksStay DEF Unfinished
<1>1. DirectoryTypeOK /\ Unfinished(p)  BY DEF DirectoryInv
<1>2. /\ dir[p].files => (dir'[p]).files
      /\ dir[p].ids # "same" => \E c \in DirectoryCalls : Project(c) = p /\ Working(c)
      BY <1>1, DirectoriesGrow
<1>3. PICK d \in DirectoryCalls : Project(d) = p /\ checkout[d] \in {"running", "failed"}
      BY <1>1, <1>2 DEF Unfinished, Working
<1>4. CASE checkout'[d] = checkout[d]  BY <1>3, <1>4
<1>5. CASE checkout'[d] # checkout[d]
  <2>1. Exits(d) \/ (\E c \in DirectoryCalls : c # d /\ (Arrive(c) \/ DirectoryStep(c) \/ Working(c) \/ Exits(c)))
          \/ Launch(d)
        BY <1>5 DEF DirectoryNext, DirectoryStep, Restart, Arrive, Acquire, Look, Collect, ReadIds, ReadOrigin,
           ReadBranch, Asks, Create, Resolve, Working
  <2>2. Exits(d)
        BY <1>1, <1>3, <1>5, <2>1, OneCallMoves DEF Launch, DirectoryInv, CallInv
  <2>3. dir' = dir /\ Place(d) = dir[p]  BY <1>3, <2>2 DEF Exits, Place
  <2>4. checkout'[d] = "failed"  BY <1>1, <2>2, <2>3 DEF Exits, CheckedOut, DirectoryTypeOK
  <2> QED BY <1>3, <2>4
<1> QED BY <1>4, <1>5

\* A checkout that has been started is remembered with the server it came to.
LEMMA CheckoutsStay ==
  ASSUME DirectoryInv, DirectoryNext, NEW d \in DirectoryCalls, checkout[d] # "none"
  PROVE  /\ cameTo'[d] = cameTo[d] /\ checkout'[d] # "none"
         /\ checkout[d] = "failed" => checkout'[d] = "failed"
<1>1. DirectoryTypeOK /\ CallInv(d)  BY DEF DirectoryInv
<1>2. at[d] \in {"waiting", "done"}  BY <1>1 DEF CallInv
<1>3. CASE Restart  BY <1>3 DEF Restart
<1>4. ASSUME NEW c \in DirectoryCalls, c # d, Arrive(c) \/ DirectoryStep(c) \/ Working(c) \/ Exits(c)
      PROVE  cameTo'[d] = cameTo[d] /\ checkout'[d] = checkout[d]
      BY <1>1, <1>4, OneCallMoves
<1>5. CASE Exits(d)  BY <1>1, <1>5 DEF Exits, DirectoryTypeOK
<1>6. CASE Arrive(d) \/ DirectoryStep(d) \/ Working(d)
      BY <1>2, <1>6 DEF DirectoryStep, Arrive, Acquire, Look, Launch, Collect, ReadIds, ReadOrigin,
         ReadBranch, Asks, Create, Resolve, Working
<1> QED BY <1>3, <1>4, <1>5, <1>6 DEF DirectoryNext

\* A checkout that is taken over before it is complete is no work in progress of
\* the same server: that work would hold the lock.
LEMMA TakesOverStep ==
  ASSUME DirectoryInv, DirectoryNext
  PROVE  TakesOverNoWorkInProgress'
<1> SUFFICES ASSUME NEW c \in HttpCalls, answer'[c] = "reused", ~Place(c)'.files
             PROVE  \E d \in DirectoryCalls :
                      /\ d # c /\ Project(d)' = Project(c)'
                      /\ checkout'[d] = "failed" \/ (checkout'[d] # "none" /\ cameTo'[d] # cameTo'[c])
    BY DEF TakesOverNoWorkInProgress
<1>1. DirectoryTypeOK /\ c \in DirectoryCalls /\ CallInv(c)  BY DEF DirectoryInv, DirectoryCalls
<1>2. ~Place(c).files  BY <1>1, LearntStays
<1>3. CASE answer[c] = "reused"
  <2>1. PICK d \in DirectoryCalls :
               /\ d # c /\ Project(d) = Project(c)
               /\ checkout[d] = "failed" \/ (checkout[d] # "none" /\ cameTo[d] # cameTo[c])
        BY <1>2, <1>3 DEF DirectoryInv, TakesOverNoWorkInProgress
  <2>2. /\ cameTo'[d] = cameTo[d] /\ checkout'[d] # "none"
        /\ checkout[d] = "failed" => checkout'[d] = "failed"
        BY <2>1, CheckoutsStay
  <2>3. cameTo'[c] = cameTo[c]
    <3>1. at[c] = "done"  BY <1>1, <1>3 DEF CallInv
    <3>2. ~Arrive(c)  BY <3>1 DEF Arrive
    <3> QED BY <1>1, <3>2, OneCallMoves DEF DirectoryNext, DirectoryStep, Restart, Arrive, Acquire, Look, Launch,
            Collect, ReadIds, ReadOrigin, ReadBranch, Asks, Create, Resolve, Working, Exits
  <2> QED BY <2>1, <2>2, <2>3, TasksStay
<1>4. CASE answer[c] # "reused"
  <2>1. ReadBranch(c)
    <3>1. ~Restart  BY <1>1, <1>4 DEF Restart
    <3>2. \A d \in DirectoryCalls :
            d # c => ~(Arrive(d) \/ DirectoryStep(d) \/ Working(d) \/ Exits(d))
          BY <1>1, <1>4, OneCallMoves
    <3>3. ~(Arrive(c) \/ Acquire(c) \/ Look(c) \/ Launch(c) \/ Collect(c) \/ ReadIds(c) \/ ReadOrigin(c)
              \/ Create(c) \/ Resolve(c) \/ Working(c) \/ Exits(c))
          BY <1>1, <1>4 DEF Arrive, Acquire, Look, Launch, Collect, ReadIds, ReadOrigin, Asks, Create,
             Resolve, Working, Exits, Fails, Answered, DirectoryTypeOK
    <3> QED BY <3>1, <3>2, <3>3 DEF DirectoryNext, DirectoryStep
  <2>2. at[c] = "branch" /\ dir' = dir /\ UNCHANGED <<checkout, cameTo>>  BY <2>1 DEF ReadBranch
  <2>3. Place(c).ids = "same" /\ guard = c /\ cameTo[c] = incarnation /\ checkout[c] = "none"
        BY <1>1, <2>2 DEF CallInv, DirectoryTypeOK
  <2>4. Project(c) \in Projects  BY <1>1 DEF DirectoryTypeOK, Tasks, Project
  <2>5. PICK d \in DirectoryCalls : Project(d) = Project(c) /\ checkout[d] \in {"running", "failed"}
        BY <1>2, <2>3, <2>4 DEF DirectoryInv, Unfinished, Place
  <2>6. d # c /\ CallInv(d)  BY <2>3, <2>5 DEF DirectoryInv
  <2>7. checkout[d] = "running" => cameTo[d] # cameTo[c]
    <3>1. incarnation \in Nat \ {0} /\ cameTo[d] \in Nat  BY <1>1, DirectoryAssumption DEF DirectoryTypeOK
    <3>2. CASE d \in ShellCalls  BY <2>3, <2>6, <3>1, <3>2 DEF CallInv
    <3>3. CASE d \in HttpCalls  BY <2>3, <2>6, <3>1, <3>3 DEF CallInv
    <3> QED BY <3>2, <3>3 DEF DirectoryCalls
  <2> QED BY <2>2, <2>5, <2>6, <2>7, TasksStay
<1> QED BY <1>3, <1>4

\* Where the calls of all servers stand, and what lies in their directories.
THEOREM DirectoryInvariant == DirectorySpec => []DirectoryInv
<1>1. DirectoryInit => DirectoryInv
  <2> SUFFICES ASSUME DirectoryInit PROVE DirectoryInv  OBVIOUS
  <2>1. DirectoryTypeOK
    <3>1. task \in [DirectoryCalls -> Tasks]  BY DEF DirectoryInit
    <3>2. 1 \in 1..MaxServers /\ 0 \in 0..MaxServers  BY DirectoryAssumption
    <3>3. dir \in [Projects -> Directories \cup {Absent}]  BY DEF DirectoryInit
    <3> QED BY <3>1, <3>2, <3>3 DEF DirectoryInit, DirectoryTypeOK
  <2>2. ASSUME NEW c \in DirectoryCalls  PROVE CallInv(c)
        BY DEF CallInv, DirectoryInit
  <2>3. ASSUME NEW p \in Projects  PROVE Unfinished(p)
        BY DEF Unfinished, DirectoryInit, Absent, Directories
  <2>4. TakesOverNoWorkInProgress
        BY DEF TakesOverNoWorkInProgress, DirectoryInit, DirectoryCalls
  <2> QED BY <2>1, <2>2, <2>3, <2>4 DEF DirectoryInv
<1>2. DirectoryInv /\ [DirectoryNext]_directoryVars => DirectoryInv'
  <2> SUFFICES ASSUME DirectoryInv, [DirectoryNext]_directoryVars PROVE DirectoryInv'  OBVIOUS
  <2>1. CASE UNCHANGED directoryVars
        BY <2>1 DEF directoryVars, DirectoryInv, DirectoryTypeOK, CallInv, Unfinished, TakesOverNoWorkInProgress,
           Place, Project
  <2>2. CASE DirectoryNext
    <3>1. DirectoryTypeOK' /\ TakesOverNoWorkInProgress' /\ \A p \in Projects : Unfinished(p)'
          BY <2>2, DirectoryTypeStep, TakesOverStep, UnfinishedStep DEF DirectoryInv
    <3>2. ASSUME NEW c \in DirectoryCalls  PROVE CallInv(c)'
          BY <2>2, RestartCallInv, OwnCallInv, OtherCallInv DEF DirectoryNext
    <3> QED BY <3>1, <3>2 DEF DirectoryInv
  <2> QED BY <2>1, <2>2
<1> QED BY <1>1, <1>2, PTL DEF DirectorySpec

\* Every variable of the directories keeps its type.
THEOREM DirectoriesTypeCorrect == DirectorySpec => []DirectoryTypeOK
  BY DirectoryInvariant, PTL DEF DirectoryInv

\* A directory that is answered for a project belongs to it, for any number of
\* calls, projects and servers.
THEOREM AnswersAreOfTheProject == DirectorySpec => []AnswersNameTheProject
<1>1. DirectoryInv => AnswersNameTheProject  BY DEF DirectoryInv, CallInv, AnswersNameTheProject
<1> QED BY <1>1, DirectoryInvariant, PTL

\* A new directory that is answered was created by that call.
THEOREM NewDirectoriesAreNew == DirectorySpec => []CreatedByItsCall
<1>1. DirectoryInv => CreatedByItsCall  BY DEF DirectoryInv, CallInv, CreatedByItsCall
<1> QED BY <1>1, DirectoryInvariant, PTL

\* The server takes over none of its own checkouts in progress.
THEOREM NoWorkInProgressIsTaken == DirectorySpec => []TakesOverNoWorkInProgress
  BY DirectoryInvariant, PTL DEF DirectoryInv

-----------------------------------------------------------------------------
(* The daemon.                                                             *)

\* The process beyond `bind` is the one that holds the port; it alone writes the
\* token file, and a process has loaded its token before it is named anywhere.
ServerInv(p) ==
  /\ server[p] \notin {"dead", "bind"} => bound = p
  /\ p > spawned => server[p] = "dead"
  /\ server[p] \in {"pid", "serving"} => key[p] = token /\ key[p] # None

CommandInv(c) == pc[c] = "record" => key[target[c]] # None

DaemonInv ==
  /\ TypeOK
  /\ \A p \in Pids : ServerInv(p)
  /\ \A c \in Commands \cup Stops : CommandInv(c)
  /\ PidFileNamesHolder

\* Keys are process ids, and None is none.
LEMMA NoneIsNoPid == None \notin Pids /\ Invalid \notin Pids
  BY DaemonAssumption DEF Pids

\* A process spawned has the next number.
LEMMA SpawnTypes ==
  ASSUME TypeOK, Spawn
  PROVE  spawned' \in 0..MaxPid /\ spawned' \in Pids /\ spawned' = spawned + 1
  BY DaemonAssumption DEF TypeOK, Spawn, Pids

\* The steps of a server process keep the types.
LEMMA ServerTypeStep ==
  ASSUME TypeOK, NEW p \in Pids, ServerStep(p) \/ Die(p) \/ StartServer
  PROVE  TypeOK'
<1> USE DEF TypeOK, Goes, serverVars, commandVars
<1>1. CASE Bind(p) \/ LoadToken(p)  BY <1>1 DEF Bind, LoadToken
<1>2. CASE RemoveOldToken(p) \/ RenameToken(p)  BY <1>2 DEF RemoveOldToken, RenameToken
<1>3. CASE ReadBack(p) \/ WriteOwnPid(p)  BY <1>3 DEF ReadBack, WriteOwnPid
<1>4. CASE Die(p)  BY <1>4 DEF Die
<1>5. CASE StartServer  BY <1>5, SpawnTypes DEF StartServer, Spawn
<1> QED BY <1>1, <1>2, <1>3, <1>4, <1>5 DEF ServerStep

\* The steps of a command keep the types.
LEMMA CommandTypeStep ==
  ASSUME TypeOK, NEW c \in Commands \cup Stops, CommandStep(c)
  PROVE  TypeOK'
<1> USE DEF TypeOK, Moves, Ended, serverVars, commandVars
<1>1. ASSUME NEW found \in {"record", "terminate"}, NEW missing \in {"spawn", "ok"},
             AskHealth(c, found, missing)
      PROVE  TypeOK'
      BY <1>1 DEF AskHealth, Healthy
<1>2. CASE RecordPid(c)  BY <1>2 DEF RecordPid
<1>3. CASE SpawnServer(c)  BY <1>3, SpawnTypes, NoneIsNoPid DEF SpawnServer, Spawn
<1>4. CASE WaitHealth(c) \/ WaitExpires(c)  BY <1>4 DEF WaitHealth, WaitExpires
<1>5. CASE Terminate(c) \/ RemovePidFile(c)  BY <1>5 DEF Terminate, RemovePidFile
<1> QED BY <1>1, <1>2, <1>3, <1>4, <1>5 DEF CommandStep

\* A server process keeps what is known of itself and of the others: of those it
\* is the only one that holds the port.
LEMMA ServerInvStep ==
  ASSUME DaemonInv, NEW q \in Pids, ServerStep(q) \/ Die(q) \/ StartServer, NEW p \in Pids
  PROVE  ServerInv(p)'
<1>1. TypeOK /\ ServerInv(p) /\ ServerInv(q)  BY DEF DaemonInv
<1>2. p \in Nat /\ spawned \in Nat  BY <1>1, DaemonAssumption DEF TypeOK, Pids
<1> USE <1>1, NoneIsNoPid DEF TypeOK, ServerInv, Goes, serverVars, commandVars
<1>3. CASE Bind(q)  BY <1>3 DEF Bind
<1>4. CASE LoadToken(q)  BY <1>4 DEF LoadToken
<1>5. CASE RemoveOldToken(q) \/ RenameToken(q)  BY <1>5 DEF RemoveOldToken, RenameToken
<1>6. CASE ReadBack(q)  BY <1>6 DEF ReadBack
<1>7. CASE WriteOwnPid(q)  BY <1>7 DEF WriteOwnPid
<1>8. CASE Die(q)  BY <1>8 DEF Die
<1>9. CASE StartServer  BY <1>2, <1>9, SpawnTypes DEF StartServer, Spawn
<1> QED BY <1>3, <1>4, <1>5, <1>6, <1>7, <1>8, <1>9 DEF ServerStep

\* A command changes a server process only by starting it.
LEMMA CommandsSpareServers ==
  ASSUME DaemonInv, NEW c \in Commands \cup Stops, CommandStep(c), NEW p \in Pids
  PROVE  ServerInv(p)'
<1>1. TypeOK /\ ServerInv(p)  BY DEF DaemonInv
<1>2. p \in Nat /\ spawned \in Nat  BY <1>1, DaemonAssumption DEF TypeOK, Pids
<1>3. CASE SpawnServer(c)
      BY <1>1, <1>2, <1>3, SpawnTypes DEF SpawnServer, Spawn, ServerInv, TypeOK, serverVars
<1>4. CASE UNCHANGED <<serverVars, spawned>>  BY <1>1, <1>4 DEF serverVars, ServerInv
<1> QED BY <1>3, <1>4 DEF CommandStep, AskHealth, RecordPid, WaitHealth, WaitExpires, Terminate, RemovePidFile

\* A key that is loaded is not unloaded.
LEMMA KeysStay ==
  ASSUME DaemonInv, Next, NEW p \in Pids, key[p] # None
  PROVE  key'[p] # None
<1>1. TypeOK  BY DEF DaemonInv
<1>2. ASSUME NEW q \in Pids, LoadToken(q)  PROVE key'[p] # None
      BY <1>1, <1>2, NoneIsNoPid DEF LoadToken, TypeOK
<1>3. ASSUME NEW q \in Pids, ReadBack(q)  PROVE key'[p] # None
      BY <1>1, <1>3, NoneIsNoPid DEF ReadBack, TypeOK
<1>4. CASE key' = key  BY <1>4
<1> QED BY <1>2, <1>3, <1>4 DEF Next, StartServer, ServerStep, Bind, RemoveOldToken, RenameToken, WriteOwnPid, Die,
        CommandStep, AskHealth, RecordPid, SpawnServer, WaitHealth, WaitExpires, Terminate, RemovePidFile, serverVars

\* A process is recorded only after it was seen to serve.
LEMMA CommandInvStep ==
  ASSUME DaemonInv, Next, NEW c \in Commands \cup Stops
  PROVE  CommandInv(c)'
<1> SUFFICES ASSUME pc'[c] = "record" PROVE key'[target'[c]] # None  BY DEF CommandInv
<1>1. TypeOK /\ CommandInv(c)  BY DEF DaemonInv
<1>2. CASE pc[c] = "record" /\ target'[c] = target[c]
  <2>1. target[c] \in Pids /\ key[target[c]] # None  BY <1>1, <1>2 DEF TypeOK, CommandInv
  <2> QED BY <1>2, <2>1, KeysStay
<1>3. CASE Healthy /\ target'[c] = bound /\ bound \in Pids
      BY <1>3, KeysStay DEF Healthy, DaemonInv, ServerInv
<1>4. ASSUME NEW d \in Commands \cup Stops, CommandStep(d)
      PROVE  \/ pc[c] = "record" /\ target'[c] = target[c]
             \/ Healthy /\ target'[c] = bound /\ bound \in Pids
  <2> USE <1>1, <1>4 DEF TypeOK, Moves
  <2>1. CASE \/ d \in Commands /\ AskHealth(d, "record", "spawn")
             \/ d \in Stops /\ AskHealth(d, "terminate", "ok")
        BY <2>1 DEF AskHealth, Healthy
  <2>2. CASE WaitHealth(d)  BY <2>2 DEF WaitHealth, FoundChild, Healthy
  <2>3. CASE SpawnServer(d)  BY <2>3 DEF SpawnServer
  <2>4. CASE RecordPid(d) \/ WaitExpires(d) \/ Terminate(d) \/ RemovePidFile(d)
        BY <2>4 DEF RecordPid, WaitExpires, Terminate, RemovePidFile
  <2> QED BY <2>1, <2>2, <2>3, <2>4 DEF CommandStep
<1>5. CASE UNCHANGED commandVars  BY <1>2, <1>5 DEF commandVars
<1> QED BY <1>2, <1>3, <1>4, <1>5 DEF Next, StartServer, ServerStep, Bind, LoadToken, RemoveOldToken, RenameToken,
        ReadBack, WriteOwnPid, Die

\* The pid file names a process that had the port.
LEMMA PidFileStep ==
  ASSUME DaemonInv, Next
  PROVE  PidFileNamesHolder'
<1> SUFFICES ASSUME pidFile' # None PROVE key'[pidFile'] # None  BY DEF PidFileNamesHolder
<1>1. TypeOK  BY DEF DaemonInv
<1>2. CASE pidFile' = pidFile
      BY <1>1, <1>2, KeysStay DEF DaemonInv, PidFileNamesHolder, TypeOK
<1>3. ASSUME NEW p \in Pids, WriteOwnPid(p)  PROVE key'[pidFile'] # None
      BY <1>3, KeysStay DEF WriteOwnPid, DaemonInv, ServerInv
<1>4. ASSUME NEW c \in Commands \cup Stops, RecordPid(c)  PROVE key'[pidFile'] # None
  <2>1. target[c] \in Pids /\ key[target[c]] # None /\ pidFile' = target[c]
        BY <1>1, <1>4 DEF RecordPid, DaemonInv, CommandInv, TypeOK
  <2> QED BY <2>1, KeysStay
<1> QED BY <1>2, <1>3, <1>4 DEF Next, StartServer, ServerStep, Bind, LoadToken, RemoveOldToken, RenameToken,
        ReadBack, Die, CommandStep, AskHealth, SpawnServer, WaitHealth, WaitExpires, Terminate, RemovePidFile

\* Who holds the port, who has loaded the token, and who is named in the pid file.
THEOREM DaemonInvariant == Spec => []DaemonInv
<1>1. Init => DaemonInv
  <2> SUFFICES ASSUME Init PROVE DaemonInv  OBVIOUS
  <2>1. spawned \in 0..MaxPid  BY DaemonAssumption DEF Init
  <2> QED BY <2>1 DEF Init, DaemonInv, TypeOK, ServerInv, CommandInv, PidFileNamesHolder
<1>2. DaemonInv /\ [Next]_vars => DaemonInv'
  <2> SUFFICES ASSUME DaemonInv, [Next]_vars PROVE DaemonInv'  OBVIOUS
  <2>1. CASE UNCHANGED vars
        BY <2>1 DEF vars, serverVars, commandVars, DaemonInv, TypeOK, ServerInv, CommandInv, PidFileNamesHolder
  <2>2. CASE Next
    <3>1. TypeOK' /\ \A p \in Pids : ServerInv(p)'
      <4>1. CASE \E q \in Pids : ServerStep(q) \/ Die(q)
            BY <4>1, ServerTypeStep, ServerInvStep DEF DaemonInv
      <4>2. CASE StartServer
        <5>1. spawned' \in Pids  BY <4>2, SpawnTypes DEF StartServer, DaemonInv
        <5> QED BY <4>2, <5>1, ServerTypeStep, ServerInvStep DEF DaemonInv
      <4>3. CASE \E c \in Commands \cup Stops : CommandStep(c)
            BY <4>3, CommandTypeStep, CommandsSpareServers DEF DaemonInv
      <4> QED BY <2>2, <4>1, <4>2, <4>3 DEF Next
    <3>2. ASSUME NEW c \in Commands \cup Stops  PROVE CommandInv(c)'  BY <2>2, CommandInvStep
    <3> QED BY <2>2, <3>1, <3>2, PidFileStep DEF DaemonInv
  <2> QED BY <2>1, <2>2
<1> QED BY <1>1, <1>2, PTL DEF Spec

\* Every variable of the daemon keeps its type.
THEOREM DaemonTypeCorrect == Spec => []TypeOK
  BY DaemonInvariant, PTL DEF DaemonInv

\* The token file opens the server that is running, for any number of processes
\* and commands that start, crash and stop.
THEOREM TokenFileOpensTheServer == Spec => []TokenAgrees
<1>1. DaemonInv => TokenAgrees
  <2> SUFFICES ASSUME DaemonInv, NEW p \in Living, server[p] \in {"pid", "serving"}  PROVE key[p] = token
      BY DEF TokenAgrees
  <2>1. p \in Pids  BY DaemonAssumption DEF DaemonInv, TypeOK, Living, Pids
  <2> QED BY <2>1 DEF DaemonInv, ServerInv
<1> QED BY <1>1, DaemonInvariant, PTL

\* A process that never had the port never gets into the pid file.
THEOREM PidFileIsOfAHolder == Spec => []PidFileNamesHolder
  BY DaemonInvariant, PTL DEF DaemonInv
=============================================================================
