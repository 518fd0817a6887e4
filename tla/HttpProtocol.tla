---------------------------- MODULE HttpProtocol ----------------------------
(***************************************************************************)
(* One crawl on the wire: the request that HttpProtocol builds and         *)
(* HttpProcessor sends piece by piece, the response that it receives piece *)
(* by piece until the peer closes, and what HttpProtocol::analyse makes of *)
(* it; then the page, another attempt, or the place that a redirect names. *)
(* Connections, queues and counts are the matter of HttpProcessor.         *)
(*                                                                         *)
(* A message is a sequence of units.  Where only lines matter a unit is a  *)
(* whole line without its end (the first one, a header field); in the body *)
(* it is a byte, so that positions count as they do in the source.         *)
(***************************************************************************)
EXTENDS Integers, Sequences, FiniteSets, SequencesExt

CONSTANTS
  Responses,         \* what a peer may answer, see Wire
  Units,             \* what a text is made of
  Hex,               \* how a peer writes sizes of chunks, see HexAssumption
  MaxRecv,           \* units that one recv returns at most
  MAX_HEAD_CMD_LEN,  \* units that the buffer of a request holds
  CookieSize,        \* units that the cookie of a header field takes in a request
  PageSizes,         \* the values of httpMaxPageSize to look at
  MaxRetry,          \* httpMaxRetry
  MaxRedirectDepth   \* httpMaxRedirectDepth

\* The header fields that matter to the program; any other is "field".  "deflate"
\* stands for the codings that it offers besides gzip, "deflate" and "sdch", and the
\* lines of Cookies for Set-Cookie with values of several lengths.
Cookies == {"set-cookie", "set-longer-cookie", "set-longest-cookie"}
Fields  == {"chunked", "gzip", "deflate", "location", "field"} \union Cookies
Statuses == {"200", "301", "404", "503"}

ASSUME ProtocolAssumption ==
  /\ \A r \in Responses : r.status \in Statuses /\ r.fields \in Seq(Fields) /\ r.text \in Seq(Units)
  /\ \A r \in Responses : ~ {"gzip", "deflate"} \subseteq ToSet(r.fields)
  /\ "gz" \notin Units /\ "crc" \notin Units
  /\ CookieSize \in [Cookies -> Nat] /\ MAX_HEAD_CMD_LEN \in Nat
  /\ MaxRecv \in Nat \ {0} /\ PageSizes \subseteq Nat \ {0}
  /\ MaxRetry \in Nat \ {0} /\ MaxRedirectDepth \in Nat

VARIABLES
  ctx,              \* the fields of UrlContext
  place,            \* "connect", "send", "recv", "end", or "undefined"
  httpMaxPageSize,
  \* the peer
  got,              \* what it has received
  response,         \* what it answers,
  toSend,           \* and has not sent yet
  closed            \* it has closed the connection

vars == <<ctx, place, httpMaxPageSize, got, response, toSend, closed>>
peer == <<got, response, toSend, closed>>

CRLF == <<"CR", "LF">>
DOUBLECRLF == <<"CR", "LF", "CR", "LF">>

(***************************************************************************)
(* Hexadecimal numbers.                                                    *)
(***************************************************************************)
Digits == <<"0", "1", "2", "3", "4", "5", "6", "7", "8", "9", "a", "b", "c", "d", "e", "f">>
DigitValue(u) == CHOOSE d \in 0..15 : Digits[d + 1] = u
HexNumber(digits) ==
  LET value[i \in 0..Len(digits)] ==
        IF i = 0 THEN 0 ELSE 16 * value[i - 1] + DigitValue(digits[i])
  IN value[Len(digits)]

\* What an int of hex2dec holds.
MaxChunk == 2147483647

\* In any number of digits, with zeros in front or without.
ASSUME HexAssumption ==
  /\ 0 \in DOMAIN Hex /\ DOMAIN Hex \subseteq 0..MaxChunk
  /\ \A n \in DOMAIN Hex :
       Hex[n] \in Seq(ToSet(Digits)) /\ Hex[n] # <<>> /\ HexNumber(Hex[n]) = n

(***************************************************************************)
(* The peer: how a response is written (RFC 7230).  Its text is compressed *)
(* first, between the marks of zlib, then cut into chunks, which end at    *)
(* the positions r.cuts.                                                   *)
(***************************************************************************)

Coded(r) ==
  IF "gzip" \in ToSet(r.fields) THEN <<"gz">> \o r.text \o <<"crc">>
  ELSE IF "deflate" \in ToSet(r.fields) THEN <<"zz">> \o r.text
  ELSE r.text

CutAt(cuts, i) == IF i = 0 THEN 0 ELSE cuts[i]

SizeOf(cuts, i) == cuts[i] - CutAt(cuts, i - 1)
Chunk(s, cuts, i) ==
  Hex[SizeOf(cuts, i)] \o CRLF \o SubSeq(s, CutAt(cuts, i - 1) + 1, cuts[i]) \o CRLF

\* The first chunks, however many.
FirstChunks(s, cuts) ==
  LET first[i \in 0..Len(cuts)] ==
        IF i = 0 THEN <<>> ELSE first[i - 1] \o Chunk(s, cuts, i)
  IN first

LastChunk == Hex[0] \o DOUBLECRLF
Chunks(s, cuts) == FirstChunks(s, cuts)[Len(cuts)] \o LastChunk

\* No chunk is empty, for that is the last one, and together they are the text.
ASSUME ChunksAssumption ==
  \A r \in Responses : "chunked" \in ToSet(r.fields) =>
    /\ r.cuts \in Seq(Nat)
    /\ \A i \in 1..Len(r.cuts) : SizeOf(r.cuts, i) \in DOMAIN Hex \ {0}
    /\ CutAt(r.cuts, Len(r.cuts)) = Len(Coded(r))

\* Every field is a line.
FieldLines(fields) ==
  [i \in 1..3 * Len(fields) |->
     IF i % 3 = 1 THEN fields[(i \div 3) + 1] ELSE IF i % 3 = 2 THEN "CR" ELSE "LF"]

Body(r) == IF "chunked" \in ToSet(r.fields) THEN Chunks(Coded(r), r.cuts) ELSE Coded(r)

Wire(r) == <<r.status>> \o CRLF \o FieldLines(r.fields) \o CRLF \o Body(r)

(***************************************************************************)
(* The analysis of a response, once there is no more of it.                *)
(***************************************************************************)
NPOS == -1

Least(T) == CHOOSE m \in T : \A n \in T : m <= n

\* Where the pattern is found at or after a position, counted from 0.
Find(pattern, s, from) ==
  LET found == {o \in from..Len(s) - Len(pattern) : SubSeq(s, o + 1, o + Len(pattern)) = pattern}
  IN IF found = {} THEN NPOS ELSE Least(found)

substr(s, from, count) == SubSeq(s, from + 1, IF from + count < Len(s) THEN from + count ELSE Len(s))

(***************************************************************************)
(* The request.                                                            *)
(***************************************************************************)
\* snprintf behind what has been printed.  It writes what there is room for, with a
\* terminator, and returns the length of the whole line.  Behind the end of the
\* buffer the room is negative, which snprintf takes for a large size: it writes
\* over what lies there.
PrintLine(c, line) ==
  LET room    == MAX_HEAD_CMD_LEN - c.requestLen
      counted == [c EXCEPT !.requestLen = @ + Len(line)]
  IN IF room < 0 THEN [counted EXCEPT !.undefined = TRUE]
     ELSE IF room = 0 THEN counted
     ELSE [counted EXCEPT !.requestData = SubSeq(@, 1, c.requestLen) \o substr(line, 0, room - 1)]

CookieLine(c) == [i \in 1..c.cookie |-> "Cookie"]

\* GET with the path, Host, the fixed lines, a cookie if there is one.
buildHttpRequestHeader(c) ==
  LET fixed  == PrintLine(c, <<c.target, "Host", "Accept">>)
      cookie == IF c.cookie > 0 THEN PrintLine(fixed, CookieLine(c)) ELSE fixed
  IN PrintLine(cookie, <<"CRLF">>)

\* What send finds at requestData: a request that was cut ends with the terminator
\* and what lies behind the buffer.
Memory(c) ==
  [i \in 1..c.requestLen |-> IF i <= Len(c.requestData) THEN c.requestData[i] ELSE "behind"]

(***************************************************************************)
(* The answer.                                                             *)
(***************************************************************************)
Fail(c) == [ok |-> FALSE, ctx |-> c]
Ok(c)   == [ok |-> TRUE, ctx |-> c]

analyseFirstLine(c) ==
  LET tail == Find(CRLF, c.recvData, 0)
  IN IF tail = NPOS THEN Fail(c)
     ELSE Ok([c EXCEPT !.httpStatus = c.recvData[1], !.firstLineLen = tail + Len(CRLF)])

\* The cookie of a response is kept for the requests that follow, the last of several.
LastCookie(lines) == lines[CHOOSE i \in 1..Len(lines) : /\ lines[i] \in Cookies
                                                      /\ \A j \in i + 1..Len(lines) : lines[j] \notin Cookies]
analyseCookie(c, lines) ==
  IF ToSet(lines) \intersect Cookies = {} THEN c
  ELSE [c EXCEPT !.cookie = CookieSize[LastCookie(lines)]]

analyseHeader(c) ==
  LET tail == Find(DOUBLECRLF, c.recvData, c.firstLineLen)
      head == substr(c.recvData, c.firstLineLen, tail - c.firstLineLen + Len(DOUBLECRLF))
  IN IF tail = NPOS THEN Fail(c)
     ELSE Ok(analyseCookie([c EXCEPT !.fields = @ \union (ToSet(head) \intersect Fields),
                                     !.headerLen = tail], head))

\* sscanf("%x"): blanks, then digits up to what is none.  Without a digit it sets
\* nothing, and the caller reads a variable that has no value.
NoValue == -1
hex2dec(s) ==
  LET end   == Len(s) + 1
      first == Least({i \in 1..end : i = end \/ s[i] \notin {"CR", "LF"}})
      stop  == Least({i \in first..end : i = end \/ s[i] \notin ToSet(Digits)})
  IN IF first = stop THEN NoValue ELSE HexNumber(SubSeq(s, first, stop - 1))

\* Behind a chunk one unit is skipped; the size line found next begins with the
\* other one, which sscanf passes over.
NextChunk(line, size) == line + Len(CRLF) + size + 1

\* A round of the loop.
NextRound(body, loop) ==
  LET line == Find(CRLF, body, loop.curPos)
      size == hex2dec(substr(body, loop.curPos, line - loop.curPos))
  IN IF loop.result # "more" THEN loop
     ELSE IF line = NPOS THEN [loop EXCEPT !.result = "fail"]
     ELSE IF size = NoValue THEN [loop EXCEPT !.result = "undefined"]
     ELSE IF size = 0 THEN [loop EXCEPT !.result = "ok"]
     ELSE [result |-> "more", curPos |-> NextChunk(line, size),
           joined |-> loop.joined \o substr(body, line + Len(CRLF), size)]

NoRound == [result |-> "more", curPos |-> 0, joined |-> <<>>]
Rounds(body) ==
  LET after[i \in 0..Len(body) + 1] ==
        IF i = 0 THEN NoRound ELSE NextRound(body, after[i - 1])
  IN after

\* Every round goes behind an end of line, so that this many are enough.
JoinChunks(body) == Rounds(body)[Len(body) + 1]

\* A plausible bug: a page that ends without its last chunk is taken as it is.
analyseChunk_TakesAll(c) ==
  LET loop == JoinChunks(c.body)
  IN IF "chunked" \notin c.fields THEN Ok(c) ELSE Ok([c EXCEPT !.body = loop.joined])

analyseChunk(c) ==
  LET loop == JoinChunks(c.body)
  IN IF "chunked" \notin c.fields THEN Ok(c)
     ELSE IF loop.result = "ok" THEN Ok([c EXCEPT !.body = loop.joined])
     ELSE Fail([c EXCEPT !.undefined = loop.result = "undefined"])

\* Byte by byte, until zlib has seen the end, the input ends, or the buffer is full:
\* none of the three is an error.
gzdecompress(z, size) ==
  LET end  == Find(<<"crc">>, z, 0)
      data == SubSeq(z, 2, IF end = NPOS THEN Len(z) ELSE end)
  IN IF z # <<>> /\ Head(z) # "gz" THEN [ok |-> FALSE, data |-> <<>>]
     ELSE [ok |-> TRUE, data |-> substr(data, 0, size)]

\* A plausible bug: the body begins after one end of line.
BodyPos_OneLineEnd(c) == c.headerLen + Len(CRLF)

BodyPos(c) == c.headerLen + Len(DOUBLECRLF)

analyseBody(c, size) ==
  LET chunk == analyseChunk([c EXCEPT !.body = substr(c.recvData, BodyPos(c), Len(c.recvData))])
      plain == gzdecompress(chunk.ctx.body, size)
  IN IF c.httpStatus # "200" THEN Ok([c EXCEPT !.body = <<>>])
     ELSE IF ~chunk.ok \/ "gzip" \notin c.fields THEN chunk
     ELSE IF plain.ok THEN Ok([chunk.ctx EXCEPT !.body = plain.data]) ELSE Fail(chunk.ctx)

\* What has been found before a failure stays in the context.
analyse(c, size) ==
  LET line == analyseFirstLine(c)
      head == analyseHeader(line.ctx)
  IN IF ~line.ok THEN line ELSE IF ~head.ok THEN head ELSE analyseBody(head.ctx, size)

(***************************************************************************)
(* The crawl.                                                              *)
(***************************************************************************)
\* Plausible bugs: a field is forgotten.
init_KeepsFields(c) == [c EXCEPT !.requestLen = 0, !.writeLen = 0, !.recvData = <<>>]
init_KeepsRequestLen(c) == [c EXCEPT !.writeLen = 0, !.recvData = <<>>, !.fields = {}]

\* UrlContext::init.  Status, body and cookie are not reset, nor is what stands in
\* the buffer of the request.
init(c) ==
  [c EXCEPT !.requestLen = 0, !.writeLen = 0, !.recvData = <<>>, !.fields = {},
            !.firstLineLen = -1, !.headerLen = -1]

NewContext ==
  [target |-> "url", redirectDepth |-> 0, retry |-> 0, status |-> "CONNECTING", cookie |-> 0,
   requestData |-> <<>>, requestLen |-> 0, writeLen |-> 0, recvData |-> <<>>, fields |-> {},
   httpStatus |-> "",
   firstLineLen |-> -1, headerLen |-> -1, body |-> <<>>, undefined |-> FALSE]

Init ==
  /\ ctx = NewContext /\ place = "connect" /\ httpMaxPageSize \in PageSizes
  /\ got = <<>> /\ toSend = <<>> /\ closed = FALSE
  /\ response \in Responses

\* connect, with a new connection.  Of a program that has written behind the buffer
\* nothing more is said.
Connect ==
  /\ place = "connect"
  /\ ctx' = [buildHttpRequestHeader(ctx) EXCEPT !.status = "SENDING"]
  /\ place' = IF ctx'.undefined THEN "undefined" ELSE "send"
  /\ got' = <<>> /\ toSend' = <<>> /\ closed' = FALSE
  /\ UNCHANGED <<response, httpMaxPageSize>>

\* A send of trySend.  The peer answers the request when it is whole.
TrySend ==
  /\ place = "send"
  /\ \E n \in 1..ctx.requestLen - ctx.writeLen :
       /\ got' = got \o SubSeq(Memory(ctx), ctx.writeLen + 1, ctx.writeLen + n)
       /\ ctx' = [ctx EXCEPT !.writeLen = @ + n]
  /\ IF ctx'.writeLen = ctx.requestLen
     THEN /\ place' = "recv"
          /\ \E r \in Responses : response' = r /\ toSend' = Wire(r)
     ELSE UNCHANGED <<place, response, toSend>>
  /\ UNCHANGED <<httpMaxPageSize, closed>>

\* When it has sent all, or before.
Close ==
  /\ place = "recv" /\ ~closed
  /\ closed' = TRUE /\ toSend' = <<>>
  /\ UNCHANGED <<ctx, place, httpMaxPageSize, got, response>>

doWithRedirect(c) ==
  IF "location" \in c.fields /\ c.redirectDepth < MaxRedirectDepth
  THEN init([c EXCEPT !.redirectDepth = @ + 1, !.target = "redirectUrl"])
  ELSE [c EXCEPT !.status = "PROTERR"]

\* onRecvOnePage, the context after the analysis: a redirect is found by its status,
\* and every status but three stands for a page.
onRecvOnePage(c) ==
  LET analysed == analyse(c, httpMaxPageSize)
      page == analysed.ctx
  IN IF ~analysed.ok \/ page.httpStatus = "404" THEN [page EXCEPT !.status = "PROTERR"]
     ELSE IF page.httpStatus = "301" THEN doWithRedirect(page)
     ELSE [page EXCEPT !.status = "DONE"]

OnRecvOnePage(c) ==
  /\ ctx' = onRecvOnePage(c)
  /\ place' = IF ctx'.status \in {"DONE", "PROTERR"} THEN "end" ELSE "connect"
  /\ UNCHANGED <<httpMaxPageSize, got, response, closed>>

\* The limit on the page size is compared with what one recv has returned.
TooMuch(n) == n > httpMaxPageSize

\* A recv of tryRecv that returns something.
Recv ==
  /\ place = "recv"
  /\ \E n \in 1..MaxRecv :
       /\ n <= Len(toSend)
       /\ toSend' = SubSeq(toSend, n + 1, Len(toSend))
       /\ LET more == [ctx EXCEPT !.recvData = @ \o SubSeq(toSend, 1, n)]
          IN IF TooMuch(n) THEN OnRecvOnePage(more)
             ELSE ctx' = more /\ UNCHANGED <<place, httpMaxPageSize, got, response, closed>>

\* A recv that returns 0.
RecvEnd ==
  /\ place = "recv" /\ closed
  /\ OnRecvOnePage(ctx)
  /\ UNCHANGED toSend

\* A timeout, or an error of send or recv.
OnTimeout ==
  /\ place \in {"send", "recv"}
  /\ LET again == ctx.retry + 1 < MaxRetry
         tried == [ctx EXCEPT !.retry = @ + 1]
     IN /\ ctx' = IF again THEN init(tried)
                  ELSE [tried EXCEPT !.status = "TIMEOUT", !.recvData = <<>>]
        /\ place' = IF again THEN "connect" ELSE "end"
  /\ UNCHANGED <<httpMaxPageSize, peer>>

Next == Connect \/ TrySend \/ Close \/ Recv \/ RecvEnd \/ OnTimeout
Spec == Init /\ [][Next]_vars

(***************************************************************************)
(* Properties.                                                             *)
(***************************************************************************)
Request(c) == <<c.target, "Host", "Accept">> \o CookieLine(c) \o <<"CRLF">>

\* With the terminator it fits the buffer.
Fits(c) == Len(Request(c)) < MAX_HEAD_CMD_LEN

\* What the peer gets is the request for the present url with the present cookie,
\* from its beginning, however it was cut and whatever was sent before, unless the
\* cookie makes it too long for the buffer.
RequestIsOfTheUrl ==
  Fits(ctx) =>
    /\ place = "send" => IsPrefix(got, Request(ctx))
    /\ place = "recv" => got = Request(ctx)

\* MAX_HEAD_CMD_LEN is the greatest length of a request, as its comment says.  A cookie
\* that a redirect has set makes longer ones.
RequestIsWithinLimit == ctx.requestLen <= MAX_HEAD_CMD_LEN

\* A page is analysed by the fields of its own response, not by those of the
\* redirect or the attempt before it, nor by anything in its body.  (Without any
\* field the search for the end of the header begins behind it.)
FieldsOfTheResponse ==
  place = "end" /\ ctx.status = "DONE" /\ response.fields # <<>> =>
    ctx.fields = ToSet(response.fields)

\* What is left of the codings when the program has decoded gzip.
Decoded(r) == IF "deflate" \in ToSet(r.fields) THEN Coded(r) ELSE r.text

HasPage == place = "end" /\ ctx.status = "DONE" /\ ctx.httpStatus = "200" /\ response.fields # <<>>

\* A page is a beginning of the text that was sent, plain or in gzip, however it was
\* cut into chunks, received, and broken off; in another coding, of the coded text.
PageIsText == HasPage => IsPrefix(ctx.body, Decoded(response))

\* The codings that a request offers are understood.  Those but gzip are not: such a
\* page goes to the extractor as it came.
OfferedIsDecoded == HasPage => IsPrefix(ctx.body, response.text)

\* In chunks it is all of that, unless decompression fills its buffer: a page that
\* was broken off is a failure, and no size of a chunk is ever taken from a line
\* without digits.
ChunkedIsWhole ==
  place = "end" /\ response.fields # <<>> =>
    /\ ~ctx.undefined
    /\ HasPage /\ "chunked" \in ctx.fields =>
         \/ ctx.body = Decoded(response)
         \/ "gzip" \in ctx.fields /\ Len(ctx.body) = httpMaxPageSize

\* The limit on the size of a page stops a crawl that has received more, give or take
\* one recv.  It does not: it is compared with one recv.
PageIsWithinLimit ==
  place = "end" /\ ctx.status = "DONE" => Len(ctx.recvData) <= httpMaxPageSize + MaxRecv
=============================================================================
