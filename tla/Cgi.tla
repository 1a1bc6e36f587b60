-------------------------------- MODULE Cgi --------------------------------
(***************************************************************************)
(* flinter/fastcgi/cgi.cpp, and how dispatcher.cpp ends a request: filters *)
(* and a handler set headers and output a body, buffered or not, and may   *)
(* end at any point, return, or throw; what reaches the web server must    *)
(* still be one response.  One request, one object; a second one, of the   *)
(* default handler, when an HttpException comes before any header is sent. *)
(***************************************************************************)
EXTENDS Integers, FiniteSets

CONSTANTS
  MaxBody,      \* bound: pieces of body the handler outputs
  MaxFilters    \* bound: filters of the handler

None == -1
Fresh == [length |-> None, chunked |-> FALSE, cookies |-> 0]

VARIABLES
  step,         \* "new", "filters", "run", "finish", "http", "other" (exceptions), "answered",
                \* "failed", or "crashed": an exception that nothing catches
  filters,      \* filters still to process
  ready,        \* no filter has refused
  handled, headerSent, buffered,
  headers,      \* _headers: those the code sets itself, and Set-Cookie, which may repeat
  held,         \* pieces in _buffered_body
  given,        \* pieces and cookies the handler has output
  statusCode,   \* _status: 200, one the handler set, or the default handler's
  wire,         \* what the web server got: heads, what they announced, pieces of body
  clean         \* nothing was thrown

cgiVars == <<step, filters, ready, handled, headerSent, buffered, headers, held, given, statusCode,
             wire, clean>>

CgiOK ==
  /\ step \in {"new", "filters", "run", "finish", "http", "other", "answered", "failed",
              "crashed"}
  /\ filters \in 0..MaxFilters /\ ready \in BOOLEAN /\ handled \in BOOLEAN /\ headerSent \in BOOLEAN
  /\ buffered \in BOOLEAN /\ held \in 0..MaxBody /\ clean \in BOOLEAN
  /\ statusCode \in {"ok", "set", "error"}

CgiInit ==
  /\ step = "new" /\ filters \in 0..MaxFilters /\ ready = TRUE /\ handled = FALSE
  /\ headerSent = FALSE /\ buffered = TRUE /\ headers = Fresh /\ held = 0
  /\ given = [body |-> 0, cookies |-> 0] /\ statusCode = "ok"
  /\ wire = [heads |-> 0, told |-> Fresh, status |-> "ok", body |-> 0, early |-> 0] /\ clean = TRUE

response == <<handled, headerSent, buffered, headers, held, given, statusCode>>

-----------------------------------------------------------------------------
\* RealOutput() of what OutputHeaders() writes, once, and of n pieces of body.
OutputHeaders(w, h) ==
  IF headerSent THEN w ELSE [w EXCEPT !.heads = @ + 1, !.told = h, !.status = statusCode]
RealOutput(w, n) == [w EXCEPT !.body = @ + n, !.early = IF w.heads = 0 THEN @ + n ELSE @]

\* FlushBody(): the length is known once the request is handled.
Announced(all) ==
  IF headerSent \/ held = 0 THEN headers
  ELSE IF all THEN [headers EXCEPT !.length = held] ELSE [headers EXCEPT !.chunked = TRUE]
FlushBody(all) ==
  /\ wire' = RealOutput(OutputHeaders(wire, Announced(all)), held)
  /\ headers' = Announced(all) /\ held' = 0 /\ headerSent' = TRUE

\* An exception: HttpException, which RealOutput() and ClearSilver throw too, or another.
Throws(what) == step' = what /\ clean' = FALSE

\* Parser::Parse(): a body that ClearSilver does not parse itself is read until there is
\* nothing more or Content-Length is reached, and must be of that length.
Parse(total, there, form) == total = 0 \/ form \/ there = total

\* The constructor: the environment, the cookies and the query, then the body.
Construct ==
  /\ step = "new"
  /\ \E total \in 0..1, there \in 0..2, form \in BOOLEAN :
       IF Parse(total, there, form) THEN step' = "filters" /\ UNCHANGED clean ELSE Throws("http")
  /\ UNCHANGED <<filters, ready, wire, response>>

\* A filter of ProcessRequest(): it passes, passes the request to the next filter but not to
\* Run(), ends the filters, or both; it may throw, and may set headers as Run() does.
Filter ==
  /\ step = "filters"
  /\ \/ filters = 0 /\ step' = (IF ready THEN "run" ELSE "finish") /\ UNCHANGED <<filters, ready, clean>>
     \/ \E result \in {"pass", "next", "break", "fail"} :
          /\ filters > 0 /\ filters' = (IF result \in {"fail", "break"} THEN 0 ELSE filters - 1)
          /\ ready' = (ready /\ result \notin {"fail", "next"}) /\ UNCHANGED <<step, clean>>
     \/ filters > 0 /\ Throws("http") /\ UNCHANGED <<filters, ready>>
  /\ UNCHANGED <<wire, response>>

-----------------------------------------------------------------------------
InRun == step = "run" /\ UNCHANGED <<filters, ready, handled>>

\* SetHeaderInternal(): too late once the headers are sent.
SetHeaderInternal(h) ==
  IF headerSent THEN Throws("other") /\ UNCHANGED headers ELSE headers' = h /\ UNCHANGED <<step, clean>>

\* SetCookie() and RemoveCookie(): a header that may repeat.
SetCookie ==
  /\ InRun /\ given.cookies < 2 /\ SetHeaderInternal([headers EXCEPT !.cookies = @ + 1])
  /\ given' = IF headerSent THEN given ELSE [given EXCEPT !.cookies = @ + 1]
  /\ UNCHANGED <<headerSent, buffered, held, statusCode, wire>>

\* IsForbiddenHeader(): the headers the code sets itself, however they are spelt.
IsForbidden(key) == key \in {"length", "chunked"}

\* SetHeader(), SetContentType() and Redirect(); a length is what the handler believes it is.
SetHeader(key) ==
  /\ InRun
  /\ IF IsForbidden(key) THEN UNCHANGED <<headers, step, clean>>
     ELSE SetHeaderInternal(IF key = "length" THEN [headers EXCEPT !.length = MaxBody] ELSE headers)
  /\ UNCHANGED <<headerSent, buffered, held, given, statusCode, wire>>

\* SetStatusCode(): an unknown status is refused; a late one is just not sent any more.

SetStatusCode ==
  /\ InRun /\ ((statusCode' = "set" /\ UNCHANGED <<step, clean>>) \/ (Throws("other") /\ UNCHANGED statusCode))
  /\ UNCHANGED <<headerSent, buffered, headers, held, given, wire>>

\* OutputBody(), OutputBodyF() and BODY.
OutputBody ==
  /\ InRun /\ given.body < MaxBody /\ given' = [given EXCEPT !.body = @ + 1]
  /\ IF buffered THEN held' = held + 1 /\ UNCHANGED <<wire, headerSent>>
     ELSE wire' = RealOutput(OutputHeaders(wire, headers), 1) /\ headerSent' = TRUE /\ UNCHANGED held
  /\ UNCHANGED <<step, clean, buffered, headers, statusCode>>

SetBodyBuffered(on) ==
  /\ InRun /\ buffered' = on
  /\ IF on THEN UNCHANGED <<wire, headers, held, headerSent>> ELSE FlushBody(handled)
  /\ UNCHANGED <<step, clean, given, statusCode>>

\* Run() returns or calls End(), or throws.
RunEnds ==
  /\ InRun
  /\ ((step' = "finish" /\ UNCHANGED clean) \/ Throws("http") \/ Throws("other"))
  /\ UNCHANGED <<headerSent, buffered, headers, held, given, statusCode, wire>>

-----------------------------------------------------------------------------
\* The end of ProcessRequest(); a client that has gone makes the last write throw.
FinishResponse ==
  /\ step = "finish" /\ handled' = TRUE /\ FlushBody(TRUE)
  /\ ((step' = "answered" /\ UNCHANGED clean) \/ Throws("http"))
  /\ UNCHANGED <<filters, ready, buffered, given, statusCode>>

\* DefaultApacheHandler: a buffered body; a status that is not known is looked up as 500 but
\* given to SetStatusCode() as it is, which throws out of the catch clause.
DefaultAnswer(w) ==
  [RealOutput([w EXCEPT !.heads = @ + 1], 1) EXCEPT !.told = [Fresh EXCEPT !.length = 1], !.status = "error"]

\* Mutant: an error page is sent whatever was sent before.
UntouchedAlways == TRUE

\* ProcessException(): the default handler answers if nothing was sent.
Untouched == ~headerSent
ProcessException ==
  /\ step = "http"
  /\ \/ step' = "answered" /\ wire' = IF Untouched THEN DefaultAnswer(wire) ELSE wire
     \/ step' = "crashed" /\ Untouched /\ UNCHANGED wire
  /\ UNCHANGED <<filters, ready, clean, response>>

\* Another exception: DispatchRequest() returns false, and nothing is answered.
Abandon == step = "other" /\ step' = "failed" /\ UNCHANGED <<filters, ready, wire, clean, response>>

CgiNext ==
  \/ Construct \/ Filter \/ SetCookie \/ SetStatusCode \/ OutputBody
  \/ (\E key \in {"length", "other"} : SetHeader(key))
  \/ (\E on \in BOOLEAN : SetBodyBuffered(on)) \/ RunEnds \/ FinishResponse \/ ProcessException \/ Abandon

CgiSpec == CgiInit /\ [][CgiNext]_cgiVars

-----------------------------------------------------------------------------
\* The web server gets one head at most, before any body; a request that is answered has got
\* one, and a length it announces is the length of what follows.  If nothing was thrown, all
\* the body and every cookie of the handler are there, in spite of what was output before or
\* after the buffer was turned off and on again.
OneResponse ==
  /\ wire.heads <= 1 /\ wire.early = 0
  /\ step = "answered" =>
       /\ wire.heads = 1
       /\ wire.told.length # None => wire.told.length = wire.body
       /\ clean => /\ wire.body = given.body /\ wire.told.cookies = given.cookies

\* What fails: a body sent before the request is handled is announced as chunked and is not
\* encoded so; and a status set after the headers are sent is lost without an error.
StatusSent == step = "answered" /\ clean => wire.status = statusCode

=============================================================================
