---------------------------- MODULE HttpRequest ----------------------------
(***************************************************************************)
(* The reading half of http_conn: the client's bytes arrive in pieces cut  *)
(* anywhere, read() appends them to m_read_buf, and process_read parses    *)
(* what there is, resuming where it stopped: request line, headers, body.  *)
(* Only complete lines are parsed; when the data runs out in the middle of *)
(* a line the descriptor is armed again and the next piece continues.      *)
(*                                                                         *)
(* Abstractions.  A cell of the buffer is a word of the request, CR, LF or *)
(* the NUL the parser writes over a line end; the words of a line are what *)
(* its parser tells apart.  Indices are those of the code, from 0.  Which  *)
(* page the login and the register form lead to (do_request 369-452) is    *)
(* module Accounts' matter: here it is any of FormPages.                   *)
(***************************************************************************)
EXTENDS Integers, Sequences, FiniteSets, SequencesExt

CONSTANTS
  Requests,          \* requests a client may send: [line, headers, body]
  Number,            \* the words that begin with digits, and their numbers
  Files,             \* url -> [kind, size] of the resources directory
  Forms,             \* URLs whose last part begins with 2 or 3
  FormPages,         \* the pages login and registration lead to
  READ_BUFFER_SIZE,  \* capacity of m_read_buf, in cells
  MaxClients,        \* connections that use this http_conn in turn (bound)
  MaxRequests        \* requests it serves in all (bound)

CR == "CR"
LF == "LF"
NUL == "NUL"

\* The words of the requests; a line has no CR or LF in it, a body may.
Words == (UNION { Range(r.line) \cup Range(r.body) \cup
                  UNION { Range(h) : h \in Range(r.headers) } : r \in Requests })
         \ {CR, LF}

\* The URLs that are not files.
SpecUrl == "/specdata"
JsonUrl == "/jsondata"
Urls == DOMAIN Files \cup {SpecUrl, JsonUrl}

NoMap == [url |-> "", ok |-> FALSE]
Garbage == [url |-> "?", ok |-> FALSE]

VARIABLES
  \* the client and its socket
  client,            \* number of the connection served
  asks,              \* requests sent so far
  asked,             \* the last request
  pending,           \* the response to it has not ended yet
  unsent,            \* cells of it still to be sent
  bodyCut,           \* read() has stopped once inside the body of it
  rx,                \* cells received by the server's socket and not yet read
  \* where the connection is: "in"/"out" armed for input or output, "parse"
  \* and the steps after it with a worker, "deaf" and "dead" armed for
  \* nothing, "closed"
  pc,
  \* http_conn
  m_read_buf,        \* its first m_read_idx cells
  m_checked_index, m_start_line, m_check_state, line_status,
  m_method, m_url, m_linger, m_content_length, m_string,
  m_post_cgi,        \* 1 once a POST was parsed; 0 is any other number
  m_read_ret,
  m_file_address     \* the mapped file, or null, or what the memory held

clientVars == <<client, asks, asked, pending, unsent, bodyCut, rx>>
bufferVars == <<m_read_buf, m_checked_index, m_start_line>>
parseVars == <<m_check_state, m_method, m_url, m_linger, m_content_length>>
readVars == <<bufferVars, parseVars, line_status, m_string, m_post_cgi,
              m_read_ret, m_file_address>>

m_read_idx == Len(m_read_buf)

-----------------------------------------------------------------------------
(* The client's side.                                                      *)

Flat(lines) == FlattenSeq([i \in 1..Len(lines) |-> lines[i] \o <<CR, LF>>])

HeadOf(r) == Flat(<<r.line>> \o r.headers \o << <<>> >>)
Stream(r) == HeadOf(r) \o r.body

NoRequest == [line |-> <<>>, headers |-> <<>>, body |-> <<>>]

\* A client asks for one thing at a time: the next request of a kept-alive
\* connection is sent when the response to the last one has ended.
Ask(r) ==
  /\ pc = "in" /\ ~pending /\ asks < MaxRequests
  /\ asks' = asks + 1
  /\ asked' = r
  /\ pending' = TRUE
  /\ unsent' = Stream(r)
  /\ bodyCut' = FALSE
  /\ UNCHANGED <<client, rx, pc, readVars>>

\* TCP delivers the next n cells together.
Deliver(n) ==
  /\ pc # "closed" /\ n \in 1..Len(unsent)
  /\ rx' = rx \o SubSeq(unsent, 1, n)
  /\ unsent' = SubSeq(unsent, n + 1, Len(unsent))
  /\ UNCHANGED <<client, asks, asked, pending, bodyCut, pc, readVars>>

-----------------------------------------------------------------------------
(* http_conn::init() and read().                                           *)

InitParser ==
  /\ m_check_state' = "REQUESTLINE"
  /\ m_checked_index' = 0
  /\ m_start_line' = 0
  /\ m_read_buf' = <<>>
  /\ m_method' = "GET"
  /\ m_url' = ""
  /\ m_content_length' = 0

\* Mutation of InitRead: m_linger outlives the request.
InitReadLingers == InitParser /\ UNCHANGED m_linger

InitRead == InitParser /\ m_linger' = FALSE

Room == READ_BUFFER_SIZE - m_read_idx

\* read() takes what there is.  A buffer that is full asks recv for zero
\* bytes, takes the answer for the client's end, and returns false.
TakeAll(fits) ==
  /\ pc = "in" /\ rx # <<>>
  /\ IF fits
     THEN /\ m_read_buf' = m_read_buf \o rx
          /\ rx' = <<>>
          /\ pc' = "parse"
     ELSE /\ m_read_buf' = m_read_buf \o SubSeq(rx, 1, Room)
          /\ rx' = SubSeq(rx, Room + 1, Len(rx))
          /\ pc' = "deaf"
  /\ bodyCut' = (bodyCut \/ Len(unsent) \in 1..(Len(asked.body) - 1))
  /\ UNCHANGED <<client, asks, asked, pending, unsent, m_checked_index,
                 m_start_line, parseVars, m_string, m_post_cgi, m_read_ret,
                 m_file_address>>

\* Mutation of Recv: line_status is kept from one process_read to the next.
RecvKeepsStatus == TakeAll(Len(rx) < Room) /\ UNCHANGED line_status

\* process_read begins with line_status LINE_OK.
Recv == TakeAll(Len(rx) < Room) /\ line_status' = "OK"

-----------------------------------------------------------------------------
(* process_read.                                                           *)

Cell(i) == m_read_buf[i + 1]

\* parse_line: the first line end from m_checked_index on.
Ends == {i \in m_checked_index..(m_read_idx - 1) : Cell(i) \in {CR, LF}}
LineEnd == Min(Ends)
LineOpen == Ends = {} \/ (Cell(LineEnd) = CR /\ LineEnd + 1 = m_read_idx)
LineCut == IF Ends = {} THEN m_read_idx ELSE LineEnd
CrLf(i) == i >= 0 /\ i + 1 < m_read_idx /\ Cell(i) = CR /\ Cell(i + 1) = LF
LineStart == IF Cell(LineEnd) = CR THEN LineEnd ELSE LineEnd - 1
LineOk == /\ ~LineOpen
          /\ CrLf(LineStart)
          /\ Cell(LineEnd) = LF => LineEnd > 1
Terminated == [m_read_buf EXCEPT ![LineStart + 1] = NUL, ![LineStart + 2] = NUL]

\* The C string that begins at cell i of buffer b.
Text(b, i) ==
  LET nuls == {k \in (i + 1)..Len(b) : b[k] = NUL}
  IN SubSeq(b, i + 1, IF nuls = {} THEN Len(b) ELSE Min(nuls) - 1)

InContent == m_check_state = "CONTENT" /\ line_status = "OK"

\* The loop ends without a line: the data has run out, or the line is bad.
NoMoreLines ==
  /\ pc = "parse" /\ ~InContent /\ ~LineOk
  /\ m_checked_index' = IF LineOpen THEN LineCut ELSE LineEnd
  /\ m_read_ret' = "NO_REQUEST"
  /\ pc' = "in"
  /\ UNCHANGED <<clientVars, m_read_buf, m_start_line, parseVars, line_status,
                 m_string, m_post_cgi, m_file_address>>

NextLine ==
  /\ pc = "parse" /\ ~InContent /\ LineOk
  /\ m_read_buf' = Terminated
  /\ m_checked_index' = LineStart + 2
  /\ m_start_line' = LineStart + 2
  /\ line_status' = "OK"

Line == Text(Terminated, m_start_line)

GoodLine(line) ==
  Len(line) = 2 /\ line[1] \in {"GET", "POST"} /\ line[2] \in Urls

\* What execute() does with a verdict of process_read: only an answerable one
\* arms the descriptor again.
Decide(ret) ==
  /\ m_read_ret' = ret
  /\ pc' = IF ret \in {"FILE_REQUEST", "FILE_SPEC", "FILE_JSON"}
           THEN "out" ELSE "dead"

\* parse_rquest_line.  A POST sets m_post_cgi, and nothing ever clears it.
RequestLine ==
  /\ NextLine /\ m_check_state = "REQUESTLINE"
  /\ IF GoodLine(Line)
     THEN /\ m_method' = Line[1]
          /\ m_url' = Line[2]
          /\ m_post_cgi' = IF Line[1] = "POST" THEN 1 ELSE m_post_cgi
          /\ m_check_state' = "HEADER"
          /\ UNCHANGED <<pc, m_read_ret>>
     ELSE /\ UNCHANGED <<m_method, m_url, m_post_cgi, m_check_state>>
          /\ Decide("BAD_REQUEST")
  /\ UNCHANGED <<clientVars, m_linger, m_content_length, m_string,
                 m_file_address>>

\* What atol makes of a word.
atol(word) == IF word \in DOMAIN Number THEN Number[word] ELSE 0

\* parse_headers, a line that is not empty.
HeaderLine ==
  /\ NextLine /\ m_check_state = "HEADER" /\ Line # <<>>
  /\ m_linger' = (m_linger \/ Line = <<"Connection:", "keep-alive">>)
  /\ m_content_length' = IF Line[1] = "Content-Length:" THEN atol(Line[2])
                                                        ELSE m_content_length
  /\ UNCHANGED <<pc, clientVars, m_check_state, m_method, m_url, m_string,
                 m_post_cgi, m_read_ret, m_file_address>>

\* do_request from line 487 on: the verdict for a URL, and the mapping.  The
\* results of open and mmap are not looked at: a file removed after stat, like
\* an empty one, leaves MAP_FAILED in m_file_address.
Resource(url) ==
  CASE url = SpecUrl -> "FILE_SPEC"
    [] url = JsonUrl -> "FILE_JSON"
    [] OTHER -> CASE Files[url].kind = "missing" -> "NO_RESOURCE"
                  [] Files[url].kind = "private" -> "FORBIDDEN_REQUEST"
                  [] Files[url].kind = "directory" -> "BAD_REQUEST"
                  [] OTHER -> "FILE_REQUEST"

\* The URL that is answered.  The forms are taken by m_post_cgi alone, which
\* may be left of an earlier request, of another client even, or never have
\* been initialised; m_string is then whatever an earlier body left (the code
\* may also stop on it, which no step models).
Page(url) ==
  /\ m_url' = url
  /\ Decide(Resource(url))
  /\ IF Resource(url) = "FILE_REQUEST"
     THEN \E opened \in BOOLEAN :
            m_file_address' = [url |-> url, ok |-> opened /\ Files[url].size > 0]
     ELSE UNCHANGED m_file_address

do_request ==
  \/ m_post_cgi = 1 /\ m_url \in Forms /\ \E url \in FormPages : Page(url)
  \/ ~(m_post_cgi = 1 /\ m_url \in Forms) /\ Page(m_url)

\* parse_headers, the empty line.
EndOfHeaders ==
  /\ NextLine /\ m_check_state = "HEADER" /\ Line = <<>>
  /\ IF m_content_length # 0
     THEN /\ m_check_state' = "CONTENT"
          /\ UNCHANGED <<pc, m_url, m_read_ret, m_file_address>>
     ELSE /\ UNCHANGED m_check_state
          /\ do_request
  /\ UNCHANGED <<clientVars, m_method, m_linger, m_content_length, m_string,
                 m_post_cgi>>

\* parse_content, on buffer b with m_checked_index at checked.  Only m_start_line
\* says where the body begins, and it moves with every call.
parse_content(b, checked) ==
  /\ m_check_state = "CONTENT"
  /\ m_start_line' = checked
  /\ m_checked_index' = checked
  /\ IF m_read_idx >= m_content_length + checked
     THEN /\ m_read_buf' = [b EXCEPT ![m_start_line + m_content_length + 1] = NUL]
          /\ m_string' = Text(m_read_buf', m_start_line)
          /\ line_status' = "OK"
          /\ do_request
     ELSE /\ m_read_buf' = b
          /\ line_status' = "OPEN"
          /\ UNCHANGED <<pc, m_url, m_string, m_read_ret, m_file_address>>
  /\ UNCHANGED <<clientVars, m_check_state, m_method, m_linger,
                 m_content_length, m_post_cgi>>

Content == pc = "parse" /\ InContent /\ parse_content(m_read_buf, m_checked_index)

\* The data ran out inside the body, so the loop looked for a line in it and
\* has found one.
LineInContent ==
  pc = "parse" /\ ~InContent /\ LineOk /\ parse_content(Terminated, LineStart + 2)

process_read ==
  \/ NoMoreLines \/ RequestLine \/ HeaderLine \/ EndOfHeaders \/ Content
  \/ LineInContent

-----------------------------------------------------------------------------
(* What is assumed of the constants: a request is made of words and its    *)
(* header lines are not empty.  Nothing ties the length it announces to    *)
(* its body, but a number is not negative: atol takes a minus sign too,    *)
(* and parse_content then writes its NUL before the body or before the     *)
(* buffer (http_conn.cpp:312).  Such a request is left out.                *)
ASSUME RequestsAssumption ==
  /\ NUL \notin Words
  /\ \A r \in Requests :
       r \in [line : Seq(Words), headers : Seq(Seq(Words) \ {<<>>}),
              body : Seq(Words \cup {CR, LF})]
  /\ \A word \in DOMAIN Number : Number[word] \in Nat

\* A request that gets as far as its headers announces the length its body has.
WellAnnounced(r) ==
  GoodLine(r.line) =>
    /\ \A i \in DOMAIN r.headers :
         r.headers[i][1] = "Content-Length:" => atol(r.headers[i][2]) = Len(r.body)
    /\ r.body # <<>> =>
         \E i \in DOMAIN r.headers : r.headers[i][1] = "Content-Length:"

ASSUME FilesAssumption == Forms \cup FormPages \subseteq DOMAIN Files

ASSUME BufferAssumption == READ_BUFFER_SIZE \in Nat
=============================================================================
