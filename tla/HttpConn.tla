------------------------------ MODULE HttpConn ------------------------------
(***************************************************************************)
(* A whole request/response cycle of http_conn.  HttpRequest reads and     *)
(* parses; here process_write prepares the header and the two iovecs,      *)
(* write() hands them to writev until everything is sent, and init() gets  *)
(* the object ready for the next request.  /specdata and /jsondata are     *)
(* answered from the buffers the frame receiver (APPTCP::parse_data_frame) *)
(* fills: it holds bufferMutex, the HTTP side does not.                    *)
(*                                                                         *)
(* A cell of a response is <<"h", i>>, <<"f", url, i>>, <<"s", i, version>>*)
(* or <<"j", i, version>>: the i-th of the header, of a file, of the       *)
(* spectrum, of the JSON text.  A worker and the loop never hold the       *)
(* connection together here (module Reactor shows when they may).          *)
(***************************************************************************)
EXTENDS HttpRequest

CONSTANTS
  HeaderSize,   \* cells of a header
  SPEC_SIZE,    \* sizeof(spec_share_buf)
  BYTE,         \* what uint8_t holds; both in cells
  JsonLength,   \* length of the JSON text of each frame, in cells
  HeaderCuts    \* writev calls that may end inside the header (bound)

\* The length announced and sent for the spectrum: (uint8_t)sizeof.
SpecLength == SPEC_SIZE % BYTE

VARIABLES
  m_write_idx, announced,          \* the header and the length it announces
  iov0, iov1,                      \* m_iv: [base, len] and [mem, base, len]
  bytes_to_send, bytes_have_send,
  copied,                          \* json_char_shared
  got,                             \* cells of the response the client has
  cuts,                            \* writev calls that ended in the header
  \* sharedbuffer.cpp and the receiver's thread
  spec_share_buf,                  \* frame of each of its cells
  Json_share_buf,                  \* [text, len]: frames the two come from
  frame, rpc,                      \* frame in work, and where the receiver is
  spoilt                            \* the response is not the receiver's last
                                   \* frame alone: see ResponseInOrder

writeVars == <<m_write_idx, announced, iov0, iov1, bytes_to_send,
               bytes_have_send, copied, got, cuts>>
sharedVars == <<spec_share_buf, Json_share_buf, frame, rpc>>
vars == <<clientVars, pc, readVars, writeVars, sharedVars, spoilt>>

Frames == 1..Len(JsonLength)

\* The sizes are numbers, a byte counts something, and there is a first frame.
ASSUME SizesAssumption ==
  /\ HeaderSize \in Nat /\ SPEC_SIZE \in Nat /\ BYTE \in Nat \ {0}
  /\ JsonLength \in Seq(Nat) /\ JsonLength # <<>>
  /\ \A url \in DOMAIN Files : Files[url].size \in Nat

HalfWritten == rpc \in {"spec2", "json2"}
StaleMap == m_read_ret # "FILE_REQUEST" /\ m_file_address # NoMap

\* The constructor of http_conn leaves its members as they are.
Init ==
  /\ client = 1 /\ asks = 0 /\ pending = FALSE
  /\ asked = NoRequest
  /\ unsent = <<>> /\ bodyCut = FALSE /\ rx = <<>>
  /\ pc = "in"
  /\ m_read_buf = <<>> /\ m_checked_index = 0 /\ m_start_line = 0
  /\ m_check_state = "REQUESTLINE" /\ m_method = "GET" /\ m_url = ""
  /\ m_linger = FALSE /\ m_content_length = 0
  /\ line_status = "OK" /\ m_string = <<>> /\ m_post_cgi \in {0, 1}
  /\ m_read_ret = "NO_REQUEST" /\ m_file_address \in {NoMap, Garbage}
  /\ m_write_idx = 0 /\ announced = 0
  /\ iov0 = [base |-> 0, len |-> 0]
  /\ iov1 = [mem |-> "file", base |-> 0, len |-> 0]
  /\ bytes_to_send = 0 /\ bytes_have_send = 0
  /\ copied = <<>> /\ got = <<>> /\ cuts = 0
  /\ spec_share_buf = [i \in 1..SPEC_SIZE |-> 1]
  /\ Json_share_buf = [text |-> 1, len |-> 1]
  /\ frame = 1 /\ rpc = "spec" /\ spoilt = FALSE

-----------------------------------------------------------------------------
(* process_write.                                                          *)

PrepareIovs(mem, size) ==
  /\ iov0' = [base |-> 0, len |-> HeaderSize]
  /\ iov1' = [mem |-> mem, base |-> 0, len |-> size]
  /\ bytes_to_send' = HeaderSize + size

Begin(length) ==
  /\ pc = "out"
  /\ m_write_idx' = HeaderSize
  /\ announced' = length
  /\ spoilt' = (HalfWritten \/ StaleMap)
  /\ got' = <<>> /\ cuts' = 0
  /\ UNCHANGED <<clientVars, readVars, sharedVars, bytes_have_send>>

WriteFile ==
  /\ m_read_ret = "FILE_REQUEST"
  /\ Begin(Files[m_url].size)
  /\ PrepareIovs("file", Files[m_url].size)
  /\ pc' = "write"
  /\ UNCHANGED copied

\* The second iovec points at the shared buffer itself.
WriteSpec ==
  /\ m_read_ret = "FILE_SPEC" /\ m_method = "GET"
  /\ Begin(SpecLength)
  /\ PrepareIovs("spec", SpecLength)
  /\ pc' = "write"
  /\ UNCHANGED copied

\* The length of the JSON text is read for the header, for the copy, and for
\* the iovec, without the lock.
WriteJson ==
  /\ m_read_ret = "FILE_JSON" /\ m_method = "GET"
  /\ Begin(JsonLength[Json_share_buf.len])
  /\ pc' = "json"
  /\ UNCHANGED <<iov0, iov1, bytes_to_send, copied>>

CopyJson ==
  /\ pc = "json"
  /\ copied' = [i \in 1..JsonLength[Json_share_buf.len] |->
                  <<"j", i, Json_share_buf.text>>]
  /\ pc' = "copy"
  /\ UNCHANGED <<clientVars, readVars, m_write_idx, announced, iov0, iov1,
                 bytes_to_send, bytes_have_send, got, cuts, sharedVars, spoilt>>

SendJson ==
  /\ pc = "copy"
  /\ PrepareIovs("json", JsonLength[Json_share_buf.len])
  /\ pc' = "write"
  /\ UNCHANGED <<clientVars, readVars, m_write_idx, announced,
                 bytes_have_send, copied, got, cuts, sharedVars, spoilt>>

\* POST to /specdata or /jsondata falls through to the default case.
WriteRefused ==
  /\ pc = "out"
  /\ m_read_ret \in {"FILE_SPEC", "FILE_JSON"} /\ m_method = "POST"
  /\ pc' = "dead"
  /\ UNCHANGED <<clientVars, readVars, writeVars, sharedVars, spoilt>>

-----------------------------------------------------------------------------
(* write().                                                                *)

\* Cell i of the memory an iovec points at.
FileSize == IF m_file_address.ok THEN Files[m_file_address.url].size ELSE 0
Memory(mem, i) ==
  CASE mem = "spec" -> <<"s", i, spec_share_buf[i]>>
    [] mem = "json" -> IF i <= Len(copied) THEN copied[i] ELSE <<NUL>>
    [] mem = "file" -> IF i \in 1..FileSize THEN <<"f", m_file_address.url, i>>
                                            ELSE <<"junk">>

\* What of the second iovec writev can read: nothing of a mapping that failed.
Readable ==
  IF iov1.mem = "file" /\ ~m_file_address.ok THEN 0 ELSE iov1.len

Sent(n) ==
  LET fromHeader == Min({n, iov0.len})
  IN [i \in 1..n |-> IF i <= fromHeader
                     THEN <<"h", iov0.base + i>>
                     ELSE Memory(iov1.mem, iov1.base + i - fromHeader)]

\* unmap() and the rest of write() once it has given up, or returns.
unmap == m_file_address' = NoMap

\* The iovecs after a partial write; the base of the second is computed from
\* m_file_address whatever it pointed at.
AdvanceTo(base, n, have, left) ==
  IF have >= iov0.len
  THEN /\ iov0' = [iov0 EXCEPT !.len = 0]
       /\ iov1' = [mem |-> "file", base |-> base, len |-> left]
  ELSE /\ iov0' = [base |-> have, len |-> iov0.len - n]
       /\ UNCHANGED iov1

\* Mutation of Advance: the header's length is not taken off.
AdvanceFromStart(n, have, left) == AdvanceTo(have, n, have, left)

Advance(n, have, left) == AdvanceTo(have - m_write_idx, n, have, left)

InitWrite ==
  /\ bytes_to_send' = 0
  /\ bytes_have_send' = 0
  /\ m_write_idx' = 0

\* One writev that takes n cells.
WriteSome(n) ==
  /\ pc = "write" /\ n \in 1..(iov0.len + Readable)
  /\ n < iov0.len => cuts < HeaderCuts
  /\ cuts' = IF n < iov0.len THEN cuts + 1 ELSE cuts
  /\ got' = got \o Sent(n)
  /\ bytes_to_send > n
  /\ bytes_have_send' = bytes_have_send + n
  /\ bytes_to_send' = bytes_to_send - n
  /\ Advance(n, bytes_have_send + n, bytes_to_send - n)
  /\ UNCHANGED <<clientVars, pc, readVars, m_write_idx, announced, copied,
                 sharedVars, spoilt>>

\* The writev after which nothing is left to send: the file is unmapped, the
\* descriptor armed for input and, for a connection that is kept alive, the
\* object set up for the next request.
WriteLast(n) ==
  /\ pc = "write" /\ n \in 1..(iov0.len + Readable)
  /\ bytes_to_send <= n
  /\ got' = got \o Sent(n)
  /\ pending' = FALSE
  /\ unmap
  /\ Advance(n, bytes_have_send + n, bytes_to_send - n)
  /\ IF m_linger
     THEN InitRead /\ InitWrite /\ pc' = "in"
     ELSE /\ bytes_have_send' = bytes_have_send + n
          /\ bytes_to_send' = bytes_to_send - n
          /\ pc' = "over"
          /\ UNCHANGED <<bufferVars, parseVars, m_write_idx>>
  /\ UNCHANGED <<client, asks, asked, unsent, bodyCut, rx, line_status, m_string,
                 m_post_cgi, m_read_ret, announced, copied, cuts, sharedVars,
                 spoilt>>

\* writev fails: with EFAULT when there is nothing at the address of the second
\* iovec, or with EPIPE or ECONNRESET, the client being gone.
WriteFails ==
  /\ pc = "write"
  /\ \/ iov0.len = 0 /\ Readable = 0 /\ pc' = "dead"
     \/ pc' = "lost"
  /\ unmap
  /\ UNCHANGED <<clientVars, bufferVars, parseVars, line_status, m_string,
                 m_post_cgi, m_read_ret, writeVars, sharedVars, spoilt>>

-----------------------------------------------------------------------------
(* The connection, and the object's next one.                              *)

\* Hang-up or timer: the descriptor is closed; the object stays as it is.
Close ==
  /\ pc \in {"in", "out", "deaf", "dead", "lost", "over"}
  /\ pc' = "closed"
  /\ unsent' = <<>> /\ rx' = <<>> /\ pending' = FALSE
  /\ UNCHANGED <<client, asks, asked, bodyCut, readVars, writeVars, sharedVars, spoilt>>

\* init(sockfd, address) for a client that gets the same descriptor.
Accept ==
  /\ pc = "closed" /\ client < MaxClients
  /\ client' = client + 1
  /\ pc' = "in"
  /\ got' = <<>>
  /\ InitRead /\ InitWrite
  /\ UNCHANGED <<asks, asked, pending, unsent, bodyCut, rx, line_status, m_string,
                 m_post_cgi, m_read_ret, m_file_address, announced, iov0, iov1,
                 copied, cuts, sharedVars, spoilt>>

-----------------------------------------------------------------------------
(* APPTCP::parse_data_frame, the part under bufferMutex: the spectrum is   *)
(* copied in two halves, the text is assigned, its length set.             *)

Half == SPEC_SIZE \div 2
Publishing(from, to) ==
  /\ rpc = from
  /\ rpc' = to
  /\ spoilt' = TRUE
  /\ UNCHANGED <<clientVars, pc, readVars, writeVars>>

parse_data_frame ==
  \/ /\ frame < Len(JsonLength)
     /\ Publishing("spec", "spec2")
     /\ frame' = frame + 1
     /\ spec_share_buf' = [i \in 1..SPEC_SIZE |->
                             IF i <= Half THEN frame' ELSE spec_share_buf[i]]
     /\ UNCHANGED Json_share_buf
  \/ /\ Publishing("spec2", "json")
     /\ spec_share_buf' = [i \in 1..SPEC_SIZE |-> frame]
     /\ UNCHANGED <<Json_share_buf, frame>>
  \/ /\ Publishing("json", "json2")
     /\ Json_share_buf' = [Json_share_buf EXCEPT !.text = frame]
     /\ UNCHANGED <<spec_share_buf, frame>>
  \/ /\ Publishing("json2", "spec")
     /\ Json_share_buf' = [Json_share_buf EXCEPT !.len = frame]
     /\ UNCHANGED <<spec_share_buf, frame>>

-----------------------------------------------------------------------------
Client ==
  /\ \/ \E r \in Requests : Ask(r) /\ got' = <<>>
     \/ \E n \in 1..Len(unsent) : Deliver(n) /\ UNCHANGED got
  /\ UNCHANGED <<m_write_idx, announced, iov0, iov1, bytes_to_send,
                 bytes_have_send, copied, cuts, sharedVars, spoilt>>

Reading == (Recv \/ process_read) /\ UNCHANGED <<writeVars, sharedVars, spoilt>>

Writing ==
  \/ WriteFile \/ WriteSpec \/ WriteJson \/ CopyJson \/ SendJson \/ WriteRefused
  \/ \E n \in 1..(iov0.len + Readable) : WriteSome(n) \/ WriteLast(n)
  \/ WriteFails

Next == Client \/ Reading \/ Writing \/ Close \/ Accept \/ parse_data_frame
Spec == Init /\ [][Next]_vars

-----------------------------------------------------------------------------
(* Properties.                                                             *)

Verdicts == {"NO_REQUEST", "BAD_REQUEST", "NO_RESOURCE", "FORBIDDEN_REQUEST",
             "FILE_REQUEST", "FILE_SPEC", "FILE_JSON"}

\* Types; the indices of the parser stay in order and inside the buffer, and
\* read() never hands a full buffer to it, so that the NUL parse_content writes
\* behind the body has a cell of its own (http_conn.cpp 132-155, 308-347).
TypeOK ==
  /\ pc \in {"in", "parse", "deaf", "dead", "lost", "out", "json", "copy",
            "write", "over", "closed"}
  /\ m_read_ret \in Verdicts
  /\ m_check_state \in {"REQUESTLINE", "HEADER", "CONTENT"}
  /\ line_status \in {"OK", "OPEN"}
  /\ 0 <= m_start_line /\ m_start_line <= m_checked_index
  /\ m_checked_index <= m_read_idx /\ m_read_idx <= READ_BUFFER_SIZE
  /\ pc \in {"parse", "out"} => m_read_idx < READ_BUFFER_SIZE
  /\ m_content_length \in Nat /\ m_post_cgi \in {0, 1}
  /\ pc = "parse" /\ m_read_idx >= m_content_length + m_checked_index =>
       m_start_line + m_content_length \in 0..(READ_BUFFER_SIZE - 1)
  /\ iov0.base \in 0..HeaderSize /\ iov0.len \in 0..HeaderSize
  /\ m_file_address \notin {NoMap, Garbage} => m_file_address.url \in DOMAIN Files
  /\ rpc \in {"spec", "spec2", "json", "json2"} /\ frame \in Frames

\* What the client asked for, read off the request and not off its bytes.
WantsLinger(r) ==
  \E i \in 1..Len(r.headers) : r.headers[i] = <<"Connection:", "keep-alive">>

\* A POST to a form ends on one of the pages it leads to; so may a GET of the
\* form's URL, if an earlier request or what the memory held left m_post_cgi at
\* 1: the comment of http_conn.cpp:364 takes the flag for "this is a POST".
RightUrls(r) ==
  LET form == r.line[2] \in Forms /\ m_post_cgi = 1
  IN IF form THEN FormPages ELSE {r.line[2]}

\* However TCP cuts a request, and whatever the object served before, the
\* verdict is the one its words call for: the URL, the method, keep-alive and
\* the body are this request's.  The one thing left of earlier requests is the
\* flag of RightUrls: a request that is no GET of a form does not depend on it,
\* and a POST has set it itself (http_conn.cpp 158-347, 362-452).
RightVerdict ==
  pending /\ pc \in {"out", "dead", "json", "copy", "write"} =>
    IF GoodLine(asked.line)
    THEN /\ m_read_ret = Resource(m_url)
         /\ m_url \in RightUrls(asked)
         /\ m_method = asked.line[1]
         /\ m_method = "POST" => m_post_cgi = 1
         /\ m_linger = WantsLinger(asked)
         /\ asked.body # <<>> => m_string = asked.body
    ELSE m_read_ret = "BAD_REQUEST"

\* A request that has arrived in full is not left waiting for more input,
\* unless read() has stopped inside its body, and only one that fills the
\* buffer makes the connection deaf (http_conn.cpp 133-155, 208-211).
Arrived == pending /\ unsent = <<>> /\ rx = <<>>
WholeRequestDecided ==
  /\ Arrived /\ pc = "in" => bodyCut
  /\ pc = "deaf" => Len(Stream(asked)) >= READ_BUFFER_SIZE

\* What a client is sent that asks for url.
Body(url) ==
  CASE url = SpecUrl -> [i \in 1..SpecLength |-> <<"s", i, spec_share_buf[i]>>]
    [] url = JsonUrl -> [i \in 1..JsonLength[Json_share_buf.text] |->
                           <<"j", i, Json_share_buf.text>>]
    [] OTHER -> [i \in 1..Files[url].size |-> <<"f", url, i>>]

Response(url) == [i \in 1..HeaderSize |-> <<"h", i>>] \o Body(url)

\* What the client has received is the beginning of the header and the body
\* of what it asked for, whatever sizes writev accepts and however write()
\* ends; when write() has sent everything it is as long as the header says;
\* and once write() has ended no file stays mapped.
\* write() may give up in the middle although the client reads on, for the
\* next writev has a null base (EFAULT): a file that could not be mapped ends
\* with its header, and so may a response from the shared buffers end anywhere
\* behind it: any writev that takes the header and less than the whole makes
\* 752 compute the rest from m_file_address, which is null.
\* Left out: a response during which the receiver writes, and one from the
\* shared buffers by an object that still has an earlier client's file mapped
\* (http_conn.cpp 645-705, 712-785).
ResponseInOrder ==
  got # <<>> =>
    /\ pc \in {"in", "over", "dead", "lost"} => m_file_address = NoMap
    /\ ~spoilt =>
         \E url \in RightUrls(asked) :
           /\ got = SubSeq(Response(url), 1, Len(got))
           /\ pc \in {"in", "over"} /\ ~pending =>
                Len(got) = HeaderSize + announced
           /\ pc = "dead" =>
                IF url \in {SpecUrl, JsonUrl} THEN Len(got) >= HeaderSize
                                             ELSE Len(got) = HeaderSize
=============================================================================
