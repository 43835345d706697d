----------------------------- MODULE MCHttpConn -----------------------------
(***************************************************************************)
(* A small instance of HttpConn: a page, an empty file, a private one, a   *)
(* directory, and the login form, whose URL is no file; requests with and  *)
(* without a body, kept alive or not, one that fills the buffer and one    *)
(* that is no HTTP.                                                        *)
(***************************************************************************)
EXTENDS HttpConn, TLC

SiteFiles ==
  ("/page" :> [kind |-> "file", size |-> 2]) @@
  ("/empty" :> [kind |-> "file", size |-> 0]) @@
  ("/secret" :> [kind |-> "private", size |-> 1]) @@
  ("/" :> [kind |-> "directory", size |-> 1]) @@
  ("/2" :> [kind |-> "missing", size |-> 0])

SiteForms == {"/2"}
SiteFormPages == {"/page"}

Stay == <<"Connection:", "keep-alive">>
Get(url, headers) == [line |-> <<"GET", url>>, headers |-> headers, body |-> <<>>]

SiteRequests ==
  { Get("/page", <<Stay>>),
    Get("/empty", <<>>),
    Get(SpecUrl, <<>>),
    Get(JsonUrl, <<>>),
    Get("/secret", <<>>), Get("/", <<>>),
    Get("/page", << <<"X", "y", "z", "u", "v">> >>),
    Get("/2", <<>>),
    [line |-> <<"POST", "/2">>, headers |-> << <<"Content-Length:", "2">> >>,
     body |-> <<CR, LF>>],
    [line |-> <<"POST", SpecUrl>>, headers |-> <<>>, body |-> <<>>],
    [line |-> <<"HELO">>, headers |-> <<>>, body |-> <<>>] }

SiteNumber == "2" :> 2

TextLengths == <<1, 2>>

=============================================================================
