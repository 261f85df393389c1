----------------------------- MODULE MCWebServer -----------------------------
(* Requests clients send in the checked models *)
EXTENDS WebServer, HttpStatus

(* "GET /a HTTP/1.1\r\n\r\n": a request line and no headers *)
BareRequest == <<"G", SP, "/", "a", SP, "H", CR, LF, CR, LF>>

(* "GET /a\r\n": a line that is not a request *)
NoVersion == <<"G", SP, "/", "a", CR, LF>>

(* "GET /a HTTP/1.1\r\nh: v\r\n\r\n": one header, as with Host *)
OneHeader == <<"G", SP, "/", "a", SP, "H", CR, LF, "h", ":", SP, "v", CR, LF, CR, LF>>

(* Responses a handler may leave: a status line of exactly 256 bytes (a   *)
(* 241-character message) with two one-byte headers, so that every byte    *)
(* of the allotment is used; a 404 with the phrase http_status_get_message *)
(* gives, a header and a 13-byte body; and a 300-character message, whose   *)
(* status line is longer than the 256 bytes serialize allots to it         *)
MCHandlerResponses ==
    { ResponseAddHeader(ResponseAddHeader(ResponseCreate(200, 241), 1, 1), 1, 1),
      ResponseSetBody(ResponseAddHeader(ResponseCreate(404, Len(StatusMessage(404))), 12, 9), 13),
      ResponseAddHeader(ResponseCreate(500, 300), 1, 1) }

(* Every code of http_status_code_t has a phrase of its own in            *)
(* http_status_get_message, a response built with it fits the status line  *)
(* serialize allocates for, and http_status_get_category names the one     *)
(* http_status_is_* range the code is in.                                  *)
StatusTableAgrees ==
    \A c \in StatusCodes :
        /\ StatusMessage(c) # "Unknown"
        /\ ~ResponseSerialize(ResponseCreate(c, Len(StatusMessage(c)))).cut
        /\ Category(c) = CASE IsInformational(c) -> "INFORMATIONAL"
                          [] IsSuccess(c)       -> "SUCCESS"
                          [] IsRedirection(c)   -> "REDIRECTION"
                          [] IsClientError(c)   -> "CLIENT_ERROR"
                          [] IsServerError(c)   -> "SERVER_ERROR"
        /\ IsError(c) <=> Category(c) \in {"CLIENT_ERROR", "SERVER_ERROR"}

ASSUME StatusTableAgrees

ServedInputs == {BareRequest, NoVersion}
HeaderInputs == {OneHeader}
==============================================================================
