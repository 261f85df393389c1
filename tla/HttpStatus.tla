------------------------------ MODULE HttpStatus ------------------------------
(***************************************************************************)
(* src/src/http_status/http_status.c: the reason phrase of a status code  *)
(* and its category.  The codes are the http_status_code_t enumeration of  *)
(* src/include/http_status.h.                                              *)
(***************************************************************************)
EXTENDS Integers

(* http_status_code_t *)
StatusCodes ==
    (100..103) \cup (200..206) \cup (300..304) \cup {307, 308}
    \cup (400..418) \cup {422, 429} \cup (500..505)

(* http_status_get_message: the cases of its switch, "Unknown" for any    *)
(* other code                                                              *)
StatusMessage(c) ==
        CASE c = 100 -> "Continue"            [] c = 101 -> "Switching Protocols"
          [] c = 102 -> "Processing"          [] c = 103 -> "Early Hints"
          [] c = 200 -> "OK"                  [] c = 201 -> "Created"
          [] c = 202 -> "Accepted"            [] c = 203 -> "Non-Authoritative Information"
          [] c = 204 -> "No Content"          [] c = 205 -> "Reset Content"
          [] c = 206 -> "Partial Content"     [] c = 300 -> "Multiple Choices"
          [] c = 301 -> "Moved Permanently"   [] c = 302 -> "Found"
          [] c = 303 -> "See Other"           [] c = 304 -> "Not Modified"
          [] c = 307 -> "Temporary Redirect"  [] c = 308 -> "Permanent Redirect"
          [] c = 400 -> "Bad Request"         [] c = 401 -> "Unauthorized"
          [] c = 402 -> "Payment Required"    [] c = 403 -> "Forbidden"
          [] c = 404 -> "Not Found"           [] c = 405 -> "Method Not Allowed"
          [] c = 406 -> "Not Acceptable"      [] c = 407 -> "Proxy Authentication Required"
          [] c = 408 -> "Request Timeout"     [] c = 409 -> "Conflict"
          [] c = 410 -> "Gone"                [] c = 411 -> "Length Required"
          [] c = 412 -> "Precondition Failed" [] c = 413 -> "Payload Too Large"
          [] c = 414 -> "URI Too Long"        [] c = 415 -> "Unsupported Media Type"
          [] c = 416 -> "Range Not Satisfiable" [] c = 417 -> "Expectation Failed"
          [] c = 418 -> "I'm a teapot"        [] c = 422 -> "Unprocessable Entity"
          [] c = 429 -> "Too Many Requests"   [] c = 500 -> "Internal Server Error"
          [] c = 501 -> "Not Implemented"     [] c = 502 -> "Bad Gateway"
          [] c = 503 -> "Service Unavailable" [] c = 504 -> "Gateway Timeout"
          [] c = 505 -> "HTTP Version Not Supported"
          [] OTHER   -> "Unknown"

(* the http_status_is_* predicates: half-open ranges of a hundred *)
IsInformational(c) == c >= 100 /\ c < 200
IsSuccess(c)       == c >= 200 /\ c < 300
IsRedirection(c)   == c >= 300 /\ c < 400
IsClientError(c)   == c >= 400 /\ c < 500
IsServerError(c)   == c >= 500 /\ c < 600
IsError(c)         == IsClientError(c) \/ IsServerError(c)

(* http_status_get_category: the first range that holds, CLIENT_ERROR     *)
(* when none does                                                          *)
Category(c) ==
    CASE IsInformational(c) -> "INFORMATIONAL"
      [] IsSuccess(c)       -> "SUCCESS"
      [] IsRedirection(c)   -> "REDIRECTION"
      [] IsClientError(c)   -> "CLIENT_ERROR"
      [] IsServerError(c)   -> "SERVER_ERROR"
      [] OTHER              -> "CLIENT_ERROR"
==============================================================================
