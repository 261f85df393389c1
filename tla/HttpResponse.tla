----------------------------- MODULE HttpResponse -----------------------------
(***************************************************************************)
(* The http_response_* functions of src/src/http/http_parser.c.  Text is   *)
(* kept as its length: a response is [status, msg, headers, body] with msg *)
(* the length of status_message, headers a sequence of [name, value]       *)
(* lengths and body the body_length.  http_response_serialize is modelled  *)
(* by where each of its writes lands in the buffer it allocates.           *)
(***************************************************************************)
EXTENDS Integers, Sequences, SequencesExt

(* the characters "%d" prints for a status code *)
RECURSIVE Digits(_)
Digits(n) == IF n < 0 THEN 1 + Digits(-n)
             ELSE IF n < 10 THEN 1 ELSE 1 + Digits(n \div 10)

(* http_response_create: version HTTP/1.1, no headers, no body *)
ResponseCreate(status, msg) == [status |-> status, msg |-> msg, headers |-> <<>>, body |-> 0]

(* http_response_add_header: realloc the array one larger and append *)
ResponseAddHeader(r, name, value) ==
    [r EXCEPT !.headers = Append(@, [name |-> name, value |-> value])]

(* http_response_set_body: the old body is freed; a NULL or empty body    *)
(* leaves body_length 0                                                    *)
ResponseSetBody(r, len) == [r EXCEPT !.body = len]

(* A plausible bug: two bytes per header for ": " and none for CRLF *)
BufferSizeShort(r) ==
    256 + FoldLeft(LAMBDA acc, h : acc + h.name + h.value + 2, 0, r.headers) + r.body + 4

(* the size serialize allocates: 256 for the status line, name + value + *)
(* 4 per header, the body and 4 more                                       *)
BufferSize(r) ==
    256 + FoldLeft(LAMBDA acc, h : acc + h.name + h.value + 4, 0, r.headers) + r.body + 4

(* offset += snprintf(buffer + offset, size - offset, ...) of a text of n *)
(* characters: snprintf returns n whatever it writes, and writes at most  *)
(* size - offset bytes, the NUL included.  Once offset has passed size,   *)
(* the size_t size - offset wraps to nearly 2^64 and bounds nothing: the   *)
(* whole text and its NUL are written.  w.end is one past the last byte    *)
(* written so far; w.cut records that some snprintf truncated its text.    *)
Snprintf(w, n) ==
    LET avail == w.size - w.off
        last  == CASE w.off > w.size -> w.off + n + 1
                   [] avail = 0      -> w.off
                   [] OTHER          -> w.off + Min({n, avail - 1}) + 1
    IN  [w EXCEPT !.off = @ + n, !.end = Max({@, last}),
                  !.cut = @ \/ (w.off <= w.size /\ n >= avail)]

(* "HTTP/1.1 %d %s\r\n": the length of the status line *)
StatusLine(r) == 9 + Digits(r.status) + 1 + r.msg + 2

(* http_response_serialize: the status line "HTTP/1.1 %d %s\r\n", each     *)
(* header "%s: %s\r\n", "\r\n", then memcpy of the body.  The result is    *)
(* the buffer's size, out_length (off), the end of what was written and   *)
(* whether a write was truncated.                                          *)
ResponseSerialize(r) ==
    LET w0     == [size |-> BufferSize(r), off |-> 0, end |-> 0, cut |-> FALSE]
        status == Snprintf(w0, StatusLine(r))
        hdrs   == FoldLeft(LAMBDA w, h : Snprintf(w, h.name + 2 + h.value + 2), status, r.headers)
        blank  == Snprintf(hdrs, 2)
    IN  IF r.body > 0
        THEN [blank EXCEPT !.off = @ + r.body, !.end = Max({@, blank.off + r.body})]
        ELSE blank
==============================================================================
