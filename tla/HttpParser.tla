----------------------------- MODULE HttpParser ------------------------------
(***************************************************************************)
(* src/src/http/http_parser.c: http_request_parse, a pure function of the  *)
(* received bytes.  A request is a sequence of characters; the characters *)
(* that matter to the parser keep their identity (SP, CR, LF, ':', '?')   *)
(* and every other byte is a letter.  Words are compared with strcmp only *)
(* against the method and version names, so a one-letter word stands for *)
(* each name: "G" for "GET", "P" for "POST", "H" for "HTTP/1.1", "O" for  *)
(* "HTTP/1.0".                                                             *)
(***************************************************************************)
EXTENDS Naturals, Sequences, SequencesExt

SP == "SP"
CR == "CR"
LF == "LF"
CRLF == <<CR, LF>>
NULL == "NULL"

(* isspace in the C locale, restricted to the bytes the inputs use *)
IsSpace(ch) == ch \in {SP, CR, LF}

(* strstr(s + from - 1, pat): the first index >= from where pat starts, 0 if none *)
StrStr(s, pat, from) ==
    LET I == {i \in from..(Len(s) - Len(pat) + 1) : SubSeq(s, i, i + Len(pat) - 1) = pat}
    IN IF I = {} THEN 0 ELSE Min(I)

(* strchr(s + from - 1, ch): it runs to the terminating NUL, past any CRLF *)
StrChr(s, ch, from) == SelectInSubSeq(s, from, Len(s), LAMBDA c : c = ch)

(* sscanf(raw, "%15s %2047s %15s", ...): each %Ns skips white space, then *)
(* reads at most N non-space bytes; conversion stops at the end of input. *)
(* Returns the words converted.                                            *)
RECURSIVE ScanWords(_, _, _)
ScanWords(s, i, widths) ==
    LET j   == SelectInSubSeq(s, i, Len(s), LAMBDA c : ~IsSpace(c))
        ws  == SelectInSubSeq(s, j, Len(s), LAMBDA c : IsSpace(c))
        end == Min({IF ws = 0 THEN Len(s) + 1 ELSE ws, j + Head(widths)})
    IN IF widths = <<>> \/ j = 0 THEN <<>>
       ELSE <<SubSeq(s, j, end - 1)>> \o ScanWords(s, end, Tail(widths))

(* http_method_from_string and the version strcmp chain *)
MethodOf(w) == CASE w = <<"G">> -> "GET" [] w = <<"P">> -> "POST" [] OTHER -> "UNKNOWN"
VersionOf(w) == CASE w = <<"H">> -> "1.1" [] w = <<"O">> -> "1.0" [] OTHER -> "UNKNOWN"

(* the count loop: CRLF-terminated lines from cur that end before he *)
RECURSIVE CountLines(_, _, _)
CountLines(s, cur, he) ==
    LET next == StrStr(s, CRLF, cur)
    IN IF cur >= he \/ next = 0 \/ next >= he THEN 0
       ELSE 1 + CountLines(s, next + 2, he)

(* the fill loop: a line whose first ':' (searched to the end of the      *)
(* input) lies before the line's CRLF becomes the next header, its value  *)
(* stripped of leading white space; other lines are skipped               *)
RECURSIVE FillHeaders(_, _, _, _)
FillHeaders(s, cur, he, count) ==
    LET next  == StrStr(s, CRLF, cur)
        colon == StrChr(s, ":", cur)
        vs    == LET k == SelectInSubSeq(s, colon + 1, next - 1, LAMBDA c : ~IsSpace(c))
                 IN IF k = 0 THEN next ELSE k
        hdr   == <<SubSeq(s, cur, colon - 1), SubSeq(s, vs, next - 1)>>
        taken == colon # 0 /\ colon < next
    IN IF cur >= he \/ count = 0 \/ next = 0 \/ next >= he THEN <<>>
       ELSE IF taken THEN <<hdr>> \o FillHeaders(s, next + 2, he, count - 1)
       ELSE FillHeaders(s, next + 2, he, count)

(* http_request_parse on a request that recv delivered (length > 0).      *)
(* headers has header_count entries; the calloc'd entries the fill loop   *)
(* did not reach stay NULL.                                                *)
Parse(s) ==
    LET le    == StrStr(s, CRLF, 1)
        words == ScanWords(s, 1, <<15, 2047, 15>>)
        uri   == words[2]
        q     == SelectInSeq(uri, LAMBDA c : c = "?")
        hs    == le + 2
        he    == StrStr(s, <<CR, LF, CR, LF>>, hs)
        count == IF he = 0 THEN 0 ELSE CountLines(s, hs, he)
        fill  == IF he = 0 THEN <<>> ELSE FillHeaders(s, hs, he, count)
    IN IF Len(s) = 0 \/ le = 0 \/ Len(words) # 3 THEN [ok |-> FALSE]
       ELSE [ok      |-> TRUE,
             method  |-> MethodOf(words[1]),
             version |-> VersionOf(words[3]),
             path    |-> IF q = 0 THEN uri ELSE SubSeq(uri, 1, q - 1),
             query   |-> IF q = 0 THEN NULL ELSE SubSeq(uri, q + 1, Len(uri)),
             headers |-> [i \in 1..count |-> IF i <= Len(fill) THEN fill[i] ELSE NULL],
             body    |-> IF he = 0 THEN <<>> ELSE SubSeq(s, he + 4, Len(s))]

-----------------------------------------------------------------------------
(* Reference: an HTTP/1.1 request (RFC 9112 section 2.1): a request line   *)
(* of three words separated by single spaces and ended by CRLF, header     *)
(* lines "name:" OWS value ended by CRLF, an empty line, then the body.    *)
(* Anything else is rejected.                                              *)
RefSplit(s, sep) ==
    LET RECURSIVE Go(_, _)
        Go(rest, acc) ==
            LET k == StrStr(rest, sep, 1)
            IN IF k = 0 THEN Append(acc, rest)
               ELSE Go(SubSeq(rest, k + Len(sep), Len(rest)), Append(acc, SubSeq(rest, 1, k - 1)))
    IN Go(s, <<>>)

RefHeader(line) ==
    LET c == SelectInSeq(line, LAMBDA x : x = ":")
        v == SubSeq(line, c + 1, Len(line))
        k == SelectInSeq(v, LAMBDA x : ~IsSpace(x))
    IN <<SubSeq(line, 1, c - 1), IF k = 0 THEN <<>> ELSE SubSeq(v, k, Len(v))>>

RefParse(s) ==
    LET le    == StrStr(s, CRLF, 1)
        words == RefSplit(SubSeq(s, 1, le - 1), <<SP>>)
        he    == StrStr(s, <<CR, LF, CR, LF>>, le)
        lines == IF he = le THEN <<>> ELSE RefSplit(SubSeq(s, le + 2, he - 1), CRLF)
        uri   == words[2]
        q     == SelectInSeq(uri, LAMBDA c : c = "?")
        good  == /\ le # 0 /\ he # 0 /\ Len(words) = 3
                 /\ \A i \in 1..3 : words[i] # <<>> /\ \A c \in ToSet(words[i]) : ~IsSpace(c)
                 /\ \A i \in 1..Len(lines) : ":" \in ToSet(lines[i])
    IN IF ~good THEN [ok |-> FALSE]
       ELSE [ok      |-> TRUE,
             method  |-> MethodOf(words[1]),
             version |-> VersionOf(words[3]),
             path    |-> IF q = 0 THEN uri ELSE SubSeq(uri, 1, q - 1),
             query   |-> IF q = 0 THEN NULL ELSE SubSeq(uri, q + 1, Len(uri)),
             headers |-> [i \in 1..Len(lines) |-> RefHeader(lines[i])],
             body    |-> SubSeq(s, he + 4, Len(s))]
==============================================================================
