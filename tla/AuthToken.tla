------------------------------ MODULE AuthToken ------------------------------
(***************************************************************************)
(* The auth tokens of src/src/distributed/distributed.c: a token is a user *)
(* id, a creation time in ms and a ttl in seconds.  auth_token_serialize   *)
(* writes it as "%s:%lu:%lu" into 256 bytes and auth_token_deserialize     *)
(* reads it back with sscanf "%127[^:]:%lu:%lu".  Strings are sequences of *)
(* one-character strings; numbers are written and read in decimal.        *)
(***************************************************************************)
EXTENDS Naturals, Sequences, SequencesExt

CONSTANTS UserIds,   \* user ids, as sequences of characters
          Stamps,    \* creation times
          Ttls       \* ttl_seconds values

(* the NULL pointer returned on failure *)
Null == [null |-> TRUE]

DigitChar == <<"0", "1", "2", "3", "4", "5", "6", "7", "8", "9">>
DigitValue(c) == CHOOSE d \in 0..9 : DigitChar[d + 1] = c

(* "%lu" *)
RECURSIVE Decimal(_)
Decimal(n) == IF n < 10 THEN <<DigitChar[n + 1]>>
              ELSE Decimal(n \div 10) \o <<DigitChar[(n % 10) + 1]>>

(* auth_token_create: the creation time is the realtime clock *)
TokenCreate(user, now, ttl) == [user |-> user, created |-> now, ttl |-> ttl]

(* auth_token_validate: age and ttl in uint64_t arithmetic *)
TokenValid(t, now) == (now - t.created) % 2^64 < (t.ttl * 1000) % 2^64

(* auth_token_serialize: snprintf keeps at most 255 characters *)
Serialize(t) ==
    LET s == t.user \o <<":">> \o Decimal(t.created) \o <<":">> \o Decimal(t.ttl)
    IN  IF Len(s) > 255 THEN SubSeq(s, 1, 255) ELSE s

(* the length of the run of characters of the set cs from s[i], at most max *)
RunLen(s, i, max, cs) ==
    LET stops == {j \in i..Len(s) : s[j] \notin cs}
        end   == IF stops = {} THEN Len(s) + 1 ELSE Min(stops)
    IN  IF end - i > max THEN max ELSE end - i

(* A plausible bug: "%127s" in place of "%127[^:]" *)
UserFieldScanS(s) == RunLen(s, 1, 127, Range(s) \ {" "})

(* "%127[^:]": up to 127 characters other than ':' *)
UserField(s) == RunLen(s, 1, 127, Range(s) \ {":"})

(* "%lu": the decimal digits from s[i] on *)
DigitsAt(s, i) == RunLen(s, i, Len(s), Range(DigitChar))

NumberOf(ds) == FoldLeft(LAMBDA acc, c : 10 * acc + DigitValue(c), 0, ds)

(* auth_token_deserialize: NULL unless sscanf converts all three fields;   *)
(* characters after the third field are ignored                            *)
Deserialize(s) ==
    LET u  == UserField(s)
        p1 == u + 1
        d1 == DigitsAt(s, p1 + 1)
        p2 == p1 + 1 + d1
        d2 == DigitsAt(s, p2 + 1)
    IN  IF \/ Len(s) > 256 \/ u = 0
           \/ p1 > Len(s) \/ s[p1] # ":" \/ d1 = 0
           \/ p2 > Len(s) \/ s[p2] # ":" \/ d2 = 0
        THEN Null
        ELSE [user    |-> SubSeq(s, 1, u),
              created |-> NumberOf(SubSeq(s, p1 + 1, p2 - 1)),
              ttl     |-> NumberOf(SubSeq(s, p2 + 1, p2 + d2))]

Tokens == [user : UserIds, created : Stamps, ttl : Ttls]

(* A token whose user id has no ':' and at most 127 characters comes back  *)
(* from auth_token_deserialize(auth_token_serialize(token)) with the same  *)
(* user id, creation time and ttl: the two formats agree.                  *)
TokenRoundTrip ==
    \A t \in Tokens :
        (\A i \in 1..Len(t.user) : t.user[i] # ":") /\ Len(t.user) <= 127
            => Deserialize(Serialize(t)) = t
==============================================================================
