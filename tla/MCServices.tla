----------------------------- MODULE MCServices ------------------------------
(* Services and AuthToken, with two reporters sharing one metrics collector: both count   *)
(* requests under the same name, then one sets and one observes a second   *)
(* metric, so the find-or-create of each name races the other reporter.   *)
EXTENDS Services, AuthToken

(* short ids, one of the longest that "%127[^:]" reads whole, and times   *)
(* and ttls of one to four digits                                          *)
MCUserIds == {<<"a">>, <<"u", "7">>, [i \in 1..127 |-> "x"]}
MCStamps == {0, 9, 10, 1234}
MCTtls == {0, 60}

MCMScript ==
    [r \in Reporters |->
        IF r = "p1"
        THEN << [op |-> "inc", name |-> "m1", x |-> 0], [op |-> "gauge", name |-> "m2", x |-> 3] >>
        ELSE << [op |-> "inc", name |-> "m1", x |-> 0], [op |-> "observe", name |-> "m2", x |-> 1] >>]

(* retry_with_policy and the token format are pure functions of their      *)
(* inputs: TLC evaluates both statements over every input above when it    *)
(* starts a run of this module, and stops if one is FALSE.                 *)
ASSUME RetryAsDocumented /\ TokenRoundTrip
==============================================================================
