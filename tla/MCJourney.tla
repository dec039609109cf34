------------------------------ MODULE MCJourney ------------------------------
(***************************************************************************)
(* Small instances of Journey.                                             *)
(***************************************************************************)
EXTENDS Journey

Answer(security, firewall, wafAction) ==
    [security |-> security, firewall |-> firewall, wafAction |-> wafAction,
     cacheHit |-> FALSE, lowScore |-> FALSE]

Served == Answer("", "", "")

\* Each family of fields once, each kind of answer once.
EdgeAnswers ==
    {Answer("log", "block", ""), Answer("", "block", ""), Answer("", "", "challenge"),
     [Served EXCEPT !.lowScore = TRUE], [Served EXCEPT !.cacheHit = TRUE],
     Answer("newly_named", "", "")}

BotAnswers ==
    {[status |-> 200, type |-> "authorize"], [status |-> 200, type |-> "hard_block"],
     [status |-> 403, type |-> "hard_block"], [status |-> 403, type |-> "block"],
     [status |-> 499, type |-> ""]}

WafAnswers == {"passed", "blocked", "blocked_response"}

\* The origin's clock runs behind; the WAF's is unreadable and the bot layer has none.
Behind     == [l \in Layer |-> IF l = Origin THEN 2 ELSE 3]
Broken     == [l \in Layer |-> IF l = Waf THEN Unreadable ELSE IF l = Bot THEN 0 ELSE 3]
Clocks == {Behind, Broken}

\* Another visit of the same client: its WAF record has no ray either.
Strangers ==
    UNION {ParseF5([provider |-> "f5asm", supportId |-> 2, time |-> 2, attributes |-> 1,
                    requestStatus |-> "passed", rayField |-> 0, rayText |-> 0], 3),
           ParseNginx([provider |-> "nginx", hash |-> 2, time |-> 1, hasURI |-> TRUE,
                       status |-> 200, ray |-> 0, attributes |-> 1], 3)}
=============================================================================
