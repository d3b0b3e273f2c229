---------------------------- MODULE MCRetryTiming ----------------------------
(* Times and reports for TLC.                                              *)
EXTENDS RetryTiming

\* Every twenty minutes of a day, half a minute past, so that both ends of the
\* maintenance window are met by some delay.
EveryTwentyMinutes == {1200 * n + 30 : n \in 0 .. 71}

Exact(c) == [Blank EXCEPT !.asReason = c, !.names = {c}]
Code(c) == [Blank EXCEPT !.asCode = c]
Words(cs) == [Blank EXCEPT !.names = cs]

Report(code, reason) == [code |-> code, reason |-> reason]

\* One report for every category, and reports that point in two directions:
\* a code against a reason, and a reason with several words.
MixedReports ==
  {Report(Blank, Exact(c)) : c \in Known} \cup
  {Report(Blank, Blank),
   Report(Code("gateway_issue"), Exact("card_blocked")),
   Report(Exact("network_timeout"), Words({"expired_card"})),
   Report(Blank, Words({"card_blocked", "network_timeout"})),
   Report(Words({"gateway_issue"}), Words({"expired_card", "insufficient_funds"})),
   Report(Words({"gateway_issue", "authentication_failed"}), Blank)}
=============================================================================
